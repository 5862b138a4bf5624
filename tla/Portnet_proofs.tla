--------------------------- MODULE Portnet_proofs ---------------------------
(***************************************************************************)
(* Lemmas about requests to Portnet: what cutting a time to seconds keeps, *)
(* what an answer holds and what saving it does.                           *)
(***************************************************************************)
EXTENDS Portnet, TLAPS

LEMMA TimesKeepOrder == ASSUME NEW q \in Int, NEW r \in Int, NEW n \in Nat, q <= r
                        PROVE  n * q <= n * r
  OBVIOUS

LEMMA FloorBelow == ASSUME NEW t \in Int PROVE Floor(t) \in Int /\ Floor(t) <= t
  BY PortnetAssumption DEF Floor

LEMMA FloorMonotone == ASSUME NEW t \in Int, NEW u \in Int, t <= u
                       PROVE  Floor(t) <= Floor(u)
<1> DEFINE q == t \div Second
           r == u \div Second
<1>1. /\ q \in Int /\ t = Second * q + (t % Second) /\ t % Second \in 0..(Second - 1)
      /\ r \in Int /\ u = Second * r + (u % Second) /\ u % Second \in 0..(Second - 1)
  BY PortnetAssumption
<1>2. Floor(t) = Second * q /\ Floor(u) = Second * r
  BY <1>1, PortnetAssumption DEF Floor
<1>3. q <= r
  <2>1. SUFFICES ASSUME r + 1 <= q PROVE FALSE
    BY <1>1
  <2>2. Second * (r + 1) <= Second * q
    BY <2>1, <1>1, TimesKeepOrder, PortnetAssumption
  <2>3. Second * (r + 1) = Second * r + Second
    BY <1>1, PortnetAssumption
  <2> QED BY <2>2, <2>3, <1>1, PortnetAssumption
<1> QED BY <1>1, <1>2, <1>3, TimesKeepOrder, PortnetAssumption

LEMMA AnswerHolds ==
  ASSUME published \in [Ids -> Stamps], NEW start \in Int, NEW end \in Int
  PROVE  /\ Answer(start, end) \in [Ids -> Stamps]
         /\ \A id \in Ids :
              /\ Answer(start, end)[id] \in {0, published[id]}
              /\ Answer(start, end)[id] # 0 => Answer(start, end)[id] < end
              /\ start <= published[id] /\ published[id] < end
                   => Answer(start, end)[id] = published[id]
  BY DEF Answer, Stamps

LEMMA OverwriteHolds ==
  ASSUME NEW data \in [Ids -> Stamps], NEW new \in [Ids -> Stamps]
  PROVE  /\ Overwrite(data, new) \in [Ids -> Stamps]
         /\ \A id \in Ids :
              Overwrite(data, new)[id] = IF new[id] # 0 THEN new[id] ELSE data[id]
  BY DEF Overwrite, Stamps

LEMMA NothingHolds == Nothing \in [Ids -> Stamps] /\ \A id \in Ids : Nothing[id] = 0
  BY DEF Nothing, Stamps

\* What the server does to its own state, whoever its clients are.
LEMMA ServerSteps ==
  ASSUME PortnetTypeOK, Ticks \/ Publishes
  PROVE  /\ PortnetTypeOK' /\ clock <= clock'
         /\ \A id \in Ids : /\ published[id] <= published'[id]
                            /\ published'[id] # published[id] =>
                                 clock - MaxDelay <= published'[id] /\ published'[id] <= clock
<1>1. CASE Ticks
  BY <1>1 DEF Ticks, PortnetTypeOK, Stamps
<1>2. CASE Publishes
  <2>1. PICK i \in Ids, t \in (clock - MaxDelay)..clock :
           t > published[i] /\ published' = [published EXCEPT ![i] = t] /\ clock' = clock
    BY <1>2 DEF Publishes
  <2>2. t \in Nat
    BY <2>1, PortnetAssumption DEF PortnetTypeOK, Stamps
  <2> QED BY <2>1, <2>2, PortnetAssumption DEF PortnetTypeOK, Stamps
<1> QED BY <1>1, <1>2
=============================================================================

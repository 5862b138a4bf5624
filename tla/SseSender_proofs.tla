-------------------------- MODULE SseSender_proofs --------------------------
(***************************************************************************)
(* The cursor of the SSE sender never passes a report that its node is     *)
(* responsible for: proofs for any nodes, reports and length of a second.  *)
(***************************************************************************)
EXTENDS SseSender, TLAPS

LEMMA FloorBelow ==
  ASSUME NEW t \in Int
  PROVE  Floor(t) \in Int /\ Floor(t) <= t
<1>1. t % Second \in Int /\ t % Second >= 0
  BY SenderAssumption
<1> QED BY <1>1 DEF Floor

LEMMA FloorTwice ==
  ASSUME NEW t \in Int
  PROVE  Floor(Floor(t)) = Floor(t)
<1>1. (t - (t % Second)) % Second = 0 /\ t - (t % Second) \in Int
  BY SenderAssumption
<1> QED BY <1>1 DEF Floor

LEMMA RoundedInt ==
  ASSUME NEW t \in Int
  PROVE  Rounded(t) \in Int /\ Floor(Rounded(t)) = Rounded(t)
<1>1. t + Second \div 2 \in Int
  BY SenderAssumption
<1> QED BY <1>1, FloorBelow, FloorTwice DEF Rounded

LEMMA AppendTyped ==
  ASSUME NEW S, NEW s \in Seq(S), NEW e \in S
  PROVE  Append(s, e) \in Seq(S)
  OBVIOUS

LEMMA Appended ==
  ASSUME NEW S, NEW s \in Seq(S), NEW e
  PROVE  LET t == Append(s, e) IN
         /\ DOMAIN t = 1..Len(s) + 1 /\ DOMAIN s = 1..Len(s) /\ Len(s) \in Nat
         /\ t[Len(s) + 1] = e
         /\ \A i \in DOMAIN s : t[i] = s[i] /\ s[i] \in S
  OBVIOUS

(* The inductive invariant.                                                 *)

\* What a node still has to find.
ToFind(n, r) == Due(n, r) /\ r \notin features[n] /\ r \notin handled[n]

\* The list of a node holds reports that are in the database, a cursor that
\* has moved stands at such a report, and what is still to be found is newer
\* than the cursor and than the list.
CursorRight(n) ==
  /\ features[n] \subseteq Visible
  /\ lastUpdated[n] = started[n] \/ \E q \in Visible : Floor(lastUpdated[n]) <= created[q]
  /\ \A r \in Reports :
       ToFind(n, r) => /\ created[r] > Floor(lastUpdated[n])
                       /\ \A q \in features[n] : created[q] < created[r]

IInv == TypeOK /\ \A n \in Nodes : CursorRight(n)

-----------------------------------------------------------------------------
(* Every step of checkNewSseReports, of a fault or of the environment keeps
   the types.                                                               *)

USE SenderAssumption, LockAssumption

LEMMA InitTypes == Init => TypeOK
  BY DEF Init, TypeOK, LockInit, LockTypeOK, Sending

LEMMA NextTypes ==
  ASSUME TypeOK, [Next]_vars
  PROVE  TypeOK'
<1> USE DEF TypeOK
<1>1. CASE Acquires
  BY <1>1 DEF Acquires, AcquireLock, LockTypeOK, database, node, Sending
<1>2. CASE Loses
  BY <1>2 DEF Loses, LoseLock, LockTypeOK, database, node, Sending
<1>3. CASE Ticks
  BY <1>3 DEF Ticks, LockTypeOK, database, node, Sending
<1>4. CASE Saves
  <2>1. PICK rs \in SUBSET (Reports \ Visible) \ {{}}, t \in (clock - MaxDelay)..clock :
          /\ Rounded(t) > 0
          /\ created' = [r \in Reports |-> IF r \in rs THEN Rounded(t) ELSE created[r]]
          /\ late' = IF \E q \in Visible : created[q] >= Rounded(t) THEN late \cup rs ELSE late
    BY <1>4 DEF Saves
  <2>2. Rounded(t) \in Nat
    BY <2>1, RoundedInt
  <2>3. created' \in [Reports -> Nat]
    BY <2>1, <2>2
  <2>4. late' \subseteq Reports
    BY <2>1
  <2> QED BY <1>4, <2>3, <2>4 DEF Saves, LockTypeOK, node, Sending
<1>5. ASSUME NEW n \in Nodes, Checks(n) PROVE TypeOK'
  BY <1>5 DEF Checks, hasLock, LockTypeOK, database, Sending
<1>6. ASSUME NEW n \in Nodes, Finds(n) PROVE TypeOK'
  <2>1. findCreatedAfter(lastUpdated[n]) \subseteq Reports
    BY DEF findCreatedAfter, Visible
  <2>2. features' \in [Nodes -> SUBSET Reports] /\ pc' \in [Nodes -> {"idle", "find", "sending"}]
    BY <1>6, <2>1 DEF Finds
  <2>3. ASSUME NEW m \in Nodes, pc'[m] # "sending" PROVE features'[m] = {}
    BY <1>6, <2>3 DEF Finds
  <2> QED BY <1>6, <2>2, <2>3 DEF Finds, LockTypeOK, database, Sending
<1>7. ASSUME NEW n \in Nodes, FindFails(n) PROVE TypeOK'
  BY <1>7 DEF FindFails, Fault, LockTypeOK, database, Sending
<1>8. ASSUME NEW n \in Nodes, Sends(n) PROVE TypeOK'
  <2>1. PICK r \in features[n] : TakesNext(n, r, Floor(created[r]))
    BY <1>8 DEF Sends
  <2>2. r \in Reports /\ Floor(created[r]) \in Int
    BY FloorBelow
  <2>3. lastUpdated' \in [Nodes -> Int]
    BY <2>1, <2>2 DEF TakesNext
  <2>4. /\ pc' \in [Nodes -> {"idle", "find", "sending"}]
        /\ features' \in [Nodes -> SUBSET Reports] /\ handled' \in [Nodes -> SUBSET Reports]
    BY <2>1, <2>2 DEF TakesNext
  <2>5. ASSUME NEW m \in Nodes, pc'[m] # "sending" PROVE features'[m] = {}
    BY <2>1, <2>5 DEF TakesNext
  <2>6. [by |-> n, life |-> started[n], report |-> r] \in Sending
    BY <2>2 DEF Sending
  <2>7. queued' \in Seq(Sending)
    <3>1. queued \in Seq(Sending)
      OBVIOUS
    <3>2. \/ queued' = Append(queued, [by |-> n, life |-> started[n], report |-> r])
          \/ queued' = queued
      BY <2>1 DEF TakesNext
    <3>3. Append(queued, [by |-> n, life |-> started[n], report |-> r]) \in Seq(Sending)
      <4> HIDE DEF TypeOK
      <4> QED BY <3>1, <2>6, AppendTyped, Zenon
    <3> QED BY <3>1, <3>2, <3>3, Zenon
  <2>8. faults' \in 0..MaxFaults
    BY <2>1 DEF TakesNext, Fault
  <2> QED BY <2>1, <2>3, <2>4, <2>5, <2>7, <2>8 DEF TakesNext, LockTypeOK, database, Sending
<1>9. ASSUME NEW n \in Nodes, Restarts(n) PROVE TypeOK'
  BY <1>9 DEF Restarts, Fault, LockTypeOK, database, Sending
<1>10. CASE UNCHANGED vars
  BY <1>10 DEF vars, LockTypeOK, database, node, Sending
<1> QED
  BY <1>1, <1>2, <1>3, <1>4, <1>5, <1>6, <1>7, <1>8, <1>9, <1>10
  DEF Next, Sender, CheckNewSseReports

\* The values the sender keeps stay in their domains, and no list outlives
\* the run that found it.
THEOREM TypeCorrect == Spec => []TypeOK
  BY InitTypes, NextTypes, PTL DEF Spec
-----------------------------------------------------------------------------
(* The cursor.                                                              *)

LEMMA InitCursor == Init => \A n \in Nodes : CursorRight(n)
<1> SUFFICES ASSUME Init, NEW n \in Nodes PROVE CursorRight(n)
  OBVIOUS
<1>1. Visible = {}
  BY DEF Init, Visible
<1> QED BY <1>1 DEF Init, CursorRight, ToFind, Due

\* A step that changes neither the reports nor what the node keeps.
LEMMA KeptByOthers ==
  ASSUME NEW n \in Nodes, CursorRight(n), UNCHANGED database,
         lastUpdated'[n] = lastUpdated[n], started'[n] = started[n],
         features'[n] = features[n], handled'[n] = handled[n]
  PROVE  CursorRight(n)'
<1>1. Visible' = Visible /\ created' = created /\ late' = late
  BY DEF database, Visible
<1>2. \A r \in Reports : ToFind(n, r)' <=> ToFind(n, r)
  BY <1>1 DEF ToFind, Due
<1> QED BY <1>1, <1>2 DEF CursorRight

\* Reports saved now are late or newer than all that were visible, and so than
\* the list and than a cursor that stands at one of them.
LEMMA KeptBySaves ==
  ASSUME TypeOK, Saves, NEW n \in Nodes, CursorRight(n)
  PROVE  CursorRight(n)'
<1>1. PICK rs \in SUBSET (Reports \ Visible) \ {{}}, t \in (clock - MaxDelay)..clock :
        /\ Rounded(t) > 0
        /\ created' = [r \in Reports |-> IF r \in rs THEN Rounded(t) ELSE created[r]]
        /\ late' = IF \E q \in Visible : created[q] >= Rounded(t) THEN late \cup rs ELSE late
  BY DEF Saves
<1>2. UNCHANGED <<lastUpdated, started, features, handled>>
  BY DEF Saves, node
<1>3. /\ Rounded(t) \in Int /\ \A r \in Reports : created[r] \in Int
      /\ Floor(lastUpdated[n]) \in Int /\ Floor(started[n]) \in Int
  <2>1. /\ t \in Int /\ lastUpdated[n] \in Int /\ started[n] \in Int
        /\ \A r \in Reports : created[r] \in Int
    BY DEF TypeOK
  <2> QED BY <2>1, RoundedInt, FloorBelow
<1>4. /\ Visible' = Visible \cup rs /\ rs \cap Visible = {}
      /\ \A q \in Visible : created'[q] = created[q]
      /\ \A q \in rs : created'[q] = Rounded(t)
  BY <1>1, <1>3 DEF Visible
<1>5. features'[n] \subseteq Visible'
  BY <1>2, <1>4 DEF CursorRight
<1>6. lastUpdated'[n] = started'[n] \/ \E q \in Visible' : Floor(lastUpdated'[n]) <= created'[q]
  BY <1>2, <1>4 DEF CursorRight
<1>7. ASSUME NEW r \in Reports, ToFind(n, r)'
      PROVE  /\ created'[r] > Floor(lastUpdated'[n])
             /\ \A q \in features'[n] : created'[q] < created'[r]
  <2>1. /\ r \in Visible' \ late' /\ created'[r] > Floor(started[n])
        /\ r \notin features[n] /\ r \notin handled[n]
    BY <1>2, <1>7 DEF ToFind, Due
  <2>2. CASE r \in Visible
    <3>1. ToFind(n, r)
      BY <1>1, <1>4, <2>1, <2>2 DEF ToFind, Due
    <3> QED BY <1>2, <1>4, <2>2, <3>1 DEF CursorRight
  <2>3. CASE r \in rs
    <3>1. \A q \in Visible : created[q] < Rounded(t)
      BY <1>1, <1>3, <2>1, <2>3 DEF Visible
    <3>2. created'[r] = Rounded(t)
      BY <1>4, <2>3
    <3>3. \A q \in features'[n] : created'[q] < created'[r]
      BY <1>2, <1>4, <3>1, <3>2 DEF CursorRight
    <3>4. Rounded(t) > Floor(lastUpdated[n])
      <4>1. CASE lastUpdated[n] = started[n]
        BY <2>1, <3>2, <4>1
      <4>2. CASE \E q \in Visible : Floor(lastUpdated[n]) <= created[q]
        BY <1>3, <3>1, <4>2 DEF Visible
      <4> QED BY <4>1, <4>2 DEF CursorRight
    <3> QED BY <1>2, <3>2, <3>3, <3>4
  <2> QED BY <1>4, <2>1, <2>2, <2>3
<1> QED BY <1>5, <1>6, <1>7 DEF CursorRight

\* A new list holds all that was to be found: the old one had been used up.
LEMMA KeptByFinds ==
  ASSUME TypeOK, NEW n \in Nodes, Finds(n), CursorRight(n)
  PROVE  CursorRight(n)'
<1>1. /\ features'[n] = findCreatedAfter(lastUpdated[n]) /\ features[n] = {}
      /\ UNCHANGED <<created, late, lastUpdated, started, handled>>
  BY DEF Finds, TypeOK, database
<1>2. Visible' = Visible
  BY <1>1 DEF Visible
<1>3. \A r \in Reports : ~ToFind(n, r)'
  <2> SUFFICES ASSUME NEW r \in Reports, ToFind(n, r)' PROVE FALSE
    OBVIOUS
  <2>1. ToFind(n, r) /\ r \notin findCreatedAfter(lastUpdated[n])
    BY <1>1, <1>2 DEF ToFind, Due
  <2> QED BY <2>1 DEF CursorRight, findCreatedAfter, ToFind, Due
<1>4. features'[n] \subseteq Visible'
  BY <1>1, <1>2 DEF findCreatedAfter
<1> QED BY <1>1, <1>2, <1>3, <1>4 DEF CursorRight

\* The report taken from the list is older than what is still to be found.
LEMMA KeptBySends ==
  ASSUME TypeOK, NEW n \in Nodes, Sends(n), CursorRight(n)
  PROVE  CursorRight(n)'
<1>1. PICK r \in features[n] : TakesNext(n, r, Floor(created[r]))
  BY DEF Sends
<1>2. /\ features'[n] = features[n] \ {r} /\ lastUpdated'[n] = Floor(created[r])
      /\ handled'[n] = handled[n] \cup {r}
      /\ UNCHANGED <<created, late, started>>
  BY <1>1 DEF TakesNext, TypeOK, database
<1>3. Visible' = Visible /\ r \in Visible
  BY <1>2 DEF Visible, CursorRight
<1>4. /\ Floor(Floor(created[r])) \in Int /\ Floor(Floor(created[r])) <= created[r]
      /\ \A q \in Reports : created[q] \in Int
  <2>1. \A q \in Reports : created[q] \in Int
    BY DEF TypeOK
  <2>2. created[r] \in Int
    BY <1>3, <2>1 DEF Visible
  <2>3. Floor(created[r]) \in Int /\ Floor(created[r]) <= created[r]
    BY <2>2, FloorBelow
  <2>4. Floor(Floor(created[r])) \in Int /\ Floor(Floor(created[r])) <= Floor(created[r])
    BY <2>3, FloorBelow
  <2> QED BY <2>1, <2>2, <2>3, <2>4
<1>5. ASSUME NEW q \in Reports, ToFind(n, q)'
      PROVE  /\ created'[q] > Floor(lastUpdated'[n])
             /\ \A p \in features'[n] : created'[p] < created'[q]
  <2>1. ToFind(n, q)
    BY <1>2, <1>3, <1>5 DEF ToFind, Due
  <2>2. \A p \in features[n] : created[p] < created[q]
    BY <2>1 DEF CursorRight
  <2>3. created[r] < created[q] /\ r \in Reports
    BY <1>3, <2>2 DEF Visible
  <2>4. created[q] > Floor(Floor(created[r]))
    BY <1>4, <2>3
  <2> QED BY <1>2, <2>2, <2>4
<1>6. Floor(lastUpdated'[n]) <= created'[r]
  BY <1>2, <1>4
<1>7. features'[n] \subseteq Visible'
  BY <1>2, <1>3 DEF CursorRight
<1> QED BY <1>3, <1>5, <1>6, <1>7 DEF CursorRight

\* A node that starts answers for what is newer than its start.
LEMMA KeptByRestarts ==
  ASSUME TypeOK, NEW n \in Nodes, Restarts(n), CursorRight(n)
  PROVE  CursorRight(n)'
<1>1. /\ features'[n] = {} /\ lastUpdated'[n] = clock /\ started'[n] = clock
      /\ UNCHANGED <<created, late>>
  BY DEF Restarts, TypeOK, database
<1> QED BY <1>1 DEF CursorRight, ToFind, Due

LEMMA NextCursor ==
  ASSUME IInv, [Next]_vars, NEW n \in Nodes
  PROVE  CursorRight(n)'
<1> USE DEF IInv
<1>1. CASE UNCHANGED <<database, node>>
  BY <1>1, KeptByOthers DEF node
<1>2. CASE Saves
  BY <1>2, KeptBySaves
<1>3. ASSUME NEW m \in Nodes, CheckNewSseReports(m) \/ FindFails(m) \/ Restarts(m)
      PROVE  CursorRight(n)'
  <2>1. CASE m = n
    <3>1. CASE Checks(n) \/ FindFails(n)
      <4>1. UNCHANGED <<database, lastUpdated, started, features, handled>>
        BY <3>1 DEF Checks, FindFails
      <4> QED BY <4>1, KeptByOthers
    <3> QED BY <1>3, <2>1, <3>1, KeptByFinds, KeptBySends, KeptByRestarts DEF CheckNewSseReports
  <2>2. CASE m # n
    <3>1. /\ UNCHANGED database
          /\ lastUpdated'[n] = lastUpdated[n] /\ started'[n] = started[n]
          /\ features'[n] = features[n] /\ handled'[n] = handled[n]
      BY <1>3, <2>2 DEF TypeOK, CheckNewSseReports, Checks, Finds, FindFails, Sends, TakesNext, Restarts
    <3> QED BY <3>1, KeptByOthers
  <2> QED BY <2>1, <2>2
<1>4. CASE Acquires \/ Loses \/ Ticks \/ UNCHANGED vars
  BY <1>1, <1>4 DEF Acquires, Loses, Ticks, vars
<1> QED BY <1>2, <1>3, <1>4 DEF Next, Sender

LEMMA IInvInvariant == Spec => []IInv
<1>1. Init => IInv
  BY InitTypes, InitCursor DEF IInv
<1>2. IInv /\ [Next]_vars => IInv'
  BY NextTypes, NextCursor DEF IInv
<1> QED BY <1>1, <1>2, PTL DEF Spec

\* Whatever is saved while a list is being sent, whoever has the lock, and
\* however many reports share a second: the cursor of a node passes no report
\* the node is responsible for without handling it.
THEOREM CursorNeverSkips == Spec => []CursorCovers
<1>1. IInv => CursorCovers
  BY DEF IInv, CursorRight, CursorCovers, ToFind
<1> QED BY <1>1, IInvInvariant, PTL

-----------------------------------------------------------------------------
(* Nothing is sent twice, nor out of order.                                 *)

WholeSeconds == \A r \in Visible : Floor(created[r]) = created[r]

\* What a node took from its lists is in the database, is at or before its
\* cursor, and is older than what is left of its list.
TakenOlder(n) ==
  /\ features[n] \cup handled[n] \subseteq Visible /\ features[n] \cap handled[n] = {}
  /\ \A h \in handled[n] : /\ created[h] <= Floor(lastUpdated[n])
                           /\ \A r \in features[n] : created[h] <= created[r]

\* What a node queued in this life it took from its lists.
QueuedTaken ==
  \A i \in DOMAIN queued :
    LET e == queued[i] IN
    /\ e.report \in Visible /\ e.life <= started[e.by]
    /\ e.life = started[e.by] => e.report \in handled[e.by]

OrderInv ==
  /\ TypeOK /\ WholeSeconds /\ \A n \in Nodes : TakenOlder(n)
  /\ QueuedTaken /\ NeverTwice /\ InOrder

LEMMA QueuedTyped ==
  ASSUME TypeOK, NEW i \in DOMAIN queued
  PROVE  queued[i].by \in Nodes /\ queued[i].life \in Nat
<1>1. queued \in Seq(Sending)
  BY DEF TypeOK
<1>2. queued[i] \in Sending
  BY <1>1
<1> QED BY <1>2 DEF Sending

LEMMA InitOrder == Init => OrderInv
<1> SUFFICES ASSUME Init PROVE OrderInv
  OBVIOUS
<1>1. Visible = {} /\ DOMAIN queued = {}
  BY DEF Init, Visible
<1> QED BY <1>1, InitTypes DEF Init, OrderInv, WholeSeconds, TakenOlder, QueuedTaken, NeverTwice, InOrder

\* A step of the environment, or one that begins or gives up a check.
LEMMA OrderKeptByOthers ==
  ASSUME OrderInv, TypeOK', UNCHANGED <<database, lastUpdated, features, started, handled, queued>>
  PROVE  OrderInv'
<1>1. Visible' = Visible /\ created' = created
  BY DEF database, Visible
<1> QED BY <1>1 DEF OrderInv, WholeSeconds, TakenOlder, QueuedTaken, NeverTwice, InOrder

LEMMA OrderKeptBySaves ==
  ASSUME OrderInv, TypeOK', Saves
  PROVE  OrderInv'
<1> USE DEF OrderInv
<1>1. PICK rs \in SUBSET (Reports \ Visible) \ {{}}, t \in (clock - MaxDelay)..clock :
        /\ Rounded(t) > 0
        /\ created' = [r \in Reports |-> IF r \in rs THEN Rounded(t) ELSE created[r]]
  BY DEF Saves
<1>2. UNCHANGED <<lastUpdated, started, features, handled, queued>>
  BY DEF Saves, node
<1>3. t \in Int /\ \A r \in Reports : created[r] \in Int
  BY DEF TypeOK
<1>4. Rounded(t) \in Int /\ Floor(Rounded(t)) = Rounded(t)
  BY <1>3, RoundedInt
<1>5. /\ Visible' = Visible \cup rs /\ rs \cap Visible = {}
      /\ \A q \in Visible : created'[q] = created[q]
      /\ \A q \in rs : created'[q] = Rounded(t)
  BY <1>1, <1>3, <1>4 DEF Visible
<1>6. WholeSeconds'
  BY <1>4, <1>5 DEF WholeSeconds
<1>7. \A n \in Nodes : TakenOlder(n)'
  BY <1>2, <1>5 DEF TakenOlder
<1>8. QueuedTaken'
  BY <1>2, <1>5 DEF QueuedTaken
<1>9. NeverTwice' /\ InOrder'
  <2>1. \A i \in DOMAIN queued : created'[queued[i].report] = created[queued[i].report]
    BY <1>5 DEF QueuedTaken
  <2> QED BY <1>2, <2>1 DEF NeverTwice, InOrder
<1> QED BY <1>6, <1>7, <1>8, <1>9

LEMMA OrderKeptByFinds ==
  ASSUME OrderInv, TypeOK', NEW n \in Nodes, Finds(n)
  PROVE  OrderInv'
<1> USE DEF OrderInv
<1>1. /\ features' = [features EXCEPT ![n] = findCreatedAfter(lastUpdated[n])]
      /\ UNCHANGED <<created, late, lastUpdated, started, handled, queued>>
  BY DEF Finds, database
<1>2. Visible' = Visible
  BY <1>1 DEF Visible
<1>3. ASSUME NEW m \in Nodes PROVE TakenOlder(m)'
  <2>1. CASE m = n
    <3>1. features'[m] = findCreatedAfter(lastUpdated[n])
      BY <1>1, <2>1 DEF TypeOK
    <3>2. /\ Floor(lastUpdated[n]) \in Int
          /\ \A r \in Visible : created[r] \in Int
      BY FloorBelow DEF TypeOK, Visible
    <3>3. TakenOlder(n)
      OBVIOUS
    <3> QED BY <1>1, <1>2, <2>1, <3>1, <3>2, <3>3 DEF TakenOlder, findCreatedAfter
  <2>2. CASE m # n
    <3>1. features'[m] = features[m]
      BY <1>1, <2>2 DEF TypeOK
    <3> QED BY <1>1, <1>2, <3>1 DEF TakenOlder
  <2> QED BY <2>1, <2>2
<1>4. WholeSeconds' /\ QueuedTaken' /\ NeverTwice' /\ InOrder'
  BY <1>1, <1>2 DEF WholeSeconds, QueuedTaken, NeverTwice, InOrder
<1> QED BY <1>3, <1>4

LEMMA OrderKeptBySends ==
  ASSUME OrderInv, TypeOK', NEW n \in Nodes, Sends(n)
  PROVE  OrderInv'
<1> USE DEF OrderInv
<1>1. PICK r \in features[n] : /\ \A q \in features[n] : created[r] <= created[q]
                               /\ TakesNext(n, r, Floor(created[r]))
  BY DEF Sends
<1> DEFINE e == [by |-> n, life |-> started[n], report |-> r]
<1>2. /\ features' = [features EXCEPT ![n] = @ \ {r}]
      /\ lastUpdated' = [lastUpdated EXCEPT ![n] = Floor(created[r])]
      /\ handled' = [handled EXCEPT ![n] = @ \cup {r}]
      /\ queued' = Append(queued, e) \/ queued' = queued
      /\ UNCHANGED <<created, late, started>>
  BY <1>1 DEF TakesNext, database
<1>3. /\ features'[n] = features[n] \ {r} /\ lastUpdated'[n] = Floor(created[r])
      /\ handled'[n] = handled[n] \cup {r}
  BY <1>2 DEF TypeOK
<1>4. Visible' = Visible /\ r \in Visible
  BY <1>2 DEF Visible, TakenOlder
<1>5. /\ \A q \in Visible : created[q] \in Int
      /\ Floor(Floor(created[r])) = created[r]
  BY <1>4 DEF TypeOK, Visible, WholeSeconds
<1>6. \A h \in handled[n] : created[h] <= created[r]
  BY DEF TakenOlder
<1>7. ASSUME NEW m \in Nodes PROVE TakenOlder(m)'
  <2>1. CASE m = n
    <3>1. TakenOlder(n)
      OBVIOUS
    <3>2. \A h \in handled'[n] : created[h] <= Floor(lastUpdated'[n])
      BY <1>3, <1>4, <1>5, <1>6
    <3>3. \A h \in handled'[n], q \in features'[n] : created[h] <= created[q]
      BY <1>1, <1>3, <3>1 DEF TakenOlder
    <3> QED BY <1>2, <1>3, <1>4, <2>1, <3>1, <3>2, <3>3 DEF TakenOlder
  <2>2. CASE m # n
    <3>1. features'[m] = features[m] /\ lastUpdated'[m] = lastUpdated[m] /\ handled'[m] = handled[m]
      BY <1>2, <2>2 DEF TypeOK
    <3> QED BY <1>2, <1>4, <3>1 DEF TakenOlder
  <2> QED BY <2>1, <2>2
<1>8. WholeSeconds'
  BY <1>2, <1>4 DEF WholeSeconds
<1>9. \A m \in Nodes : handled[m] \subseteq handled'[m]
  BY <1>2 DEF TypeOK
<1>10. CASE queued' = queued
  <2>1. QueuedTaken'
    <3>1. \A i \in DOMAIN queued : queued[i].by \in Nodes
      BY QueuedTyped
    <3> QED BY <1>2, <1>4, <1>9, <1>10, <3>1 DEF QueuedTaken
  <2>2. NeverTwice' /\ InOrder'
    BY <1>2, <1>10 DEF NeverTwice, InOrder
  <2> QED BY <1>7, <1>8, <2>1, <2>2
<1>11. CASE queued' = Append(queued, e)
  <2>1. queued \in Seq(Sending)
    BY DEF TypeOK
  <2>2. /\ DOMAIN queued' = 1..Len(queued) + 1 /\ DOMAIN queued = 1..Len(queued) /\ Len(queued) \in Nat
        /\ queued'[Len(queued) + 1] = e
        /\ \A i \in DOMAIN queued : queued'[i] = queued[i] /\ queued[i] \in Sending
    BY <1>11, <2>1, Appended
  <2>3. e.by = n /\ e.life = started[n] /\ e.report = r
    OBVIOUS
  <2> HIDE DEF e
  <2>4. \A i \in DOMAIN queued :
          queued[i].by = n /\ queued[i].life = started[n] => queued[i].report \in handled[n]
    BY DEF QueuedTaken
  <2>5. r \notin handled[n] /\ started[n] \in Nat
    BY DEF TakenOlder, TypeOK
  <2>6. QueuedTaken'
    <3>1. ASSUME NEW i \in DOMAIN queued
          PROVE  /\ queued'[i].report \in Visible' /\ queued'[i].life <= started'[queued'[i].by]
                 /\ queued'[i].life = started'[queued'[i].by] => queued'[i].report \in handled'[queued'[i].by]
      <4>1. queued[i].by \in Nodes
        BY <2>2 DEF Sending
      <4> QED BY <1>2, <1>4, <1>9, <2>2, <4>1 DEF QueuedTaken
    <3>2. /\ e.report \in Visible' /\ e.life <= started'[e.by]
          /\ e.report \in handled'[e.by]
      BY <1>2, <1>3, <1>4, <2>3, <2>5
    <3>3. \A i \in DOMAIN queued' : i \in DOMAIN queued \/ i = Len(queued) + 1
      BY <2>2
    <3> QED BY <2>2, <3>1, <3>2, <3>3 DEF QueuedTaken
  <2>7. NeverTwice'
    <3>1. \A i \in DOMAIN queued : queued[i] # e
      BY <2>3, <2>4, <2>5
    <3> QED BY <2>2, <3>1 DEF NeverTwice
  <2>8. InOrder'
    <3> SUFFICES ASSUME NEW i \in DOMAIN queued', NEW j \in DOMAIN queued', i < j,
                        queued'[i].by = queued'[j].by, queued'[i].life = queued'[j].life
                 PROVE  created[queued'[i].report] <= created[queued'[j].report]
      BY <1>2 DEF InOrder
    <3>1. i \in DOMAIN queued
      BY <2>2
    <3>2. CASE j \in DOMAIN queued
      BY <2>2, <3>1, <3>2 DEF InOrder
    <3>3. CASE j = Len(queued) + 1
      <4>1. queued[i].report \in handled[n]
        BY <2>2, <2>3, <2>4, <3>1, <3>3
      <4> QED BY <1>6, <2>2, <2>3, <3>1, <3>3, <4>1
    <3> QED BY <2>2, <3>2, <3>3
  <2> QED BY <1>7, <1>8, <2>6, <2>7, <2>8
<1> QED BY <1>2, <1>10, <1>11

LEMMA OrderKeptByRestarts ==
  ASSUME OrderInv, TypeOK', NEW n \in Nodes, Restarts(n)
  PROVE  OrderInv'
<1> USE DEF OrderInv
<1>1. /\ features' = [features EXCEPT ![n] = {}] /\ handled' = [handled EXCEPT ![n] = {}]
      /\ started' = [started EXCEPT ![n] = clock] /\ clock > started[n]
      /\ lastUpdated' = [lastUpdated EXCEPT ![n] = clock]
      /\ UNCHANGED <<created, late, queued>>
  BY DEF Restarts, database
<1>2. Visible' = Visible
  BY <1>1 DEF Visible
<1>3. ASSUME NEW m \in Nodes PROVE TakenOlder(m)'
  <2>1. CASE m = n
    <3>1. features'[m] = {} /\ handled'[m] = {}
      BY <1>1, <2>1 DEF TypeOK
    <3> QED BY <3>1 DEF TakenOlder
  <2>2. CASE m # n
    <3>1. features'[m] = features[m] /\ lastUpdated'[m] = lastUpdated[m] /\ handled'[m] = handled[m]
      BY <1>1, <2>2 DEF TypeOK
    <3> QED BY <1>1, <1>2, <3>1 DEF TakenOlder
  <2> QED BY <2>1, <2>2
<1>4. ASSUME NEW i \in DOMAIN queued
      PROVE  /\ queued[i].report \in Visible /\ queued[i].life <= started'[queued[i].by]
             /\ queued[i].life = started'[queued[i].by] => queued[i].report \in handled'[queued[i].by]
  <2>1. queued[i].by \in Nodes /\ queued[i].life \in Nat
    BY QueuedTyped
  <2>2. /\ queued[i].report \in Visible /\ queued[i].life <= started[queued[i].by]
        /\ queued[i].life = started[queued[i].by] => queued[i].report \in handled[queued[i].by]
    BY DEF QueuedTaken
  <2>3. CASE queued[i].by = n
    <3>1. started'[queued[i].by] = clock /\ clock \in Nat /\ started[n] \in Nat
      BY <1>1, <2>3 DEF TypeOK
    <3> QED BY <1>1, <2>1, <2>2, <2>3, <3>1
  <2>4. CASE queued[i].by # n
    BY <1>1, <2>1, <2>2, <2>4 DEF TypeOK
  <2> QED BY <2>3, <2>4
<1>5. QueuedTaken'
  BY <1>1, <1>2, <1>4 DEF QueuedTaken
<1>6. WholeSeconds' /\ NeverTwice' /\ InOrder'
  BY <1>1, <1>2 DEF WholeSeconds, NeverTwice, InOrder
<1> QED BY <1>3, <1>5, <1>6

LEMMA NextOrder ==
  ASSUME OrderInv, [Next]_vars
  PROVE  OrderInv'
<1>1. TypeOK'
  BY NextTypes DEF OrderInv
<1>2. CASE Acquires \/ Loses \/ Ticks \/ UNCHANGED vars
  BY <1>1, <1>2, OrderKeptByOthers DEF Acquires, Loses, Ticks, vars, node
<1>3. ASSUME NEW n \in Nodes, Checks(n) \/ FindFails(n) PROVE OrderInv'
  <2>1. UNCHANGED <<database, lastUpdated, features, started, handled, queued>>
    BY <1>3 DEF Checks, FindFails
  <2> QED BY <1>1, <2>1, OrderKeptByOthers
<1> QED
  BY <1>1, <1>2, <1>3, OrderKeptBySaves, OrderKeptByFinds, OrderKeptBySends, OrderKeptByRestarts
  DEF Next, Sender, CheckNewSseReports

LEMMA OrderInvariant == Spec => []OrderInv
  BY InitOrder, NextOrder, PTL DEF Spec

\* Between two starts a node gives no report to the queue twice ...
THEOREM NothingSentTwice == Spec => []NeverTwice
  BY OrderInvariant, PTL DEF OrderInv

\* ... and the reports it gives to the queue are in the order of creation.
THEOREM SentInOrder == Spec => []InOrder
  BY OrderInvariant, PTL DEF OrderInv
=============================================================================

-------------------- MODULE VesselDetailsUpdater_proofs --------------------
(***************************************************************************)
(* Proofs about the vessel details update, for every set of records, any   *)
(* clock differences, delays and bounds: type correctness, no version is   *)
(* missed but those that become visible after the answer they belong to,   *)
(* and the abstract mirror is implemented.                                 *)
(***************************************************************************)
EXTENDS VesselDetailsUpdater, Portnet_proofs

WindowInv ==
  /\ portVesselDetails # Null => portVesselDetails \in Int /\ since \in Int
  /\ portVesselDetails = Null => since = Null

\* A run saves versions that the server has or had, no older ones than are
\* stored, and all that was there to be answered from its window's start.
ListInv ==
  /\ \A id \in Ids :
       db[id] <= published[id] /\ list[id] <= published[id] /\ published[id] <= clock
  /\ pc = "saving" =>
       \A id \in Ids :
         /\ list[id] # 0 => db[id] <= list[id]
         /\ Start <= published[id] => list[id] = published[id] \/ id \in fresh

MirrorInv == TypeOK /\ WindowInv /\ ListInv /\ NoGap

-----------------------------------------------------------------------------
(* Types                                                                    *)

LEMMA EndsTypes == ASSUME Ends
                   PROVE  /\ pc' = "idle" /\ now' \in Int /\ fresh' = {}
                          /\ list' = Nothing /\ list' \in [Ids -> Stamps]
  BY NothingHolds DEF Ends

LEMMA FaultTypes == ASSUME faults \in 0..MaxFaults, Fault PROVE faults' \in 0..MaxFaults
  BY UpdaterAssumption DEF Fault

LEMMA StartTypes == ASSUME TypeOK PROVE From \in Int /\ Start \in Int
<1>1. From \in Int
  BY UpdaterAssumption DEF From, TypeOK, Timestamps
<1> QED BY <1>1, FloorBelow, UpdaterAssumption DEF Start

LEMMA ListHolds ==
  ASSUME TypeOK
  PROVE  /\ Answer(Start, clock + 1) \in [Ids -> Stamps]
         /\ \A id \in Ids :
              /\ Answer(Start, clock + 1)[id] \in {0, published[id]}
              /\ Start <= published[id] /\ published[id] < clock + 1
                   => Answer(Start, clock + 1)[id] = published[id]
  BY AnswerHolds, StartTypes DEF TypeOK, PortnetTypeOK

LEMMA TypeStep == TypeOK /\ [Next]_vars => TypeOK'
<1> SUFFICES ASSUME TypeOK, [Next]_vars PROVE TypeOK'
  OBVIOUS
<1>1. CASE Update
  BY <1>1, PortnetAssumption DEF Update, TypeOK, PortnetTypeOK, portnetVars, cursors, notes
<1>2. CASE GetList
  BY <1>2, ListHolds DEF GetList, TypeOK, PortnetTypeOK, portnetVars, cursors, notes
<1>3. CASE Commit
  <2>1. Overwrite(db, list) \in [Ids -> Stamps]
    BY OverwriteHolds DEF TypeOK
  <2>2. late' \subseteq Ids
    BY <1>3 DEF Commit, NotesLate, TypeOK
  <2> QED BY <1>3, <2>1, <2>2, EndsTypes, StartTypes
      DEF Commit, TypeOK, PortnetTypeOK, portnetVars, Timestamps
<1>4. CASE ErrorList
  BY <1>4, EndsTypes, FaultTypes
  DEF ErrorList, TypeOK, PortnetTypeOK, portnetVars, Timestamps
<1>5. CASE Fails
  BY <1>5, EndsTypes, FaultTypes
  DEF Fails, TypeOK, PortnetTypeOK, portnetVars, cursors
<1>6. CASE Server
  <2>1. fresh' \subseteq Ids /\ late' \subseteq Ids /\ (pc # "saving" => fresh' = fresh)
    BY <1>6 DEF Server, NotesNew, TypeOK
  <2> QED BY <1>6, <2>1, ServerSteps DEF Server, TypeOK, cursors
<1>7. CASE UNCHANGED vars
  BY <1>7 DEF vars, TypeOK, PortnetTypeOK, portnetVars, cursors, notes
<1> QED BY <1>1, <1>2, <1>3, <1>4, <1>5, <1>6, <1>7 DEF Next, Runs

LEMMA TypeInit == Init => TypeOK
  BY NothingHolds, UpdaterAssumption
  DEF Init, TypeOK, PortnetInit, PortnetTypeOK, Timestamps, Stamps, Nothing

\* The update's variables keep their types.
THEOREM TypeCorrect == Spec => []TypeOK
  BY TypeInit, TypeStep, PTL DEF Spec

-----------------------------------------------------------------------------
(* No version is missed                                                     *)

\* What lies before the next window lay before this one or is in it.
LEMMA CursorMoves ==
  ASSUME MirrorInv, Commit, NEW t \in Stamps, since' <= t
  PROVE  \/ portVesselDetails # Null /\ since <= t /\ t < Horizon
         \/ Start <= t
<1>1. CASE Start <= t
  BY <1>1
<1>2. CASE ~(Start <= t)
  <2>1. portVesselDetails # Null
    BY <1>2 DEF Commit, MirrorInv, WindowInv
  <2>2. since' = since
    BY <2>1, UpdaterAssumption DEF Commit, MirrorInv, WindowInv
  <2>3. Start = Horizon
    BY <2>1 DEF Start, From, Horizon
  <2>4. Start \in Int
    BY StartTypes DEF MirrorInv
  <2> QED BY <1>2, <2>1, <2>2, <2>3, <2>4 DEF Stamps
<1> QED BY <1>1, <1>2

LEMMA MirrorInvInit == Init => MirrorInv
<1> SUFFICES ASSUME Init PROVE MirrorInv
  OBVIOUS
<1> QED BY TypeInit, NothingHolds
    DEF Init, MirrorInv, WindowInv, ListInv, NoGap, Horizon, PortnetInit

LEMMA UpdateStep == ASSUME MirrorInv, TypeOK', Update PROVE MirrorInv'
  BY DEF Update, MirrorInv, WindowInv, ListInv, NoGap, Horizon, Floor, portnetVars, cursors,
         notes

LEMMA GetListStep == ASSUME MirrorInv, TypeOK', GetList PROVE MirrorInv'
<1>1. WindowInv' /\ NoGap'
  BY DEF GetList, MirrorInv, WindowInv, NoGap, Horizon, Floor, portnetVars, cursors, notes
<1>2. ListInv'
  <2> DEFINE new == Answer(Start, clock + 1)
  <2>1. list' = new /\ Start' = Start /\ UNCHANGED <<published, db, clock>>
    BY DEF GetList, portnetVars, cursors, Start, From, Floor
  <2> HIDE DEF new
  <2> SUFFICES ASSUME NEW id \in Ids
               PROVE  /\ db[id] <= published[id] /\ new[id] <= published[id]
                      /\ published[id] <= clock
                      /\ new[id] # 0 => db[id] <= new[id]
                      /\ Start <= published[id] => new[id] = published[id]
    BY <2>1 DEF ListInv
  <2>2. /\ db[id] \in Nat /\ published[id] \in Nat /\ clock \in Nat
        /\ db[id] <= published[id] /\ published[id] <= clock
    BY DEF MirrorInv, TypeOK, PortnetTypeOK, ListInv, Stamps
  <2>3. new[id] \in {0, published[id]}
    BY ListHolds DEF MirrorInv, new
  <2>4. published[id] < clock + 1
    BY <2>2
  <2>5. Start <= published[id] => new[id] = published[id]
    BY <2>4, ListHolds DEF MirrorInv, new
  <2> QED BY <2>2, <2>3, <2>5
<1> QED BY <1>1, <1>2 DEF MirrorInv

LEMMA RunEnds ==
  ASSUME Ends, TypeOK', \A id \in Ids : db'[id] <= published'[id] /\ published'[id] <= clock'
  PROVE  ListInv'
  BY NothingHolds DEF Ends, ListInv, TypeOK, PortnetTypeOK, Stamps

LEMMA CommitStep == ASSUME MirrorInv, TypeOK', Commit PROVE MirrorInv'
<1>1. WindowInv'
  <2>1. since' \in Int /\ now \in Int
    BY StartTypes DEF Commit, MirrorInv, WindowInv, TypeOK, Timestamps
  <2> QED BY <2>1, UpdaterAssumption DEF Commit, WindowInv
<1>2. \A id \in Ids : db'[id] = IF list[id] # 0 THEN list[id] ELSE db[id]
  BY OverwriteHolds DEF Commit, MirrorInv, TypeOK
<1>3. ListInv'
  BY <1>2, RunEnds DEF Commit, MirrorInv, ListInv, portnetVars
<1>4. NoGap'
  <2>1. Horizon' = Floor(now) /\ UNCHANGED published
    BY UpdaterAssumption DEF Commit, Horizon, MirrorInv, TypeOK, Floor, portnetVars
  <2>2. late \subseteq late' /\ \A id \in fresh : published[id] < Floor(now) => id \in late'
    BY DEF Commit, NotesLate
  <2> SUFFICES ASSUME NEW id \in Ids, since' <= published[id],
                      published[id] < Floor(now), id \notin late'
               PROVE  db'[id] = published[id]
    BY <2>1 DEF NoGap
  <2>3. published[id] \in Stamps /\ list[id] \in Stamps /\ db[id] \in Stamps
        /\ db[id] <= published[id]
    BY DEF MirrorInv, TypeOK, PortnetTypeOK, ListInv
  <2>4. CASE Start <= published[id]
    <3>1. list[id] = published[id]
      BY <2>2, <2>4 DEF Commit, MirrorInv, ListInv
    <3> QED BY <3>1, <2>3, <1>2 DEF Stamps
  <2>5. CASE portVesselDetails # Null /\ since <= published[id] /\ published[id] < Horizon
    <3>1. db[id] = published[id]
      BY <2>2, <2>5, FloorBelow, UpdaterAssumption DEF MirrorInv, NoGap, Horizon, WindowInv
    <3>2. list[id] # 0 => db[id] <= list[id] /\ list[id] <= published[id]
      BY DEF Commit, MirrorInv, ListInv
    <3> QED BY <3>1, <3>2, <2>3, <1>2 DEF Stamps
  <2> QED BY <2>3, <2>4, <2>5, CursorMoves
<1> QED BY <1>1, <1>3, <1>4 DEF MirrorInv

\* What the server's steps note of the records that have a new version.
LEMMA NewNoted ==
  ASSUME NotesNew, NEW id \in Ids
  PROVE  /\ published'[id] = published[id] =>
              (id \in late => id \in late') /\ (id \in fresh => id \in fresh')
         /\ published'[id] # published[id] =>
              /\ pc = "saving" => id \in fresh'
              /\ Passed(published'[id]) => id \in late'
  BY DEF NotesNew

LEMMA ServerStep == ASSUME MirrorInv, TypeOK', Server PROVE MirrorInv'
<1>1. /\ clock \in Nat /\ clock' \in Nat /\ clock <= clock'
      /\ \A id \in Ids : /\ published[id] \in Nat /\ published'[id] \in Nat
                         /\ published[id] <= published'[id]
                         /\ published'[id] # published[id] => published'[id] <= clock
  BY ServerSteps DEF Server, MirrorInv, TypeOK, PortnetTypeOK, Stamps
<1>2. UNCHANGED <<cursors, db, pc, now, list>> /\ NotesNew
  BY DEF Server
<1>3. WindowInv'
  BY <1>2 DEF WindowInv, cursors, MirrorInv
<1>4. ListInv'
  <2>1. Start' = Start
    BY <1>2 DEF Start, From, Floor, cursors
  <2> SUFFICES ASSUME NEW id \in Ids
               PROVE  /\ db[id] <= published'[id] /\ list[id] <= published'[id]
                      /\ published'[id] <= clock'
                      /\ pc = "saving" /\ Start <= published'[id]
                           => list[id] = published'[id] \/ id \in fresh'
    BY <1>2, <2>1 DEF ListInv, MirrorInv
  <2>2. /\ db[id] \in Nat /\ list[id] \in Nat
        /\ db[id] <= published[id] /\ list[id] <= published[id] /\ published[id] <= clock
    BY DEF MirrorInv, TypeOK, Stamps, ListInv
  <2>3. pc = "saving" /\ Start <= published'[id] => list[id] = published'[id] \/ id \in fresh'
    BY <1>2, NewNoted DEF MirrorInv, ListInv
  <2> QED BY <1>1, <2>2, <2>3
<1>5. NoGap'
  <2>1. Horizon' = Horizon
    BY <1>2 DEF Horizon, Floor, cursors
  <2> SUFFICES ASSUME NEW id \in Ids, Horizon # Null, since <= published'[id],
                      published'[id] < Horizon
               PROVE  db[id] = published'[id] \/ id \in late'
    BY <1>2, <2>1 DEF NoGap, cursors
  <2>2. Passed(published'[id])
    BY DEF Horizon, Passed
  <2> QED BY <1>2, <2>2, NewNoted DEF MirrorInv, NoGap
<1> QED BY <1>3, <1>4, <1>5 DEF MirrorInv

LEMMA MirrorInvStep == MirrorInv /\ [Next]_vars => MirrorInv'
<1> SUFFICES ASSUME MirrorInv, [Next]_vars PROVE MirrorInv'
  OBVIOUS
<1>1. TypeOK'
  BY TypeStep DEF MirrorInv
<1>2. CASE Runs
  BY <1>1, <1>2, UpdateStep, GetListStep, CommitStep DEF Runs
<1>3. CASE ErrorList \/ Fails
  <2>1. UNCHANGED <<clock, published, portVesselDetails, since, db>> /\ Ends
    BY <1>3 DEF ErrorList, Fails, portnetVars, cursors
  <2>2. ListInv'
    BY <1>1, <2>1, RunEnds DEF MirrorInv, ListInv
  <2>3. WindowInv' /\ NoGap'
    BY <1>3, <2>1 DEF ErrorList, Fails, MirrorInv, WindowInv, NoGap, Horizon, Floor
  <2> QED BY <1>1, <2>2, <2>3 DEF MirrorInv
<1>4. CASE Server
  BY <1>1, <1>4, ServerStep
<1>5. CASE UNCHANGED vars
  BY <1>1, <1>5
  DEF vars, MirrorInv, WindowInv, ListInv, NoGap, Horizon, Start, From, Floor,
      portnetVars, cursors, notes
<1> QED BY <1>2, <1>3, <1>4, <1>5 DEF Next

\* No version stamped before the next window is missed, but those that became
\* visible after the answer they belong to.
THEOREM NothingMissed == Spec => []NoGap
<1>1. MirrorInv => NoGap
  BY DEF MirrorInv
<1> QED BY <1>1, MirrorInvInit, MirrorInvStep, PTL DEF Spec

-----------------------------------------------------------------------------
(* The abstract mirror                                                      *)

\* The update implements the mirror of FeedMirror: commits synchronize, what the
\* server publishes behind the cursor is given up, other steps stutter.
THEOREM ImplementsMirror == Spec => KeepsMirror
<1>1. Init => Mirror!Init
  BY DEF Init, Mirror!Init, PortnetInit, Nothing, Horizon
<1>2. MirrorInv /\ MirrorInv' /\ [Next]_vars => [Mirror!Next]_(Mirror!vars)
  <2> SUFFICES ASSUME MirrorInv, MirrorInv', [Next]_vars PROVE [Mirror!Next]_(Mirror!vars)
    OBVIOUS
  <2>1. CASE UNCHANGED <<published, db, portVesselDetails, since, late>>
    BY <2>1 DEF Mirror!vars, Horizon, Floor
  <2>2. CASE Update \/ GetList \/ ErrorList \/ Fails \/ UNCHANGED vars
    BY <2>1, <2>2 DEF Update, GetList, ErrorList, Fails, vars, portnetVars, cursors, notes
  <2>3. CASE Commit
    <3>1. db' \in [Ids -> Stamps] /\ late' \subseteq Ids /\ NoGap' /\ UNCHANGED published
      BY <2>3 DEF MirrorInv, TypeOK, Commit, portnetVars
    <3>2. ASSUME NEW id \in Ids PROVE db[id] <= db'[id] /\ db'[id] <= published[id]
      <4>1. db'[id] = IF list[id] # 0 THEN list[id] ELSE db[id]
        BY <2>3, OverwriteHolds DEF Commit, MirrorInv, TypeOK
      <4>2. db[id] \in Nat /\ db[id] <= published[id] /\ list[id] <= published[id]
        BY DEF MirrorInv, TypeOK, ListInv, Stamps
      <4>3. list[id] # 0 => db[id] <= list[id]
        BY <2>3 DEF Commit, MirrorInv, ListInv
      <4> QED BY <4>1, <4>2, <4>3
    <3>3. Horizon' # Null
      <4>1. Horizon' = Floor(now)
        BY <2>3, UpdaterAssumption DEF Commit, Horizon, MirrorInv, TypeOK, Floor
      <4>2. Floor(now) \in Int
        BY FloorBelow DEF MirrorInv, TypeOK
      <4> QED BY <4>1, <4>2, UpdaterAssumption
    <3>4. since' # Null /\ (since # Null => since' = since)
      BY <2>3, StartTypes, UpdaterAssumption DEF Commit, MirrorInv, WindowInv
    <3>5. Mirror!Synchronize
      BY <3>1, <3>2, <3>3, <3>4 DEF Mirror!Synchronize, NoGap
    <3> QED BY <3>5 DEF Mirror!Next
  <2>4. CASE Server
    <3>1. UNCHANGED <<db, portVesselDetails, since, Horizon>> /\ NotesNew
      BY <2>4 DEF Server, cursors, Horizon, Floor
    <3>2. CASE Ticks
      <4>1. UNCHANGED <<published, late>>
        BY <3>1, <3>2 DEF Ticks, NotesNew
      <4> QED BY <2>1, <3>1, <4>1
    <3>3. CASE Publishes
      <4>1. PICK i \in Ids, t \in (clock - MaxDelay)..clock :
               t > published[i] /\ published' = [published EXCEPT ![i] = t]
        BY <3>3 DEF Publishes
      <4>2. t \in Int /\ \A id \in Ids : /\ published[id] \in Nat
                                      /\ published'[id] = IF id = i THEN t ELSE published[id]
        BY <4>1, PortnetAssumption DEF MirrorInv, TypeOK, PortnetTypeOK, Stamps
      <4>3. {id \in Ids : published'[id] # published[id]} = {i}
        BY <4>1, <4>2
      <4>4. late' = IF Passed(t) THEN late \cup {i} ELSE late \ {i}
        BY <3>1, <4>2, <4>3 DEF NotesNew
      <4>5. published' = [published EXCEPT ![i] = published'[i]] /\ published'[i] > published[i]
        BY <4>1, <4>2
      <4>6. CASE Passed(t)
        <5>1. Horizon # Null /\ published'[i] < Horizon
          BY <4>2, <4>6, FloorBelow, UpdaterAssumption
          DEF Passed, Horizon, MirrorInv, WindowInv
        <5> QED BY <3>1, <4>4, <4>5, <4>6, <5>1 DEF Mirror!Next, Mirror!Publish
      <4>7. CASE ~Passed(t)
        <5>1. Horizon # Null => published'[i] >= Horizon
          BY <4>2, <4>7, FloorBelow, UpdaterAssumption
          DEF Passed, Horizon, MirrorInv, WindowInv
        <5> QED BY <3>1, <4>4, <4>5, <4>7, <5>1 DEF Mirror!Next, Mirror!Publish
      <4> QED BY <4>6, <4>7
    <3> QED BY <2>4, <3>2, <3>3 DEF Server
  <2> QED BY <2>2, <2>3, <2>4 DEF Next, Runs
<1> QED BY <1>1, <1>2, MirrorInvInit, MirrorInvStep, PTL DEF Spec, Mirror!Spec, KeepsMirror
=============================================================================

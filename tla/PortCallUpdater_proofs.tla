----------------------- MODULE PortCallUpdater_proofs -----------------------
(***************************************************************************)
(* Proofs about the port call update, for every set of records, any clock  *)
(* differences and delays within the margin, any time frames and bounds:   *)
(* type correctness, no version is missed, estimates that went out are     *)
(* followed by their port call, the abstract mirror is implemented, and    *)
(* the published times of update and check are right.                      *)
(***************************************************************************)
EXTENDS PortCallUpdater, Portnet_proofs

\* A cursor and the end of a running window are so far back that nothing can
\* be published behind them any more.
Settled(t) == t + MaxDelay <= clock
WindowInv ==
  /\ portCallsTo # Null => portCallsTo \in Int /\ Settled(portCallsTo) /\ since \in Int
  /\ portCallsTo = Null => since = Null
  /\ pc # "idle" => /\ skew \in Skews /\ Settled(to)
                    /\ portCallsTo # Null => from <= portCallsTo

\* A run saves versions that the server has or had, no older ones than are
\* stored, and it holds the whole window.
ListInv ==
  /\ \A id \in Ids :
       db[id] <= published[id] /\ list[id] <= published[id] /\ skipped[id] <= published[id]
  /\ pc = "updating" =>
       \A id \in Ids :
         /\ list[id] # 0 => db[id] <= list[id]
         /\ Floor(from) <= published[id] /\ published[id] < Floor(to)
              => list[id] = published[id]

\* What is stored is older than the cursor, the present and the end of a
\* running window, but for what two clocks differ; an answer is within its window.
CoverInv ==
  /\ UpdatedCoversData
  /\ \A id \in Ids : db[id] # 0 =>
       /\ portCallsTo # Null /\ Within(db[id], portCallsTo)
       /\ \E s \in Skews : db[id] < clock + s - Margin
       /\ pc # "idle" => Within(db[id], to)
  /\ pc # "idle" => to <= clock + skew - Margin
  /\ \A id \in Ids : list[id] # 0 => list[id] < to

\* The clocks of two nodes differ by no more than the margin.
ClocksAgree == \A s, r \in Skews : s - r <= Margin

\* No update is later than the present by the clock of some node.
CheckInv ==
  /\ CheckedAfterUpdated
  /\ portCalls # Null => \E s \in Skews : portCalls <= clock + s - Margin
  /\ pc # "idle" => to <= clock + skew - Margin

\* What was announced is newer than what is stored, and no newer than the source.
AheadInv == \A id \in Ids : ahead[id] # 0 => db[id] < ahead[id] /\ ahead[id] <= published[id]

MirrorInv == TypeOK /\ WindowInv /\ ListInv /\ NoGap

-----------------------------------------------------------------------------
(* Types                                                                    *)

LEMMA EndsTypes == ASSUME Ends
                   PROVE  /\ pc' = "idle" /\ skew' \in Skews \cup {0} /\ from' \in Int /\ to' \in Int
                          /\ list' = Nothing /\ todo' = {} /\ list' \in [Ids -> Stamps]
  BY NothingHolds DEF Ends

LEMMA FaultTypes == ASSUME faults \in 0..MaxFaults, Fault PROVE faults' \in 0..MaxFaults
  BY UpdaterAssumption DEF Fault

LEMMA CheckedTypes ==
  ASSUME TypeOK, pc # "idle", Checked
  PROVE  /\ portCallsTo' = to /\ portCallsTo' \in Int
         /\ portCallsCheck' \in Timestamps /\ since' \in Timestamps
         /\ since' \in Int \/ since' = since
  BY FloorBelow, PortnetAssumption
  DEF Checked, TypeOK, PortnetTypeOK, Timestamps

LEMMA WindowTypes ==
  ASSUME TypeOK, NEW s \in Skews
  PROVE  /\ Now(s) \in Int /\ From(Now(s)) \in Int
         /\ To(From(Now(s)), Now(s)) \in Int /\ To(From(Now(s)), Now(s)) <= Now(s)
         /\ portCallsTo # Null => From(Now(s)) <= portCallsTo
<1>1. Now(s) \in Int
  BY PortnetAssumption, UpdaterAssumption DEF Now, TypeOK, PortnetTypeOK
<1>2. From(Now(s)) \in Int /\ (portCallsTo # Null => From(Now(s)) <= portCallsTo)
  BY <1>1, UpdaterAssumption DEF From, TypeOK, Timestamps
<1>3. ASSUME NEW b \in Int, NEW n \in Int PROVE To(b, n) \in Int /\ To(b, n) <= n
  BY UpdaterAssumption DEF To
<1> QED BY <1>1, <1>2, <1>3

LEMMA ResponseHolds ==
  ASSUME TypeOK
  PROVE  /\ Response \in [Ids -> Stamps]
         /\ \A id \in Ids :
              /\ Response[id] \in {0, published[id]}
              /\ Response[id] # 0 => Response[id] < Floor(to)
              /\ Floor(from) <= published[id] /\ published[id] < Floor(to)
                   => Response[id] = published[id]
  BY AnswerHolds, FloorBelow DEF Response, TypeOK, PortnetTypeOK

LEMMA TypeStep == TypeOK /\ [Next]_vars => TypeOK'
<1> SUFFICES ASSUME TypeOK, [Next]_vars PROVE TypeOK'
  OBVIOUS
<1>1. CASE Update
  <2>1. PICK s \in Skews : /\ skew' = s /\ from' = From(Now(s))
                           /\ to' = To(From(Now(s)), Now(s))
    BY <1>1 DEF Update
  <2>2. from' \in Int /\ to' \in Int
    BY <2>1, WindowTypes
  <2> QED BY <1>1, <2>1, <2>2
      DEF Update, TypeOK, PortnetTypeOK, portnetVars, cursors, answer
<1>2. CASE GetList
  BY <1>2, ResponseHolds
  DEF GetList, TypeOK, PortnetTypeOK, portnetVars, cursors, run
<1>3. CASE UpdateNotification
  <2>1. PICK id \in todo : /\ todo' = todo \ {id}
                           /\ ahead' = [ahead EXCEPT ![id] = list[id]] \/ UNCHANGED ahead
    BY <1>3 DEF UpdateNotification
  <2>2. id \in Ids /\ list[id] \in Stamps
    BY <2>1 DEF TypeOK
  <2> QED BY <1>3, <2>1, <2>2
      DEF UpdateNotification, TypeOK, PortnetTypeOK, portnetVars, cursors, run
<1>4. CASE Commit
  <2>1. Overwrite(db, list) \in [Ids -> Stamps]
    BY OverwriteHolds DEF TypeOK
  <2>2. portCalls' \in Timestamps
    BY <1>4 DEF Commit, TypeOK, Timestamps
  <2>3. ahead' \in [Ids -> Stamps]
    BY <1>4 DEF Commit, StoresAhead, TypeOK, Stamps
  <2> QED BY <1>4, <2>1, <2>2, <2>3, EndsTypes, CheckedTypes
      DEF Commit, TypeOK, PortnetTypeOK, portnetVars, Timestamps
<1>5. CASE ErrorList
  BY <1>5, EndsTypes, FaultTypes
  DEF ErrorList, TypeOK, PortnetTypeOK, portnetVars, cursors
<1>6. CASE BadTimestamps
  BY <1>6, FaultTypes
  DEF BadTimestamps, TypeOK, PortnetTypeOK, portnetVars, cursors, run, answer
<1>7. CASE BadTimestampsAgain
  <2>1. Overwrite(skipped, Response) \in [Ids -> Stamps]
    BY OverwriteHolds, ResponseHolds DEF TypeOK
  <2> QED BY <1>7, <2>1, EndsTypes, FaultTypes, CheckedTypes
      DEF BadTimestampsAgain, TypeOK, PortnetTypeOK, portnetVars, Timestamps
<1>8. CASE Fails
  BY <1>8, EndsTypes, FaultTypes
  DEF Fails, TypeOK, PortnetTypeOK, portnetVars, cursors
<1>9. CASE Server
  BY <1>9, ServerSteps
  DEF Server, TypeOK, cursors, run, answer
<1>10. CASE UNCHANGED vars
  BY <1>10 DEF vars, TypeOK, PortnetTypeOK, portnetVars, cursors, run, answer
<1> QED BY <1>1, <1>2, <1>3, <1>4, <1>5, <1>6, <1>7, <1>8, <1>9, <1>10
    DEF Next, Runs, Troubles

\* The update's variables keep their types.
THEOREM TypeCorrect == Spec => []TypeOK
<1>1. Init => TypeOK
  BY NothingHolds, UpdaterAssumption
  DEF Init, TypeOK, PortnetInit, PortnetTypeOK, Timestamps, Stamps, Nothing
<1> QED BY <1>1, TypeStep, PTL DEF Spec

-----------------------------------------------------------------------------
(* No version is missed                                                     *)

\* What is behind the moved cursor was behind it before or is in the window.
LEMMA CursorMoves ==
  ASSUME MirrorInv, pc # "idle", Checked, NEW t \in Stamps, Behind(t)'
  PROVE  Behind(t) \/ (Floor(from) <= t /\ t < Floor(to))
<1> USE DEF MirrorInv
<1>1. portCallsTo' = to /\ t < Floor(to) /\ since' <= t
  BY DEF Behind, Checked, Floor
<1>2. CASE Floor(from) <= t
  BY <1>1, <1>2
<1>3. CASE ~(Floor(from) <= t)
  <2>1. portCallsTo # Null
    BY <1>1, <1>3 DEF Checked, WindowInv
  <2>2. since' = since
    BY <2>1, UpdaterAssumption DEF Checked, WindowInv
  <2>3. Floor(from) \in Int /\ Floor(portCallsTo) \in Int /\ Floor(from) <= Floor(portCallsTo)
    BY <2>1, FloorBelow, FloorMonotone DEF WindowInv, TypeOK
  <2> QED BY <1>1, <1>3, <2>1, <2>2, <2>3 DEF Behind, Stamps
<1> QED BY <1>2, <1>3

\* A committed cursor is settled.
LEMMA CursorSettles ==
  ASSUME MirrorInv, pc # "idle", Checked, Ends, UNCHANGED clock
  PROVE  WindowInv'
<1>1. since' \in Int
  <2>1. CASE since = Null
    BY <2>1, FloorBelow DEF Checked, MirrorInv, TypeOK
  <2>2. CASE since # Null
    BY <2>2 DEF Checked, MirrorInv, TypeOK, Timestamps
  <2> QED BY <2>1, <2>2
<1>2. portCallsTo' = to /\ to \in Int /\ Settled(to) /\ pc' = "idle"
  BY DEF Checked, Ends, MirrorInv, TypeOK, WindowInv
<1> QED BY <1>1, <1>2, UpdaterAssumption DEF WindowInv, Settled

\* A list that ends with its run leaves nothing to show about it.
LEMMA RunEnds ==
  ASSUME Ends, TypeOK',
         \A id \in Ids : db'[id] <= published'[id] /\ skipped'[id] <= published'[id]
  PROVE  ListInv'
  BY NothingHolds DEF Ends, ListInv, TypeOK, PortnetTypeOK, Stamps

LEMMA MirrorInvInit == Init => MirrorInv
<1> SUFFICES ASSUME Init PROVE MirrorInv
  OBVIOUS
<1>1. TypeOK
  BY NothingHolds, UpdaterAssumption
  DEF Init, TypeOK, PortnetInit, PortnetTypeOK, Timestamps, Stamps, Nothing
<1> QED BY <1>1, NothingHolds
    DEF Init, MirrorInv, WindowInv, ListInv, NoGap, Behind, PortnetInit

LEMMA MarginCovers ==
  ASSUME NEW t \in Int, NEW c \in Int, NEW s \in Int, NEW d \in Int, NEW m \in Int,
         t <= c + s - m, s + d <= m
  PROVE  t + d <= c
  OBVIOUS

LEMMA UpdateStep == ASSUME MirrorInv, TypeOK', Update PROVE MirrorInv'
<1>1. PICK s \in Skews : /\ skew' = s /\ from' = From(Now(s)) /\ to' = To(From(Now(s)), Now(s))
  BY DEF Update
<1>2. to' \in Int /\ to' <= Now(s) /\ (portCallsTo # Null => from' <= portCallsTo)
  BY <1>1, WindowTypes DEF MirrorInv
<1>3. Settled(to')
  <2>1. s \in Int /\ clock \in Int /\ MaxDelay \in Int /\ Margin \in Int /\ s + MaxDelay <= Margin
    BY PortnetAssumption, UpdaterAssumption DEF MirrorInv, TypeOK, PortnetTypeOK
  <2>2. to' <= clock + s - Margin
    BY <1>2 DEF Now
  <2> QED BY <1>2, <2>1, <2>2, MarginCovers DEF Settled
<1>4. WindowInv'
  BY <1>1, <1>2, <1>3 DEF Update, WindowInv, Settled, MirrorInv, portnetVars, cursors
<1>5. ListInv' /\ NoGap'
  BY DEF Update, MirrorInv, ListInv, NoGap, Behind, portnetVars, cursors, answer
<1> QED BY <1>4, <1>5 DEF MirrorInv

LEMMA GetListStep == ASSUME MirrorInv, TypeOK', GetList PROVE MirrorInv'
<1>1. WindowInv' /\ NoGap'
  BY DEF GetList, MirrorInv, WindowInv, Settled, NoGap, Behind, portnetVars, cursors, run
<1>2. ListInv'
  <2> SUFFICES ASSUME NEW id \in Ids
               PROVE  /\ db[id] <= published[id] /\ Response[id] <= published[id]
                      /\ skipped[id] <= published[id]
                      /\ Response[id] # 0 => db[id] <= Response[id]
                      /\ Floor(from) <= published[id] /\ published[id] < Floor(to)
                           => Response[id] = published[id]
    BY DEF GetList, ListInv, portnetVars, run
  <2>1. db[id] \in Nat /\ published[id] \in Nat
    BY DEF MirrorInv, TypeOK, PortnetTypeOK, Stamps
  <2> QED BY <2>1, ResponseHolds DEF MirrorInv, ListInv
<1> QED BY <1>1, <1>2 DEF MirrorInv

LEMMA CommitStep == ASSUME MirrorInv, TypeOK', Commit PROVE MirrorInv'
<1>1. WindowInv'
  BY CursorSettles DEF Commit, portnetVars
<1>2. \A id \in Ids : db'[id] = IF list[id] # 0 THEN list[id] ELSE db[id]
  BY OverwriteHolds DEF Commit, MirrorInv, TypeOK
<1>3. ListInv'
  BY <1>2, RunEnds DEF Commit, MirrorInv, ListInv, portnetVars
<1>4. NoGap'
  <2> SUFFICES ASSUME NEW id \in Ids, Behind(published[id])'
               PROVE  published[id] \in {db'[id], skipped[id]}
    BY DEF NoGap, Commit, portnetVars
  <2>1. published[id] \in Stamps /\ list[id] \in Stamps /\ db[id] \in Stamps
    BY DEF MirrorInv, TypeOK, PortnetTypeOK
  <2>2. Behind(published[id]) \/ (Floor(from) <= published[id] /\ published[id] < Floor(to))
    BY <2>1, CursorMoves DEF Commit, Behind, portnetVars
  <2>3. list[id] = 0 \/ list[id] <= published[id]
    BY DEF MirrorInv, ListInv
  <2>4. CASE Floor(from) <= published[id] /\ published[id] < Floor(to)
    <3>1. list[id] = published[id]
      BY <2>4 DEF Commit, MirrorInv, ListInv
    <3>2. db[id] <= published[id]
      BY DEF MirrorInv, ListInv
    <3>3. list[id] = 0 => db[id] = 0
      BY <3>1, <3>2, <2>1 DEF Stamps
    <3> QED BY <3>1, <3>3, <1>2
  <2>5. CASE Behind(published[id])
    <3>1. published[id] \in {db[id], skipped[id]}
      BY <2>5 DEF MirrorInv, NoGap
    <3>2. list[id] # 0 => db[id] <= list[id] /\ list[id] <= published[id]
      BY DEF Commit, MirrorInv, ListInv
    <3> QED BY <3>1, <3>2, <1>2, <2>1 DEF Stamps
  <2> QED BY <2>2, <2>4, <2>5
<1> QED BY <1>1, <1>3, <1>4 DEF MirrorInv

LEMMA GiveUpStep == ASSUME MirrorInv, TypeOK', BadTimestampsAgain PROVE MirrorInv'
<1>1. WindowInv'
  BY CursorSettles DEF BadTimestampsAgain, portnetVars
<1>2. \A id \in Ids : skipped'[id] = IF Response[id] # 0 THEN Response[id] ELSE skipped[id]
  BY OverwriteHolds, ResponseHolds DEF BadTimestampsAgain, MirrorInv, TypeOK
<1>3. ListInv'
  <2>1. ASSUME NEW id \in Ids PROVE db[id] <= published[id] /\ skipped'[id] <= published[id]
    <3>1. /\ published[id] \in Nat /\ db[id] <= published[id]
          /\ skipped[id] <= published[id] /\ Response[id] \in {0, published[id]}
      BY ResponseHolds DEF MirrorInv, TypeOK, PortnetTypeOK, ListInv, Stamps
    <3> QED BY <1>2, <3>1
  <2> QED BY <2>1, RunEnds DEF BadTimestampsAgain, portnetVars
<1>4. NoGap'
  <2> SUFFICES ASSUME NEW id \in Ids, Behind(published[id])'
               PROVE  published[id] \in {db[id], skipped'[id]}
    BY DEF NoGap, BadTimestampsAgain, portnetVars
  <2>1. published[id] \in Stamps /\ db[id] \in Stamps /\ db[id] <= published[id]
    BY DEF MirrorInv, TypeOK, PortnetTypeOK, ListInv
  <2>2. Behind(published[id]) \/ (Floor(from) <= published[id] /\ published[id] < Floor(to))
    BY <2>1, CursorMoves DEF BadTimestampsAgain, Behind, portnetVars
  <2>3. Response[id] \in {0, published[id]}
    BY ResponseHolds DEF MirrorInv
  <2>4. CASE Floor(from) <= published[id] /\ published[id] < Floor(to)
    BY <2>4, <2>1, <1>2, ResponseHolds DEF MirrorInv, Stamps
  <2>5. CASE Behind(published[id])
    BY <2>5, <2>3, <1>2 DEF MirrorInv, NoGap
  <2> QED BY <2>2, <2>4, <2>5
<1> QED BY <1>1, <1>3, <1>4 DEF MirrorInv

LEMMA ServerStep == ASSUME MirrorInv, TypeOK', Server PROVE MirrorInv'
<1>1. /\ clock \in Nat /\ clock' \in Nat /\ clock <= clock'
      /\ \A id \in Ids : /\ published[id] \in Nat /\ published'[id] \in Nat
                         /\ published[id] <= published'[id]
                         /\ published'[id] # published[id] => clock - MaxDelay <= published'[id]
  BY ServerSteps DEF Server, MirrorInv, TypeOK, PortnetTypeOK, Stamps
<1>2. UNCHANGED <<cursors, db, pc, run, list, skipped>>
  BY DEF Server, answer
<1>3. ASSUME NEW t \in Int, t + MaxDelay <= clock PROVE t + MaxDelay <= clock'
  BY <1>1, <1>3, PortnetAssumption
<1>4. ASSUME NEW t \in Int, Settled(t), NEW id \in Ids, published'[id] < Floor(t)
      PROVE  published'[id] = published[id]
  BY <1>1, <1>4, FloorBelow, PortnetAssumption DEF Settled
<1>5. WindowInv'
  BY <1>2, <1>3 DEF WindowInv, cursors, run, MirrorInv, TypeOK, Settled
<1>6. ListInv'
  <2> SUFFICES ASSUME NEW id \in Ids
               PROVE  /\ db[id] <= published'[id] /\ list[id] <= published'[id]
                      /\ skipped[id] <= published'[id]
                      /\ pc = "updating" /\ published'[id] < Floor(to)
                           => published'[id] = published[id]
    BY <1>2 DEF ListInv, run, MirrorInv
  <2>1. pc = "updating" => to \in Int /\ Settled(to)
    BY DEF MirrorInv, WindowInv, TypeOK
  <2>2. db[id] \in Nat /\ list[id] \in Nat /\ skipped[id] \in Nat
    BY DEF MirrorInv, TypeOK, Stamps
  <2> QED BY <1>1, <1>4, <2>1, <2>2 DEF MirrorInv, ListInv
<1>7. NoGap'
  <2> SUFFICES ASSUME NEW id \in Ids, Behind(published'[id])
               PROVE  published'[id] \in {db[id], skipped[id]}
    BY <1>2 DEF NoGap, Behind, cursors
  <2>1. published'[id] = published[id]
    BY <1>4 DEF Behind, MirrorInv, WindowInv
  <2> QED BY <2>1 DEF MirrorInv, NoGap
<1> QED BY <1>5, <1>6, <1>7 DEF MirrorInv

LEMMA MirrorInvStep == MirrorInv /\ [Next]_vars => MirrorInv'
<1> SUFFICES ASSUME MirrorInv, [Next]_vars PROVE MirrorInv'
  OBVIOUS
<1>1. TypeOK'
  BY TypeStep DEF MirrorInv
<1>2. CASE Update
  BY <1>1, <1>2, UpdateStep
<1>3. CASE GetList
  BY <1>1, <1>3, GetListStep
<1>4. CASE UpdateNotification
  BY <1>1, <1>4
  DEF UpdateNotification, MirrorInv, WindowInv, Settled, ListInv, NoGap, Behind,
      portnetVars, cursors, run
<1>5. CASE Commit
  BY <1>1, <1>5, CommitStep
<1>6. CASE ErrorList \/ Fails
  <2>1. ListInv'
    BY <1>1, <1>6, RunEnds DEF ErrorList, Fails, MirrorInv, ListInv, portnetVars
  <2> QED BY <1>1, <1>6, <2>1
      DEF ErrorList, Fails, Ends, MirrorInv, WindowInv, Settled, NoGap, Behind,
          portnetVars, cursors
<1>7. CASE BadTimestamps
  BY <1>1, <1>7
  DEF BadTimestamps, MirrorInv, WindowInv, Settled, ListInv, NoGap, Behind,
      portnetVars, cursors, run, answer
<1>8. CASE BadTimestampsAgain
  BY <1>1, <1>8, GiveUpStep
<1>9. CASE Server
  BY <1>1, <1>9, ServerStep
<1>10. CASE UNCHANGED vars
  BY <1>1, <1>10
  DEF vars, MirrorInv, WindowInv, Settled, ListInv, NoGap, Behind,
      portnetVars, cursors, run, answer
<1> QED BY <1>2, <1>3, <1>4, <1>5, <1>6, <1>7, <1>8, <1>9, <1>10
    DEF Next, Runs, Troubles

\* No version stamped behind the cursor is missed, unless it was given up.
THEOREM NothingMissed == Spec => []NoGap
<1>1. MirrorInv => NoGap
  BY DEF MirrorInv
<1> QED BY <1>1, MirrorInvInit, MirrorInvStep, PTL DEF Spec

-----------------------------------------------------------------------------
(* The times that are shown                                                 *)

\* A later present covers what an earlier one did.
LEMMA PresentGrows ==
  ASSUME NEW c \in Int, NEW d \in Int, c <= d, NEW m \in Int, NEW s \in Int, NEW t \in Int
  PROVE  /\ t <= c + s - m => t <= d + s - m
         /\ t < c + s - m => t < d + s - m
  OBVIOUS

LEMMA WithinLater ==
  ASSUME NEW v \in Int, NEW t \in Int, NEW u \in Int, t <= u, Within(v, t)
  PROVE  Within(v, u)
<1>1. PICK s \in Skews, r \in Skews : v < t + (s - r)
  BY DEF Within
<1>2. v < u + (s - r)
  BY <1>1, PortnetAssumption
<1> QED BY <1>2 DEF Within

\* The window of a new run ends after the cursor or at the present.
LEMMA WindowEnds ==
  ASSUME TypeOK, NEW s \in Skews
  PROVE  LET end == To(From(Now(s)), Now(s)) IN
           end = Now(s) \/ (portCallsTo # Null => portCallsTo \in Int /\ portCallsTo <= end)
<1>1. Now(s) \in Int
  BY WindowTypes
<1>2. ASSUME NEW b \in Int, portCallsTo # Null => b = portCallsTo - Overlap
      PROVE  \/ To(b, Now(s)) = Now(s)
             \/ portCallsTo # Null => portCallsTo \in Int /\ portCallsTo <= To(b, Now(s))
  BY <1>1, <1>2, UpdaterAssumption DEF To, TypeOK, Timestamps
<1>3. From(Now(s)) \in Int /\ (portCallsTo # Null => From(Now(s)) = portCallsTo - Overlap)
  BY WindowTypes DEF From
<1> QED BY <1>2, <1>3

\* A commit stores a time of update that covers what it stores.
LEMMA CoverCommit ==
  ASSUME TypeOK, CoverInv, pc # "idle", skew \in Skews, Commit
  PROVE  CoverInv'
<1>1. to \in Int /\ to # Null /\ to <= clock + skew - Margin
  BY UpdaterAssumption DEF TypeOK, CoverInv
<1>2. portCallsTo' = to /\ pc' = "idle" /\ clock' = clock /\ list' = Nothing
  BY DEF Commit, Checked, Ends, portnetVars
<1>3. \A id \in Ids : db'[id] = IF list[id] # 0 THEN list[id] ELSE db[id]
  BY OverwriteHolds DEF Commit, TypeOK
<1>4. ASSUME NEW id \in Ids, db'[id] # 0
      PROVE  Within(db'[id], to) /\ \E s \in Skews : db'[id] < clock + s - Margin
  <2>1. CASE list[id] # 0
    <3>1. /\ skew \in Int /\ list[id] \in Int /\ list[id] < to
          /\ clock \in Int /\ Margin \in Int
      BY <2>1, PortnetAssumption, UpdaterAssumption DEF CoverInv, TypeOK, PortnetTypeOK, Stamps
    <3>2. list[id] < to + (skew - skew) /\ list[id] < clock + skew - Margin
      BY <1>1, <3>1
    <3> QED BY <1>3, <2>1, <3>2 DEF Within
  <2>2. CASE list[id] = 0
    BY <1>3, <1>4, <2>2 DEF CoverInv
  <2> QED BY <2>1, <2>2
<1>5. UpdatedCoversData'
  <2>1. CASE list = Nothing
    BY <1>3, <2>1, NothingHolds DEF Commit, CoverInv, UpdatedCoversData
  <2>2. CASE list # Nothing
    BY <1>1, <1>4, <2>2 DEF Commit, UpdatedCoversData
  <2> QED BY <2>1, <2>2
<1> QED BY <1>1, <1>2, <1>4, <1>5, NothingHolds DEF CoverInv

LEMMA CoverUpdate == ASSUME TypeOK, CoverInv, pc = "idle", Update PROVE CoverInv'
<1>1. PICK s \in Skews : skew' = s /\ to' = To(From(Now(s)), Now(s))
  BY DEF Update
<1>2. s \in Int /\ clock \in Int /\ Margin \in Int /\ to' \in Int /\ to' <= clock + s - Margin
  BY <1>1, WindowTypes, PortnetAssumption, UpdaterAssumption DEF TypeOK, PortnetTypeOK, Now
<1>3. to' = clock + s - Margin \/ (portCallsTo # Null => portCallsTo \in Int /\ portCallsTo <= to')
  BY <1>1, WindowEnds DEF Now
<1>4. UNCHANGED <<db, clock, portCalls, portCallsTo, list>>
  BY DEF Update, portnetVars, cursors, answer
<1>5. ASSUME NEW id \in Ids, db[id] # 0 PROVE Within(db[id], to')
  <2>1. db[id] \in Int
    BY DEF TypeOK, Stamps
  <2>2. CASE to' = clock + s - Margin
    <3>1. PICK r \in Skews : db[id] < clock + r - Margin
      BY <1>5 DEF CoverInv
    <3>2. db[id] < to' + (r - s)
      BY <1>2, <2>1, <2>2, <3>1, PortnetAssumption
    <3> QED BY <3>2 DEF Within
  <2>3. CASE portCallsTo # Null => portCallsTo \in Int /\ portCallsTo <= to'
    BY <1>2, <1>5, <2>1, <2>3, WithinLater DEF CoverInv
  <2> QED BY <1>3, <2>2, <2>3
<1>6. \A id \in Ids : list[id] = 0
  BY NothingHolds DEF TypeOK
<1> QED BY <1>1, <1>2, <1>4, <1>5, <1>6 DEF CoverInv, UpdatedCoversData

LEMMA CoverStep == MirrorInv /\ CoverInv /\ [Next]_vars => CoverInv'
<1> SUFFICES ASSUME MirrorInv, CoverInv, [Next]_vars PROVE CoverInv'
  OBVIOUS
<1>1. TypeOK /\ (pc # "idle" => skew \in Skews)
  BY DEF MirrorInv, WindowInv
<1>2. CASE Update
  BY <1>1, <1>2, CoverUpdate DEF Update
<1>3. CASE GetList
  <2>1. ASSUME NEW id \in Ids, Response[id] # 0 PROVE Response[id] < to
    BY <1>1, <2>1, ResponseHolds, FloorBelow DEF TypeOK, Stamps
  <2> QED BY <1>3, <2>1 DEF GetList, CoverInv, UpdatedCoversData, portnetVars, cursors, run
<1>4. CASE Commit
  BY <1>1, <1>4, CoverCommit DEF Commit
<1>5. CASE BadTimestampsAgain
  <2>1. portCallsTo' = to /\ to # Null
    BY <1>1, <1>5, UpdaterAssumption DEF BadTimestampsAgain, Checked, TypeOK
  <2> QED BY <1>5, <2>1, NothingHolds
      DEF BadTimestampsAgain, Ends, CoverInv, UpdatedCoversData, portnetVars
<1>6. CASE ErrorList \/ Fails
  BY <1>6, NothingHolds
  DEF ErrorList, Fails, Ends, CoverInv, UpdatedCoversData, portnetVars, cursors
<1>7. CASE UpdateNotification \/ BadTimestamps
  BY <1>7
  DEF UpdateNotification, BadTimestamps, CoverInv, UpdatedCoversData, portnetVars, cursors, run,
      answer
<1>8. CASE Server
  <2>1. clock \in Int /\ clock' \in Int /\ clock <= clock' /\ Margin \in Int
    BY <1>1, <1>8, ServerSteps, UpdaterAssumption DEF Server, TypeOK, PortnetTypeOK
  <2>2. UNCHANGED <<db, list, pc, portCalls, portCallsTo, skew, to>>
    BY <1>8 DEF Server, cursors, run, answer
  <2>3. ASSUME NEW t \in Int, NEW s \in Int
        PROVE  /\ t <= clock + s - Margin => t <= clock' + s - Margin
               /\ t < clock + s - Margin => t < clock' + s - Margin
    BY <2>1, PresentGrows
  <2>4. ASSUME NEW id \in Ids, db[id] # 0
        PROVE  \E s \in Skews : db[id] < clock' + s - Margin
    <3>1. PICK s \in Skews : db[id] < clock + s - Margin
      BY <2>4 DEF CoverInv
    <3>2. s \in Int /\ db[id] \in Int
      BY <1>1, PortnetAssumption DEF TypeOK, Stamps
    <3> QED BY <2>3, <3>1, <3>2
  <2>5. pc # "idle" => to <= clock' + skew - Margin
    BY <1>1, <2>3, PortnetAssumption DEF CoverInv, TypeOK
  <2> QED BY <2>2, <2>4, <2>5 DEF CoverInv, UpdatedCoversData
<1>9. CASE UNCHANGED vars
  BY <1>9 DEF vars, CoverInv, UpdatedCoversData, portnetVars, cursors, run, answer
<1> QED BY <1>2, <1>3, <1>4, <1>5, <1>6, <1>7, <1>8, <1>9 DEF Next, Runs, Troubles

LEMMA CoverInit == Init => CoverInv
  BY NothingHolds DEF Init, CoverInv, UpdatedCoversData

\* The time of the last update covers every port call that is stored.
THEOREM UpdateTimeCovers == Spec => []UpdatedCoversData
<1>1. CoverInv => UpdatedCoversData
  BY DEF CoverInv
<1> QED BY <1>1, MirrorInvInit, MirrorInvStep, CoverInit, CoverStep, PTL DEF Spec

\* A check that moves the cursor is later than every update, if the margin also
\* covers what the clocks differ.
LEMMA CheckMoves ==
  ASSUME ClocksAgree, TypeOK, CheckInv, pc # "idle", skew \in Skews, Checked, Ends,
         UNCHANGED clock, portCalls' \in {portCalls, to}
  PROVE  CheckInv'
<1>1. /\ clock \in Int /\ skew \in Int /\ Margin \in Nat /\ to \in Int /\ to # Null
      /\ to <= clock + skew - Margin
  BY PortnetAssumption, UpdaterAssumption DEF TypeOK, PortnetTypeOK, CheckInv
<1>2. portCallsCheck' = clock + skew /\ pc' = "idle"
  BY DEF Checked, Ends
<1>3. CASE portCalls' = to
  BY <1>1, <1>2, <1>3 DEF CheckInv, CheckedAfterUpdated
<1>4. CASE portCalls' = portCalls /\ portCalls # Null
  <2>1. PICK s \in Skews : portCalls <= clock + s - Margin
    BY <1>4 DEF CheckInv
  <2>2. s \in Int /\ s - skew <= Margin /\ portCalls \in Int
    BY <1>4, PortnetAssumption DEF ClocksAgree, TypeOK, Timestamps
  <2>3. portCalls <= clock + skew
    BY <1>1, <2>1, <2>2
  <2> QED BY <1>2, <1>4, <2>1, <2>3 DEF CheckInv, CheckedAfterUpdated
<1> QED BY <1>2, <1>3, <1>4 DEF CheckInv, CheckedAfterUpdated

LEMMA CheckStep ==
  ASSUME ClocksAgree, MirrorInv, CheckInv, [Next]_vars
  PROVE  CheckInv'
<1>1. TypeOK /\ (pc # "idle" => skew \in Skews)
  BY DEF MirrorInv, WindowInv
<1>2. CASE Update
  <2>1. PICK s \in Skews : skew' = s /\ to' = To(From(Now(s)), Now(s))
    BY <1>2 DEF Update
  <2>2. to' <= clock + s - Margin
    BY <1>1, <2>1, WindowTypes DEF Now
  <2> QED BY <1>2, <2>1, <2>2
      DEF Update, CheckInv, CheckedAfterUpdated, portnetVars, cursors
<1>3. CASE Commit
  BY <1>1, <1>3, CheckMoves DEF Commit, portnetVars
<1>4. CASE BadTimestampsAgain
  BY <1>1, <1>4, CheckMoves DEF BadTimestampsAgain, portnetVars
<1>5. CASE ErrorList \/ Fails
  BY <1>5 DEF ErrorList, Fails, Ends, CheckInv, CheckedAfterUpdated, portnetVars, cursors
<1>6. CASE GetList \/ UpdateNotification \/ BadTimestamps
  BY <1>6
  DEF GetList, UpdateNotification, BadTimestamps, CheckInv, CheckedAfterUpdated, portnetVars,
      cursors, run
<1>7. CASE Server
  <2>1. clock \in Int /\ clock' \in Int /\ clock <= clock' /\ Margin \in Int
    BY <1>1, <1>7, ServerSteps, UpdaterAssumption DEF Server, TypeOK, PortnetTypeOK
  <2>2. UNCHANGED <<pc, portCalls, portCallsCheck, skew, to>>
    BY <1>7 DEF Server, cursors, run
  <2>3. ASSUME NEW t \in Int, NEW s \in Int, t <= clock + s - Margin
        PROVE  t <= clock' + s - Margin
    BY <2>1, <2>3, PresentGrows
  <2>4. portCalls # Null => \E s \in Skews : portCalls <= clock' + s - Margin
    <3>1. SUFFICES ASSUME portCalls # Null
                   PROVE  \E s \in Skews : portCalls <= clock' + s - Margin
      OBVIOUS
    <3>2. PICK s \in Skews : portCalls <= clock + s - Margin
      BY <3>1 DEF CheckInv
    <3>3. s \in Int /\ portCalls \in Int
      BY <1>1, <3>1, PortnetAssumption DEF TypeOK, Timestamps
    <3> QED BY <2>3, <3>2, <3>3
  <2>5. pc # "idle" => to <= clock' + skew - Margin
    BY <1>1, <2>3, PortnetAssumption DEF CheckInv, TypeOK
  <2> QED BY <2>2, <2>4, <2>5 DEF CheckInv, CheckedAfterUpdated
<1>8. CASE UNCHANGED vars
  BY <1>8 DEF vars, CheckInv, CheckedAfterUpdated, portnetVars, cursors, run
<1> QED BY <1>2, <1>3, <1>4, <1>5, <1>6, <1>7, <1>8 DEF Next, Runs, Troubles

\* The time of the last check never falls behind that of the last update, as
\* long as the clocks of the nodes differ by no more than the margin.
THEOREM CheckedLast == ASSUME ClocksAgree PROVE Spec => []CheckedAfterUpdated
<1>1. Init => CheckInv
  BY DEF Init, CheckInv, CheckedAfterUpdated
<1>2. MirrorInv /\ CheckInv /\ [Next]_vars => CheckInv'
  BY CheckStep
<1>3. CheckInv => CheckedAfterUpdated
  BY DEF CheckInv
<1> QED BY <1>1, <1>2, <1>3, MirrorInvInit, MirrorInvStep, PTL DEF Spec

-----------------------------------------------------------------------------
(* Estimates                                                                *)

LEMMA AheadStep == MirrorInv /\ AheadInv /\ [Next]_vars => AheadInv'
<1> SUFFICES ASSUME MirrorInv, AheadInv, [Next]_vars PROVE AheadInv'
  OBVIOUS
<1>1. CASE UpdateNotification
  <2>1. PICK i \in todo : \/ list[i] > db[i] /\ ahead' = [ahead EXCEPT ![i] = list[i]]
                         \/ UNCHANGED ahead
    BY <1>1 DEF UpdateNotification
  <2>2. UNCHANGED <<db, published>> /\ \A id \in Ids : list[id] <= published[id]
    BY <1>1 DEF UpdateNotification, portnetVars, MirrorInv, ListInv
  <2>3. \A id \in Ids : ahead'[id] = ahead[id] \/ (ahead'[id] = list[id] /\ list[id] > db[id])
    BY <2>1 DEF MirrorInv, TypeOK
  <2> QED BY <2>2, <2>3 DEF AheadInv
<1>2. CASE Commit
  <2>1. \A id \in Ids : /\ db'[id] = IF list[id] # 0 THEN list[id] ELSE db[id]
                        /\ ahead'[id] = IF list[id] # 0 THEN 0 ELSE ahead[id]
    BY <1>2, OverwriteHolds DEF Commit, StoresAhead, MirrorInv, TypeOK
  <2> QED BY <1>2, <2>1 DEF Commit, portnetVars, AheadInv
<1>3. CASE Update \/ GetList \/ ErrorList \/ BadTimestamps \/ BadTimestampsAgain \/ Fails
  BY <1>3 DEF Update, GetList, ErrorList, BadTimestamps, BadTimestampsAgain, Fails,
              portnetVars, AheadInv
<1>4. CASE Server
  <2>1. \A id \in Ids : published[id] <= published'[id]
                        /\ published[id] \in Nat /\ published'[id] \in Nat
    BY <1>4, ServerSteps DEF Server, MirrorInv, TypeOK, PortnetTypeOK, Stamps
  <2>2. \A id \in Ids : ahead[id] \in Nat
    BY DEF MirrorInv, TypeOK, Stamps
  <2>3. UNCHANGED <<db, ahead>>
    BY <1>4 DEF Server
  <2> QED BY <2>1, <2>2, <2>3 DEF AheadInv
<1>5. CASE UNCHANGED vars
  BY <1>5 DEF vars, portnetVars, AheadInv
<1> QED BY <1>1, <1>2, <1>3, <1>4, <1>5 DEF Next, Runs, Troubles

\* Estimates that are out although their port call was rolled back are followed
\* by it: if the cursor passed its newest version, that version was given up.
THEOREM EstimatesNotAlone == Spec => []EstimatesFollowed
<1>1. Init => AheadInv
  BY NothingHolds DEF Init, AheadInv
<1>2. MirrorInv /\ AheadInv => EstimatesFollowed
  <2> SUFFICES ASSUME MirrorInv, AheadInv, NEW id \in Ids,
                      ahead[id] # 0, portCallsTo # Null, since <= ahead[id],
                      ~(Floor(portCallsTo) <= published[id])
               PROVE  ahead[id] <= skipped[id]
    BY DEF EstimatesFollowed
  <2>1. /\ ahead[id] \in Nat /\ published[id] \in Nat /\ since \in Int
        /\ db[id] \in Nat /\ db[id] < ahead[id] /\ ahead[id] <= published[id]
        /\ Floor(portCallsTo) \in Int
    BY FloorBelow DEF MirrorInv, TypeOK, WindowInv, PortnetTypeOK, Stamps, AheadInv
  <2>2. Behind(published[id])
    BY <2>1 DEF Behind
  <2>3. published[id] \in {db[id], skipped[id]}
    BY <2>2 DEF MirrorInv, NoGap
  <2> QED BY <2>1, <2>3
<1> QED BY <1>1, <1>2, MirrorInvInit, MirrorInvStep, AheadStep, PTL DEF Spec

-----------------------------------------------------------------------------
(* The abstract mirror                                                      *)

LEMMA HorizonMoves ==
  ASSUME MirrorInv, pc # "idle", Checked, NoGap', UNCHANGED published,
         db' \in [Ids -> Stamps], skipped' \in [Ids -> Stamps], published \in [Ids -> Stamps],
         \A id \in Ids : db[id] <= db'[id] /\ db'[id] <= published[id]
  PROVE  Mirror!Synchronize
<1>1. portCallsTo' = to /\ to \in Int /\ portCallsTo' # Null /\ Horizon' = Floor(to)
  BY UpdaterAssumption DEF Checked, Horizon, MirrorInv, TypeOK
<1>2. Horizon' \in Int /\ Horizon' # Null
  BY <1>1, FloorBelow, UpdaterAssumption
<1>3. since' # Null /\ (since # Null => since' = since)
  BY FloorBelow, UpdaterAssumption DEF Checked, MirrorInv, TypeOK
<1>4. \A id \in Ids : since' <= published[id] /\ published[id] < Horizon'
                       => db'[id] = published[id] \/ id \in GivenUp'
  <2> SUFFICES ASSUME NEW id \in Ids, since' <= published[id], published[id] < Horizon',
                      db'[id] # published[id]
               PROVE  published[id] # 0 /\ skipped'[id] = published[id]
    BY DEF GivenUp
  <2>1. skipped'[id] = published[id]
    BY <1>1 DEF NoGap, Behind, Floor
  <2>2. published[id] \in Nat /\ db'[id] \in Nat /\ db'[id] <= published[id]
    BY DEF Stamps
  <2> QED BY <2>1, <2>2
<1>5. GivenUp' \subseteq Ids
  BY DEF GivenUp
<1> QED BY <1>2, <1>3, <1>4, <1>5 DEF Mirror!Synchronize

\* The update implements the mirror of FeedMirror: its commits synchronize, the
\* server publishes, and every other step stutters.
THEOREM ImplementsMirror == Spec => KeepsMirror
<1>1. Init => Mirror!Init
  BY NothingHolds DEF Init, Mirror!Init, PortnetInit, Nothing, Horizon, GivenUp
<1>2. MirrorInv /\ MirrorInv' /\ [Next]_vars => [Mirror!Next]_(Mirror!vars)
  <2> SUFFICES ASSUME MirrorInv, MirrorInv', [Next]_vars PROVE [Mirror!Next]_(Mirror!vars)
    OBVIOUS
  <2>1. CASE UNCHANGED <<published, db, skipped, portCallsTo, since>>
    BY <2>1 DEF Mirror!vars, Horizon, Floor, GivenUp
  <2>2. CASE Update \/ GetList \/ UpdateNotification \/ ErrorList \/ BadTimestamps \/ Fails
    BY <2>1, <2>2 DEF Update, GetList, UpdateNotification, ErrorList, BadTimestamps, Fails,
                      portnetVars, cursors
  <2>3. CASE Commit
    <3>1. db' \in [Ids -> Stamps] /\ skipped' \in [Ids -> Stamps] /\ NoGap'
          /\ published \in [Ids -> Stamps]
      BY DEF MirrorInv, TypeOK, PortnetTypeOK
    <3>2. ASSUME NEW id \in Ids PROVE db[id] <= db'[id] /\ db'[id] <= published[id]
      <4>1. db'[id] = IF list[id] # 0 THEN list[id] ELSE db[id]
        BY <2>3, OverwriteHolds DEF Commit, MirrorInv, TypeOK
      <4>2. db[id] \in Nat /\ db[id] <= published[id] /\ list[id] <= published[id]
        BY DEF MirrorInv, TypeOK, ListInv, Stamps
      <4>3. list[id] # 0 => db[id] <= list[id]
        BY <2>3 DEF Commit, MirrorInv, ListInv
      <4> QED BY <4>1, <4>2, <4>3
    <3>3. Mirror!Synchronize
      BY <2>3, <3>1, <3>2, HorizonMoves DEF Commit, portnetVars
    <3> QED BY <3>3 DEF Mirror!Next
  <2>4. CASE BadTimestampsAgain
    <3>1. db' = db /\ skipped' \in [Ids -> Stamps] /\ NoGap' /\ db \in [Ids -> Stamps]
          /\ published \in [Ids -> Stamps]
      BY <2>4 DEF MirrorInv, TypeOK, PortnetTypeOK, BadTimestampsAgain
    <3>2. \A id \in Ids : db[id] <= db'[id] /\ db'[id] <= published[id]
      BY <3>1 DEF MirrorInv, ListInv, Stamps
    <3>3. Mirror!Synchronize
      BY <2>4, <3>1, <3>2, HorizonMoves DEF BadTimestampsAgain, portnetVars
    <3> QED BY <3>3 DEF Mirror!Next
  <2>5. CASE Server
    <3>1. UNCHANGED <<db, skipped, portCallsTo, since, Horizon>>
      BY <2>5 DEF Server, cursors, Horizon, Floor
    <3>2. CASE Ticks
      BY <2>1, <3>1, <3>2 DEF Ticks
    <3>3. CASE Publishes
      <4>1. PICK i \in Ids, t \in (clock - MaxDelay)..clock :
               t > published[i] /\ published' = [published EXCEPT ![i] = t]
        BY <3>3 DEF Publishes
      <4>2. published'[i] = t
        BY <4>1 DEF MirrorInv, TypeOK, PortnetTypeOK
      <4>3. Horizon # Null => t >= Horizon
        <5>1. SUFFICES ASSUME portCallsTo # Null PROVE t >= Floor(portCallsTo)
          BY DEF Horizon
        <5>2. /\ portCallsTo \in Int /\ portCallsTo + MaxDelay <= clock
              /\ Floor(portCallsTo) \in Int /\ Floor(portCallsTo) <= portCallsTo
          BY <5>1, FloorBelow DEF MirrorInv, WindowInv, Settled
        <5> QED BY <5>2, <4>1, PortnetAssumption DEF MirrorInv, TypeOK, PortnetTypeOK
      <4>4. GivenUp' = GivenUp \ {i}
        <5>1. \A id \in Ids : published'[id] = IF id = i THEN t ELSE published[id]
          BY <4>1 DEF MirrorInv, TypeOK, PortnetTypeOK
        <5>2. t # skipped[i]
          <6>1. /\ t \in Int /\ t > published[i] /\ skipped[i] <= published[i]
                /\ skipped[i] \in Nat /\ published[i] \in Nat
            BY <4>1, PortnetAssumption DEF MirrorInv, TypeOK, PortnetTypeOK, ListInv, Stamps
          <6> QED BY <6>1
        <5> QED BY <3>1, <5>1, <5>2 DEF GivenUp
      <4> QED BY <3>1, <4>1, <4>2, <4>3, <4>4 DEF Mirror!Next, Mirror!Publish
    <3> QED BY <2>5, <3>2, <3>3 DEF Server
  <2>6. CASE UNCHANGED vars
    BY <2>1, <2>6 DEF vars, portnetVars, cursors
  <2> QED BY <2>2, <2>3, <2>4, <2>5, <2>6 DEF Next, Runs, Troubles
<1> QED BY <1>1, <1>2, MirrorInvInit, MirrorInvStep, PTL DEF Spec, Mirror!Spec, KeepsMirror
=============================================================================

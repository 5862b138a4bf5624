-------------------------- MODULE PortCallUpdater --------------------------
(***************************************************************************)
(* The port call update (PortCallUpdater.update), a clustered Quartz job:  *)
(* once a minute one of the nodes asks Portnet for the window that follows *)
(* the cursor PORT_CALLS_TO, saves the answer and moves the cursor, in one *)
(* transaction.  Quartz runs one update at a time, on any node.            *)
(***************************************************************************)
EXTENDS Portnet

CONSTANTS
  Null,       (* a timestamp that is not in the database *)
  Margin,     (* the minute that update() subtracts from the present *)
  MaxFrame,   (* maxTimeFrameToFetch *)
  Overlap,    (* overlapTimeFrame *)
  MaxFaults   (* bound on failed runs, bad answers and crashes *)

\* The margin outlasts clock differences and the server's delay together; the
\* time frames are configured so (360000 and 2000, application.properties).
ASSUME UpdaterAssumption ==
  /\ Null \notin Int
  /\ Margin \in Nat /\ MaxFaults \in Nat
  /\ \A s \in Skews : s + MaxDelay <= Margin
  /\ Overlap \in Nat /\ MaxFrame \in Nat /\ Overlap < MaxFrame

VARIABLES
  portCalls, portCallsTo, portCallsCheck,   \* table updated_timestamp
  db,         \* table port_call: the version saved of each record
  ahead,      \* history: the version whose estimates are out, while it is not stored
  pc,         \* "idle", "first" or "second" request, "updating"
  skew,       \* clock difference of the node that runs the update
  from, to,   \* the window of the running update
  list, todo, \* the answer being saved; the records not yet worked on
  faults,
  since,      \* history: where the first window that was saved started
  skipped     \* history: the version given up when a second answer was bad

cursors == <<portCalls, portCallsTo, portCallsCheck, since>>
run == <<skew, from, to>>
answer == <<list, todo>>
vars == <<portnetVars, cursors, db, ahead, pc, run, answer, faults, skipped>>

Init ==
  /\ PortnetInit
  /\ portCalls = Null /\ portCallsTo = Null /\ portCallsCheck = Null /\ since = Null
  /\ db = Nothing /\ ahead = Nothing /\ skipped = Nothing
  /\ pc = "idle" /\ skew = 0 /\ from = 0 /\ to = 0
  /\ list = Nothing /\ todo = {} /\ faults = 0

-----------------------------------------------------------------------------
(* The window                                                               *)

NowWithoutMargin(s) == clock + s   \* mutated: the window reaches the present
Now(s) == clock + s - Margin

From(now) == IF portCallsTo = Null THEN now - MaxFrame ELSE portCallsTo - Overlap

ToShrinking(start, now) ==   \* mutated: an overlong window ends too early
  IF now - start > MaxFrame THEN start + Overlap ELSE now
To(start, now) == IF now - start > MaxFrame THEN start + MaxFrame ELSE now

Response == Answer(Floor(from), Floor(to))

-----------------------------------------------------------------------------
Fault == faults < MaxFaults /\ faults' = faults + 1

Update ==
  /\ pc = "idle"
  /\ \E s \in Skews : LET start == From(Now(s)) IN
       skew' = s /\ from' = start /\ to' = To(start, Now(s))
  /\ pc' = "first"
  /\ UNCHANGED <<portnetVars, cursors, db, ahead, answer, faults, skipped>>

\* The end of a run and of its local variables.
EndsKeepingTodo ==   \* mutated: what is left to do outlives the run
  pc' = "idle" /\ skew' = 0 /\ from' = 0 /\ to' = 0 /\ list' = Nothing /\ UNCHANGED todo
Ends == pc' = "idle" /\ skew' = 0 /\ from' = 0 /\ to' = 0 /\ list' = Nothing /\ todo' = {}

\* An answer whose timestamps pass checkTimestamps.
GetList ==
  /\ pc \in {"first", "second"}
  /\ list' = Response /\ todo' = {id \in Ids : Response[id] # 0}
  /\ pc' = "updating"
  /\ UNCHANGED <<portnetVars, cursors, db, ahead, run, faults, skipped>>

CheckedUpToWindow ==   \* mutated: the window's end is stored as the time of the check
  /\ portCallsTo' = to /\ portCallsCheck' = to
  /\ since' = IF since = Null THEN Floor(from) ELSE since
Checked == /\ portCallsTo' = to /\ portCallsCheck' = clock + skew
           /\ since' = IF since = Null THEN Floor(from) ELSE since

ErrorListMovingCursor ==   \* mutated: an answer that is an error moves the cursor
  /\ pc \in {"first", "second"} /\ Fault /\ Ends /\ Checked
  /\ UNCHANGED <<portnetVars, portCalls, db, ahead, skipped>>

\* No list, or one with an error status: the run ends, nothing is written.
ErrorList ==
  /\ pc \in {"first", "second"} /\ Fault /\ Ends
  /\ UNCHANGED <<portnetVars, cursors, db, ahead, skipped>>

\* A timestamp is missing or ages old: the window is requested once more.
BadTimestamps ==
  /\ pc = "first" /\ Fault /\ pc' = "second"
  /\ UNCHANGED <<portnetVars, cursors, db, ahead, run, answer, skipped>>

\* ... and given up if it is bad again, but the cursor moves.
BadTimestampsAgain ==
  /\ pc = "second" /\ Fault /\ Ends /\ Checked
  /\ skipped' = Overwrite(skipped, Response)
  /\ UNCHANGED <<portnetVars, portCalls, db, ahead>>

\* One notification: its port call is changed (in the transaction), and its
\* estimates are posted at once (outside of it), unless the node has no
\* estimate updater, there is nothing to estimate, or the POST fails, which is
\* only logged.
UpdateNotification ==
  /\ pc = "updating"
  /\ \E id \in todo :
       /\ todo' = todo \ {id}
       /\ \/ list[id] > db[id] /\ ahead' = [ahead EXCEPT ![id] = list[id]]
          \/ UNCHANGED ahead
  /\ UNCHANGED <<portnetVars, cursors, db, pc, run, list, faults, skipped>>

\* What is stored is not ahead any more.
StoresAhead == ahead' = [id \in Ids |-> IF list[id] # 0 THEN 0 ELSE ahead[id]]

CommitFrom ==   \* mutated: the start of the window is stored as the time of the update
  /\ pc = "updating" /\ todo = {} /\ Checked /\ Ends /\ StoresAhead
  /\ db' = Overwrite(db, list) /\ portCalls' = IF list = Nothing THEN portCalls ELSE from
  /\ UNCHANGED <<portnetVars, faults, skipped>>

Commit ==
  /\ pc = "updating" /\ todo = {} /\ Checked /\ Ends /\ StoresAhead
  /\ db' = Overwrite(db, list) /\ portCalls' = IF list = Nothing THEN portCalls ELSE to
  /\ UNCHANGED <<portnetVars, faults, skipped>>

FailsMovingCursor ==   \* mutated: the cursor moves in a transaction of its own
  /\ pc # "idle" /\ Fault /\ Ends /\ Checked
  /\ UNCHANGED <<portnetVars, portCalls, db, ahead, skipped>>

\* An exception (three failed requests, a notification that cannot be stored or
\* has no port area for an estimate) or a crash: everything is rolled back.
Fails ==
  /\ pc # "idle" /\ Fault /\ Ends
  /\ UNCHANGED <<portnetVars, cursors, db, ahead, skipped>>

Runs == Update \/ GetList \/ UpdateNotification \/ Commit
Troubles == ErrorList \/ BadTimestamps \/ BadTimestampsAgain \/ Fails
Server == (Ticks \/ Publishes)
          /\ UNCHANGED <<cursors, db, ahead, pc, run, answer, faults, skipped>>

Next == Runs \/ Troubles \/ Server

Spec == Init /\ [][Next]_vars

\* Quartz keeps running the job, a run goes on, and time passes.
TimePasses == Ticks /\ UNCHANGED <<cursors, db, ahead, pc, run, answer, faults, skipped>>
FairSpec == Spec /\ WF_vars(Runs) /\ WF_vars(TimePasses)

-----------------------------------------------------------------------------
(* Properties                                                               *)

Timestamps == Int \cup {Null}

\* Types, and a run's list lives no longer than the run.
TypeOK ==
  /\ PortnetTypeOK
  /\ portCalls \in Timestamps /\ portCallsTo \in Timestamps
  /\ portCallsCheck \in Timestamps /\ since \in Timestamps
  /\ db \in [Ids -> Stamps] /\ ahead \in [Ids -> Stamps] /\ skipped \in [Ids -> Stamps]
  /\ pc \in {"idle", "first", "second", "updating"}
  /\ skew \in Skews \cup {0} /\ from \in Int /\ to \in Int
  /\ list \in [Ids -> Stamps] /\ todo \subseteq Ids
  /\ pc # "updating" => list = Nothing /\ todo = {}
  /\ faults \in 0..MaxFaults

Behind(t) == portCallsTo # Null /\ since <= t /\ t < Floor(portCallsTo)

\* No version is missed: every one stamped behind the cursor was saved, or was
\* in an answer given up for its timestamps, although versions become visible
\* late, nodes disagree on the time, runs fail at any step, requests are cut to
\* seconds and the cursor may move backwards with the node.
NoGap == \A id \in Ids : Behind(published[id]) => published[id] \in {db[id], skipped[id]}

\* The time of the last update (PORT_CALLS, which the web application shows)
\* is later than every port call stored, but for what two nodes' clocks differ.
Within(version, t) == \E s, r \in Skews : version < t + (s - r)
UpdatedCoversData == \A id \in Ids : db[id] # 0 => portCalls # Null /\ Within(db[id], portCalls)

\* Data was last checked no earlier than it was updated, whichever nodes did it.
CheckedAfterUpdated == portCalls # Null => portCalls <= portCallsCheck

\* Estimates are out before their transaction ends, so they may stand when the
\* port call is rolled back.  They are never left alone: what they announced was
\* given up for its timestamps, or it, or what replaced it, is ahead of the cursor.
EstimatesFollowed ==
  \A id \in Ids : ahead[id] # 0 /\ portCallsTo # Null /\ since <= ahead[id] =>
    ahead[id] <= skipped[id] \/ Floor(portCallsTo) <= published[id]

\* The mirror of FeedMirror that the update keeps of the port calls.
Horizon == IF portCallsTo = Null THEN Null ELSE Floor(portCallsTo)
GivenUp == {id \in Ids : published[id] # 0 /\ published[id] = skipped[id]}
Mirror == INSTANCE FeedMirror WITH
  source <- published, mirror <- db, givenUp <- GivenUp, horizon <- Horizon, start <- since,
  MayBeLate <- FALSE

\* The update implements the abstract mirror: what is stored never goes back to
\* an older version, and nothing is published behind a cursor.
KeepsMirror == Mirror!Spec

Slowest == CHOOSE s \in Skews : \A r \in Skews : s <= r

\* The cursor gets to every version once the faults end: it never sticks in a
\* window and failed runs are made up for.
CatchesUp ==
  \A id \in Ids, t \in 1..(Floor(MaxClock + Slowest - Margin) - 1) :
    (published[id] = t /\ since # Null /\ since <= t)
      ~> (published[id] # t \/ t \in {db[id], skipped[id]})
=============================================================================

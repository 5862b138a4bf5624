------------------------ MODULE VesselDetailsUpdater ------------------------
(***************************************************************************)
(* The vessel details update (VesselDetailsUpdater.update), a clustered    *)
(* Quartz job: every half an hour one of the nodes asks Portnet for what   *)
(* changed since the cursor PORT_VESSEL_DETAILS, saves it and moves the    *)
(* cursor to the present, in one transaction.  Unlike the port call update *)
(* it leaves no margin and no overlap: a version that becomes visible when *)
(* the cursor has passed its stamp is not asked for any more.              *)
(***************************************************************************)
EXTENDS Portnet

CONSTANTS
  Null,       (* a timestamp that is not in the database *)
  Day,        (* the first window: ZonedDateTime.now().minus(1, DAYS) *)
  MaxFaults   (* bound on failed runs and bad answers *)

ASSUME UpdaterAssumption == Null \notin Int /\ Day \in Nat /\ MaxFaults \in Nat

VARIABLES
  portVesselDetails, portVesselDetailsCheck,   \* table updated_timestamp
  db,       \* table vessel_details: the version saved of each record
  pc,       \* "idle", "request", "saving"
  now,      \* the present of the running update, read before the request
  list,     \* the answer being saved
  faults,
  since,    \* history: where the first window that was saved started
  fresh,    \* history: records published since the running update was answered
  late      \* history: records whose newest version came after its window's answer

notes == <<fresh, late>>
cursors == <<portVesselDetails, portVesselDetailsCheck, since>>
vars == <<portnetVars, cursors, db, pc, now, list, faults, notes>>

Init ==
  /\ PortnetInit
  /\ portVesselDetails = Null /\ portVesselDetailsCheck = Null /\ since = Null
  /\ db = Nothing /\ pc = "idle" /\ now = 0 /\ list = Nothing /\ faults = 0
  /\ fresh = {} /\ late = {}

-----------------------------------------------------------------------------
FromNow == now   \* mutated: the last minutes are requested, not what is missing
From == IF portVesselDetails = Null THEN now - Day ELSE portVesselDetails

StartRoundedUp == Floor(From) + Second   \* mutated: the cursor is rounded up
Start == Floor(From)

Fault == faults < MaxFaults /\ faults' = faults + 1

EndsKeepingList ==   \* mutated: the answer outlives the run
  pc' = "idle" /\ now' = 0 /\ fresh' = {} /\ UNCHANGED list
Ends == pc' = "idle" /\ now' = 0 /\ list' = Nothing /\ fresh' = {}

Update ==
  /\ pc = "idle" /\ pc' = "request"
  /\ \E s \in Skews : now' = clock + s
  /\ UNCHANGED <<portnetVars, cursors, db, list, faults, notes>>

\* There is no end to the window: whatever is published by now is answered.
GetList ==
  /\ pc = "request" /\ pc' = "saving"
  /\ list' = Answer(Start, clock + 1)
  /\ UNCHANGED <<portnetVars, cursors, db, now, faults, notes>>

\* A null list or an error status still counts as a check.
ErrorList ==
  /\ pc = "request" /\ Fault /\ Ends
  /\ portVesselDetailsCheck' = now
  /\ UNCHANGED <<portnetVars, portVesselDetails, since, db, late>>

\* The cursor moves to the present: what came after the answer, but is stamped
\* before that present, has come too late.
NotesLate == late' = late \cup {id \in fresh : published[id] < Floor(now)}

CommitPresent ==   \* mutated: the present is read after the request
  /\ pc = "saving" /\ Ends /\ NotesLate
  /\ db' = Overwrite(db, list)
  /\ portVesselDetails' = clock /\ portVesselDetailsCheck' = clock
  /\ since' = IF since = Null THEN Start ELSE since
  /\ UNCHANGED <<portnetVars, faults>>

Commit ==
  /\ pc = "saving" /\ Ends /\ NotesLate
  /\ db' = Overwrite(db, list)
  /\ portVesselDetails' = now /\ portVesselDetailsCheck' = now
  /\ since' = IF since = Null THEN Start ELSE since
  /\ UNCHANGED <<portnetVars, faults>>

\* The request fails (nothing repeats it), a record cannot be stored, a crash.
Fails == pc # "idle" /\ Fault /\ Ends /\ UNCHANGED <<portnetVars, cursors, db, late>>

Runs == Update \/ GetList \/ Commit

\* A version that is published behind the cursor is late at once.
Passed(t) == portVesselDetails # Null /\ t < Floor(portVesselDetails)
NotesNew ==
  LET new == {id \in Ids : published'[id] # published[id]} IN
  /\ fresh' = IF pc = "saving" THEN fresh \cup new ELSE fresh
  /\ late' = (late \ new) \cup {id \in new : Passed(published'[id])}

Server ==
  /\ Ticks \/ Publishes
  /\ NotesNew
  /\ UNCHANGED <<cursors, db, pc, now, list, faults>>

Next == Runs \/ ErrorList \/ Fails \/ Server

Spec == Init /\ [][Next]_vars

\* Quartz keeps running the job, a run goes on, and time passes.
TimePasses == Ticks /\ UNCHANGED <<cursors, db, pc, now, list, faults, notes>>
FairSpec == Spec /\ WF_vars(Runs) /\ WF_vars(TimePasses)

-----------------------------------------------------------------------------
(* Properties                                                               *)

Timestamps == Int \cup {Null}

\* Types, and a run's list lives no longer than the run.
TypeOK ==
  /\ PortnetTypeOK
  /\ portVesselDetails \in Timestamps /\ portVesselDetailsCheck \in Timestamps
  /\ since \in Timestamps /\ db \in [Ids -> Stamps]
  /\ pc \in {"idle", "request", "saving"} /\ now \in Int
  /\ list \in [Ids -> Stamps] /\ (pc # "saving" => list = Nothing /\ fresh = {})
  /\ faults \in 0..MaxFaults
  /\ fresh \subseteq Ids /\ late \subseteq Ids

\* The next window starts here.
Horizon == IF portVesselDetails = Null THEN Null ELSE Floor(portVesselDetails)

\* No version is missed that was there to be asked for: every one stamped
\* before the next window was saved, unless it became visible only after the
\* answer that should have held it (late).  Rounding, runs that fail, and a present
\* that is read before the request lose nothing.
NoGap ==
  \A id \in Ids :
    Horizon # Null /\ since <= published[id] /\ published[id] < Horizon
      => db[id] = published[id] \/ id \in late

\* The mirror of FeedMirror that the update keeps of the vessel details.
Mirror == INSTANCE FeedMirror WITH
  source <- published, mirror <- db, givenUp <- late, horizon <- Horizon, start <- since,
  MayBeLate <- TRUE

\* The update implements the abstract mirror: what is stored never goes back
\* to an older version, and nothing is given up but what came too late.
KeepsMirror == Mirror!Spec

\* Every version that is not late gets saved once the faults end, and failed
\* runs are made up for.
CatchesUp ==
  \A id \in Ids, t \in 1..MaxClock :
    (published[id] = t /\ since # Null /\ since <= t)
      ~> (published[id] # t \/ db[id] = t \/ id \in late)
=============================================================================

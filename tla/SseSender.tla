----------------------------- MODULE SseSender -----------------------------
(***************************************************************************)
(* Sending of sea state estimations (SseMqttSenderV2.checkNewSseReports):  *)
(* every ten seconds the node that has SSE_LOCK sends the reports created  *)
(* after the cursor "lastUpdated" of its MqttMessageSender.  Each node has *)
(* a cursor of its own, in memory; the reports are in the database, their  *)
(* times are whole seconds.                                                *)
(***************************************************************************)
EXTENDS CachedLock, Integers, Sequences

CONSTANTS
  Reports,
  Second,      (* ticks in a second, even *)
  MaxDelay,    (* a report becomes visible at most this long after its time *)
  MaxClock,    (* bound: the clock stops there *)
  MaxFaults,   (* bound on restarts, failed queries and failed conversions *)
  MaxMoves     (* bound on how often the lock is lost *)

ASSUME SenderAssumption ==
  /\ Second \in Nat \ {0} /\ MaxDelay \in Nat
  /\ MaxClock \in Nat /\ MaxFaults \in Nat /\ MaxMoves \in Nat

VARIABLES
  clock,
  created,      \* time of every report; 0: not in the database yet
  lastUpdated,  \* cursor of every node
  pc,           \* of every node: "idle", "find" (has the lock), "sending"
  features,     \* of every node: what is left of the list it found
  queued,       \* what was given to MqttRelayQueue, in order
  started,      \* when every node started
  handled,      \* history: reports every node took from its lists since then
  late,         \* history: reports saved when one as new was already visible
  faults, moves

node == <<lastUpdated, pc, features, started, handled>>
database == <<created, late>>
vars == <<holder, clock, database, node, queued, faults, moves>>

Floor(t) == t - (t % Second)                                       \* withoutMillis
Rounded(t) == Floor(t + Second \div 2)                             \* TIMESTAMP(0)
Visible == {r \in Reports : created[r] # 0}

\* The constructor sets the cursor to the present.
Init ==
  /\ LockInit /\ clock = Second /\ created = [r \in Reports |-> 0] /\ late = {}
  /\ lastUpdated = [n \in Nodes |-> clock] /\ started = lastUpdated
  /\ pc = [n \in Nodes |-> "idle"] /\ features = [n \in Nodes |-> {}]
  /\ handled = features /\ queued = <<>> /\ faults = 0 /\ moves = 0

-----------------------------------------------------------------------------
(* The lock, the clock, and the service that saves reports.                 *)

Acquires == /\ \E n \in Nodes : AcquireLock(n)
            /\ UNCHANGED <<clock, database, node, queued, faults, moves>>
Loses == /\ LoseLock /\ moves < MaxMoves /\ moves' = moves + 1
         /\ UNCHANGED <<clock, database, node, queued, faults>>

Ticks == /\ clock < MaxClock /\ clock' = clock + 1
         /\ UNCHANGED <<holder, database, node, queued, faults, moves>>

\* One transaction saves the reports of several sites with the same time.
Saves ==
  /\ \E rs \in SUBSET (Reports \ Visible) \ {{}}, t \in (clock - MaxDelay)..clock :
       /\ Rounded(t) > 0
       /\ created' = [r \in Reports |-> IF r \in rs THEN Rounded(t) ELSE created[r]]
       /\ late' = IF \E q \in Visible : created[q] >= Rounded(t) THEN late \cup rs ELSE late
  /\ UNCHANGED <<holder, clock, node, queued, faults, moves>>

-----------------------------------------------------------------------------
(* checkNewSseReports()                                                     *)

Fault == faults < MaxFaults /\ faults' = faults + 1

Checks(n) ==
  /\ pc[n] = "idle" /\ hasLock(n) /\ pc' = [pc EXCEPT ![n] = "find"]
  /\ UNCHANGED <<holder, clock, database, lastUpdated, features, started, handled, queued, faults, moves>>

FindSince(after) ==   \* mutated: created >= after
  {r \in Visible : created[r] >= Floor(after)}
findCreatedAfter(after) == {r \in Visible : created[r] > Floor(after)}

FindsForgetting(n) ==   \* mutated: the list is only sent when it is empty
  /\ pc[n] = "find" /\ pc' = [pc EXCEPT ![n] = "idle"]
  /\ UNCHANGED <<holder, clock, database, lastUpdated, features, started, handled, queued, faults, moves>>

FindsNow(n) ==   \* mutated: an empty list moves the cursor to the present
  /\ pc[n] = "find"
  /\ LET list == findCreatedAfter(lastUpdated[n]) IN
     /\ features' = [features EXCEPT ![n] = list]
     /\ pc' = [pc EXCEPT ![n] = IF list = {} THEN "idle" ELSE "sending"]
     /\ lastUpdated' = [lastUpdated EXCEPT ![n] = IF list = {} THEN clock ELSE @]
  /\ UNCHANGED <<holder, clock, database, started, handled, queued, faults, moves>>

Finds(n) ==
  /\ pc[n] = "find"
  /\ LET list == findCreatedAfter(lastUpdated[n]) IN
     /\ features' = [features EXCEPT ![n] = list]
     /\ pc' = [pc EXCEPT ![n] = IF list = {} THEN "idle" ELSE "sending"]
  /\ UNCHANGED <<holder, clock, database, lastUpdated, started, handled, queued, faults, moves>>

FindFails(n) ==
  /\ pc[n] = "find" /\ Fault /\ pc' = [pc EXCEPT ![n] = "idle"]
  /\ UNCHANGED <<holder, clock, database, lastUpdated, features, started, handled, queued, moves>>

\* sendMqttMessage() of the next report: it is queued if the node has the lock
\* (still) and it can be converted to JSON; the cursor moves in any case.
TakesNext(n, r, cursor) ==
  /\ pc[n] = "sending" /\ r \in features[n]
  /\ features' = [features EXCEPT ![n] = @ \ {r}]
  /\ pc' = [pc EXCEPT ![n] = IF features[n] = {r} THEN "idle" ELSE "sending"]
  /\ lastUpdated' = [lastUpdated EXCEPT ![n] = cursor]
  /\ handled' = [handled EXCEPT ![n] = @ \cup {r}]
  /\ \/ /\ hasLock(n) /\ queued' = Append(queued, [by |-> n, life |-> started[n], report |-> r])
        /\ UNCHANGED faults
     \/ ~hasLock(n) /\ UNCHANGED <<queued, faults>>
     \/ Fault /\ UNCHANGED queued
  /\ UNCHANGED <<holder, clock, database, started, moves>>

SendsAny(n) ==   \* mutated: the list is in no order
  \E r \in features[n] : TakesNext(n, r, Floor(created[r]))
Sends(n) ==
  \E r \in features[n] : /\ \A q \in features[n] : created[r] <= created[q]
                         /\ TakesNext(n, r, Floor(created[r]))

RestartsKeepingList(n) ==   \* mutated: the list survives
  /\ Fault /\ clock > started[n]
  /\ started' = [started EXCEPT ![n] = clock] /\ lastUpdated' = [lastUpdated EXCEPT ![n] = clock]
  /\ pc' = [pc EXCEPT ![n] = "idle"] /\ handled' = [handled EXCEPT ![n] = {}]
  /\ UNCHANGED <<holder, clock, database, features, queued, moves>>

\* A node crashes and starts again; its lock expires later (Loses).
Restarts(n) ==
  /\ Fault /\ clock > started[n]
  /\ started' = [started EXCEPT ![n] = clock] /\ lastUpdated' = [lastUpdated EXCEPT ![n] = clock]
  /\ pc' = [pc EXCEPT ![n] = "idle"]
  /\ features' = [features EXCEPT ![n] = {}] /\ handled' = [handled EXCEPT ![n] = {}]
  /\ UNCHANGED <<holder, clock, database, queued, moves>>

CheckNewSseReports(n) == Checks(n) \/ Finds(n) \/ Sends(n)
Sender == \E n \in Nodes : CheckNewSseReports(n) \/ FindFails(n) \/ Restarts(n)

Next == Acquires \/ Loses \/ Ticks \/ Saves \/ Sender

Spec == Init /\ [][Next]_vars

\* The scheduler repeats the check on every node; a node that keeps the lock
\* therefore gets on.  Nobody owes the cluster a lock or a report.
FairSpec == Spec /\ \A n \in Nodes : WF_vars(CheckNewSseReports(n))

-----------------------------------------------------------------------------
(* Properties                                                               *)

Sending == [by : Nodes, life : Nat, report : Reports]

\* Types, and a list lives no longer than the run that found it.
TypeOK ==
  /\ LockTypeOK /\ clock \in Nat /\ created \in [Reports -> Nat] /\ late \subseteq Reports
  /\ lastUpdated \in [Nodes -> Int] /\ started \in [Nodes -> Nat]
  /\ pc \in [Nodes -> {"idle", "find", "sending"}]
  /\ features \in [Nodes -> SUBSET Reports] /\ handled \in [Nodes -> SUBSET Reports]
  /\ \A n \in Nodes : pc[n] # "sending" => features[n] = {}
  /\ queued \in Seq(Sending)
  /\ faults \in 0..MaxFaults /\ moves \in 0..MaxMoves

\* What a node is responsible for when it has the lock: reports newer than its
\* start, unless one as new had been visible before them.
Due(n, r) == r \in Visible \ late /\ created[r] > Floor(started[n])

\* The cursor of a node never passes a report it is responsible for without
\* handling it, although reports are saved while a list is being sent, several
\* share one second, and the lock may be lost in the middle of a list.
CursorCovers ==
  \A n \in Nodes, r \in Reports :
    Due(n, r) => created[r] > Floor(lastUpdated[n]) \/ r \in features[n] \/ r \in handled[n]

\* As long as a node runs, it sends no report twice ...
NeverTwice ==
  \A i, j \in DOMAIN queued : queued[i] = queued[j] => i = j

\* ... and sends them in the order of their creation.
InOrder ==
  \A i, j \in DOMAIN queued :
    i < j /\ queued[i].by = queued[j].by /\ queued[i].life = queued[j].life
      => created[queued[i].report] <= created[queued[j].report]

\* A node that keeps the lock handles every report it is responsible for.
HandlesDue ==
  \A n \in Nodes, r \in Reports :
    Due(n, r) ~> (r \in handled[n] \/ ~hasLock(n) \/ ~Due(n, r))

\* MqttMessageSender.java:44, "Get lock and keep it to prevent sending on
\* multiple nodes": no report is sent by two nodes.
SentByOneNode ==
  \A i, j \in DOMAIN queued :
    queued[i].report = queued[j].report => queued[i].by = queued[j].by
=============================================================================

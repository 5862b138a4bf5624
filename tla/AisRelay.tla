------------------------------ MODULE AisRelay ------------------------------
(***************************************************************************)
(* What happens to an AIS message after the reader: on every node the      *)
(* thread of AisReaderController decides whether the vessel may be         *)
(* published and calls the listeners; the database listeners collect the   *)
(* newest message of every vessel for writers that run every second; only  *)
(* the node that has AIS_LOCK relays and writes.  Every node reads the     *)
(* whole feed; a message is a record, its number its place in the feed.    *)
(***************************************************************************)
EXTENDS CachedLock, Integers, Sequences

CONSTANTS
  Vessels,
  ClassB,       (* vessels that send class B messages *)
  Fishing,      (* vessels that say they are fishing boats whenever they say *)
  Known,        (* vessels that are in the database, as no fishing boats, at first *)
  CacheTime,    (* cache.allowedMmsis, in ticks *)
  MaxMessages,  (* bound on the length of the feed *)
  MaxClock,     (* bound: the clock stops there *)
  MaxFaults,    (* bound on failed queries, failed saves and restarts *)
  MaxMoves      (* bound on how often the lock is lost *)

\* The cache keeps its set for a while (60000, application-localhost.properties).
ASSUME RelayAssumption ==
  /\ ClassB \subseteq Vessels /\ Fishing \subseteq Vessels /\ Known \subseteq Vessels
  /\ CacheTime \in Nat \ {0} /\ MaxMessages \in Nat /\ MaxClock \in Nat
  /\ MaxFaults \in Nat /\ MaxMoves \in Nat

VARIABLES
  clock,
  feed,        \* what the vessels have sent
  metadata,    \* table vessel_metadata: "fishing", "other" or "none" of every vessel
  location,    \* table vessel_location: number and writer of a message, or NoLocation
  relayed,     \* what was given to MqttRelayQueue: numbers and senders
  at,          \* of every node: the last message taken from the reader's queue
  pc,          \* of every controller: "idle", or the listener that is next
  mmsiAllowed, \* of every node: what was decided of message at[n]
  allowed,     \* of every node: the cached set of allowed vessels
  cachedAt,    \* of every node: when it was cached; Never
  map,         \* of every node: the messageMaps of the database listeners
  wpc,         \* of every writer: "idle", "lock", "save"
  batch,       \* of every writer: the messages removed from its map
  lastAllowed, \* history: when every vessel was last in the database as no fishing boat
  faults, moves

controllers == <<at, pc, mmsiAllowed, allowed, cachedAt>>
writers == <<wpc, batch>>
database == <<metadata, location, lastAllowed>>
bounds == <<faults, moves>>
vars == <<holder, clock, feed, database, relayed, controllers, map, writers, bounds>>

Never == -CacheTime
NoLocation == [number |-> 0, by |-> None]
Tables == {"location", "metadata"}
NoMessages == [v \in Vessels |-> 0]

-----------------------------------------------------------------------------
(* Messages                                                                 *)

\* 1, 2, 3, 9, 18, 19, 27: "position"; 5: "static"; 24A: "name"; 24B: "type".
Message == [vessel : Vessels, kind : {"position", "static", "name", "type"}, fishing : BOOLEAN]

Transmissions ==
  {m \in Message :
     /\ m.kind = "static" => m.vessel \notin ClassB
     /\ m.kind \in {"name", "type"} => m.vessel \in ClassB
     /\ m.kind \in {"static", "type"} => (m.vessel \in Fishing => m.fishing)
     /\ m.kind \in {"position", "name"} => ~m.fishing}

\* The ship type is 0 in a message without one.
getShipType(m) == IF m.kind \in {"static", "type"} /\ m.fishing THEN "fishing" ELSE "other"

\* The table of a message; metadata is only valid with a name, which messages 5
\* and 24A have here (those without are not valid either and change nothing).
Table(m) == IF m.kind = "position" THEN "location" ELSE "metadata"
validate(m) == m.kind # "type"

-----------------------------------------------------------------------------

\* Nodes start together, with nothing read.
Init ==
  /\ LockInit /\ clock = 0 /\ feed = <<>> /\ relayed = {}
  /\ metadata = [v \in Vessels |-> IF v \in Known THEN "other" ELSE "none"]
  /\ location = [v \in Vessels |-> NoLocation]
  /\ lastAllowed = [v \in Vessels |-> IF v \in Known THEN 0 ELSE Never]
  /\ at = [n \in Nodes |-> 0] /\ pc = [n \in Nodes |-> "idle"]
  /\ mmsiAllowed = [n \in Nodes |-> FALSE]
  /\ allowed = [n \in Nodes |-> {}] /\ cachedAt = [n \in Nodes |-> Never]
  /\ map = [n \in Nodes |-> [t \in Tables |-> NoMessages]] /\ batch = map
  /\ wpc = [n \in Nodes |-> [t \in Tables |-> "idle"]]
  /\ faults = 0 /\ moves = 0

Fault == faults < MaxFaults /\ faults' = faults + 1 /\ UNCHANGED moves

(* Lock, clock and vessels                                                  *)

Acquires == /\ \E n \in Nodes : AcquireLock(n)
            /\ UNCHANGED <<clock, feed, database, relayed, controllers, map, writers, bounds>>
Loses == /\ LoseLock /\ moves < MaxMoves /\ moves' = moves + 1
         /\ UNCHANGED <<clock, feed, database, relayed, controllers, map, writers, faults>>

Allowable == {v \in Vessels : metadata[v] = "other"}

Ticks == /\ clock < MaxClock /\ clock' = clock + 1
         /\ lastAllowed' = [v \in Vessels |-> IF v \in Allowable THEN clock + 1 ELSE lastAllowed[v]]
         /\ UNCHANGED <<holder, feed, metadata, location, relayed, controllers, map, writers, bounds>>

Transmits == /\ Len(feed) < MaxMessages /\ \E m \in Transmissions : feed' = Append(feed, m)
             /\ UNCHANGED <<holder, clock, database, relayed, controllers, map, writers, bounds>>

-----------------------------------------------------------------------------
(* The controller: run(), updateMmsiAllowedStatus()                         *)

NextMessage(n) == feed[at[n] + 1]
HasNext(n) == pc[n] = "idle" /\ at[n] < Len(feed)

\* A message that the reader lost, or could not offer to the full queue.
Misses(n) ==
  /\ HasNext(n) /\ at' = [at EXCEPT ![n] = @ + 1]
  /\ UNCHANGED <<holder, clock, feed, database, relayed, pc, mmsiAllowed, allowed, cachedAt, map, writers, bounds>>

Decided(n, isAllowed) ==
  /\ at' = [at EXCEPT ![n] = @ + 1] /\ pc' = [pc EXCEPT ![n] = "database"]
  /\ mmsiAllowed' = [mmsiAllowed EXCEPT ![n] = isAllowed]
  /\ UNCHANGED <<holder, clock, feed, database, relayed, map, writers>>

\* "Only fishing vessels are excluded"
DecidesByType(n) ==
  /\ HasNext(n) /\ NextMessage(n).kind = "static"
  /\ Decided(n, getShipType(NextMessage(n)) # "fishing")
  /\ UNCHANGED <<allowed, cachedAt, bounds>>

CachedForEver(n) == cachedAt[n] # Never   \* mutated: a cache without an expiry policy
Cached(n) == clock < cachedAt[n] + CacheTime

DecidesByCache(n) ==
  /\ HasNext(n) /\ NextMessage(n).kind # "static" /\ Cached(n)
  /\ Decided(n, NextMessage(n).vessel \in allowed[n])
  /\ UNCHANGED <<allowed, cachedAt, bounds>>

FindsAll == {v \in Vessels : metadata[v] # "none"}   \* mutated: fishing boats too
findAllowedMmsis == Allowable

DecidesByQuery(n) ==
  /\ HasNext(n) /\ NextMessage(n).kind # "static" /\ ~Cached(n)
  /\ Decided(n, NextMessage(n).vessel \in findAllowedMmsis)
  /\ allowed' = [allowed EXCEPT ![n] = findAllowedMmsis]
  /\ cachedAt' = [cachedAt EXCEPT ![n] = clock] /\ UNCHANGED bounds

\* The exception is caught; the message is not handled.
QueryFails(n) ==
  /\ HasNext(n) /\ NextMessage(n).kind # "static" /\ ~Cached(n) /\ Fault
  /\ at' = [at EXCEPT ![n] = @ + 1]
  /\ UNCHANGED <<holder, clock, feed, database, relayed, pc, mmsiAllowed, allowed, cachedAt, map, writers>>

AcceptsAll(n, m) == validate(m)   \* mutated: positions of vessels that are not allowed, too
\* VesselLocationDatabaseListener asks whether the vessel is allowed,
\* VesselMetadataDatabaseListener does not.
Accepts(n, m) == validate(m) /\ (mmsiAllowed[n] \/ Table(m) = "metadata")

PutsInBoth(n, m) == [map EXCEPT ![n] = [t \in Tables |-> [@[t] EXCEPT ![m.vessel] = at[n]]]]   \* mutated
Puts(n, m) == [map EXCEPT ![n][Table(m)][m.vessel] = at[n]]

\* receiveMessage() of the database listener of the message's kind.
DatabaseListener(n) ==
  LET m == feed[at[n]] IN
  /\ pc[n] = "database" /\ pc' = [pc EXCEPT ![n] = "relay"]
  /\ map' = IF Accepts(n, m) THEN Puts(n, m) ELSE map
  /\ UNCHANGED <<holder, clock, feed, database, relayed, at, mmsiAllowed, allowed, cachedAt, writers, bounds>>

\* receiveMessage() of the relay listeners; the logging listener follows.
RelayListener(n) ==
  /\ pc[n] = "relay" /\ pc' = [pc EXCEPT ![n] = "idle"]
  /\ relayed' = IF mmsiAllowed[n] /\ hasLock(n) /\ validate(feed[at[n]])
                  THEN relayed \cup {[number |-> at[n], by |-> n]}
                  ELSE relayed
  /\ UNCHANGED <<holder, clock, feed, database, at, mmsiAllowed, allowed, cachedAt, map, writers, bounds>>

Decides(n) == DecidesByType(n) \/ DecidesByCache(n) \/ DecidesByQuery(n)
Controller(n) == Decides(n) \/ DatabaseListener(n) \/ RelayListener(n)

-----------------------------------------------------------------------------
(* persistQueue() of both database listeners                                *)

\* An empty list goes the same way without effect.
RemoveAllMessages(n, t) ==
  /\ wpc[n][t] = "idle" /\ map[n][t] # NoMessages /\ wpc' = [wpc EXCEPT ![n][t] = "lock"]
  /\ batch' = [batch EXCEPT ![n][t] = map[n][t]]
  /\ map' = [map EXCEPT ![n][t] = NoMessages]
  /\ UNCHANGED <<holder, clock, feed, database, relayed, controllers, bounds>>

WriterEnds(n, t) ==
  /\ wpc' = [wpc EXCEPT ![n][t] = "idle"] /\ batch' = [batch EXCEPT ![n][t] = NoMessages]
  /\ UNCHANGED <<holder, clock, feed, relayed, controllers, map>>

HasLock(n, t) ==
  /\ wpc[n][t] = "lock" /\ hasLock(n) /\ wpc' = [wpc EXCEPT ![n][t] = "save"]
  /\ UNCHANGED <<holder, clock, feed, database, relayed, controllers, map, batch, bounds>>
HasNoLock(n, t) ==
  /\ wpc[n][t] = "lock" /\ ~hasLock(n)
  /\ WriterEnds(n, t) /\ UNCHANGED <<database, bounds>>

InsertLocations(n) ==   \* mutated: only what has no row yet
  /\ wpc[n]["location"] = "save" /\ WriterEnds(n, "location")
  /\ location' = [v \in Vessels |-> IF batch[n]["location"][v] # 0 /\ location[v] = NoLocation
                                      THEN [number |-> batch[n]["location"][v], by |-> n]
                                      ELSE location[v]]
  /\ UNCHANGED <<metadata, lastAllowed, bounds>>
SaveLocations(n) ==
  /\ wpc[n]["location"] = "save" /\ WriterEnds(n, "location")
  /\ location' = [v \in Vessels |-> IF batch[n]["location"][v] # 0
                                      THEN [number |-> batch[n]["location"][v], by |-> n]
                                      ELSE location[v]]
  /\ UNCHANGED <<metadata, lastAllowed, bounds>>

SaveVessels(n) ==
  /\ wpc[n]["metadata"] = "save" /\ WriterEnds(n, "metadata")
  /\ LET numbers == batch[n]["metadata"] IN
     /\ metadata' = [v \in Vessels |-> IF numbers[v] # 0 THEN getShipType(feed[numbers[v]])
                                                         ELSE metadata[v]]
     /\ lastAllowed' = [v \in Vessels |-> IF numbers[v] # 0 /\ getShipType(feed[numbers[v]]) = "other"
                                            THEN clock ELSE lastAllowed[v]]
  /\ UNCHANGED <<location, bounds>>

SaveFails(n, t) ==
  /\ wpc[n][t] = "save" /\ Fault /\ WriterEnds(n, t) /\ UNCHANGED database

Writer(n, t) ==
  \/ RemoveAllMessages(n, t) \/ HasLock(n, t) \/ HasNoLock(n, t)
  \/ t = "location" /\ SaveLocations(n)
  \/ t = "metadata" /\ SaveVessels(n)

-----------------------------------------------------------------------------

RestartsAt(n, i) ==
  /\ Fault /\ at' = [at EXCEPT ![n] = i]
  /\ pc' = [pc EXCEPT ![n] = "idle"] /\ mmsiAllowed' = [mmsiAllowed EXCEPT ![n] = FALSE]
  /\ allowed' = [allowed EXCEPT ![n] = {}] /\ cachedAt' = [cachedAt EXCEPT ![n] = Never]
  /\ map' = [map EXCEPT ![n] = [t \in Tables |-> NoMessages]]
  /\ batch' = [batch EXCEPT ![n] = [t \in Tables |-> NoMessages]]
  /\ wpc' = [wpc EXCEPT ![n] = [t \in Tables |-> "idle"]]
  /\ UNCHANGED <<holder, clock, feed, database, relayed>>

RestartsBefore(n) == RestartsAt(n, 0)   \* mutated: it reads the feed from its start
\* A node crashes and starts again with the feed as it is then.
Restarts(n) == RestartsAt(n, Len(feed))

Node(n) == \/ Misses(n) \/ Controller(n) \/ QueryFails(n) \/ Restarts(n)
           \/ \E t \in Tables : Writer(n, t) \/ SaveFails(n, t)

Next == Acquires \/ Loses \/ Ticks \/ Transmits \/ \E n \in Nodes : Node(n)

Spec == Init /\ [][Next]_vars

\* The controller's thread runs, and the scheduler repeats persistQueue().
FairSpec == Spec /\ \A n \in Nodes : /\ WF_vars(Controller(n))
                                     /\ \A t \in Tables : WF_vars(Writer(n, t))

-----------------------------------------------------------------------------
(* Properties                                                               *)

Numbers == 0..MaxMessages

HeldRight ==
  \A n \in Nodes, t \in Tables, v \in Vessels :
    \A i \in {map[n][t][v], batch[n][t][v]} \ {0} :
      i <= at[n] /\ feed[i].vessel = v /\ Table(feed[i]) = t

\* Types, and what maps and batches hold are messages of their table.
TypeOK ==
  /\ LockTypeOK /\ clock \in 0..MaxClock
  /\ feed \in Seq(Transmissions) /\ Len(feed) <= MaxMessages
  /\ metadata \in [Vessels -> {"none", "fishing", "other"}]
  /\ location \in [Vessels -> [number : Numbers, by : Nodes \cup {None}]]
  /\ relayed \subseteq [number : Numbers \ {0}, by : Nodes]
  /\ at \in [Nodes -> Numbers] /\ pc \in [Nodes -> {"idle", "database", "relay"}]
  /\ \A n \in Nodes : at[n] <= Len(feed) /\ (pc[n] # "idle" => at[n] > 0)
  /\ mmsiAllowed \in [Nodes -> BOOLEAN] /\ allowed \in [Nodes -> SUBSET Vessels]
  /\ cachedAt \in [Nodes -> Int] /\ lastAllowed \in [Vessels -> Int]
  /\ wpc \in [Nodes -> [Tables -> {"idle", "lock", "save"}]]
  /\ map \in [Nodes -> [Tables -> [Vessels -> Numbers]]]
  /\ batch \in [Nodes -> [Tables -> [Vessels -> Numbers]]]
  /\ HeldRight
  /\ faults \in 0..MaxFaults /\ moves \in 0..MaxMoves

\* A vessel of class A that only ever says it is a fishing boat, and is not in
\* the database as something else, is neither relayed nor located, whatever
\* nodes, caches, failovers and other vessels do.
FishingHidden ==
  \A v \in Fishing \ (ClassB \cup Known) :
    /\ location[v] = NoLocation
    /\ \A r \in relayed : feed[r.number].vessel # v

\* A vessel with a location has metadata: positions are only accepted of
\* vessels that are in the database.
LocatedIsKnown == \A v \in Vessels : location[v] # NoLocation => metadata[v] # "none"

\* A decision is at most CacheTime behind the database.
DecidesFreshly ==
  [][\A n \in Nodes :
       Decides(n) /\ mmsiAllowed'[n] /\ NextMessage(n).kind # "static"
         => clock < lastAllowed[NextMessage(n).vessel] + CacheTime]_vars

\* No node replaces a location of its own by an older one.
NodeStoresInOrder ==
  [][\A v \in Vessels :
       location'[v].by = location[v].by => location'[v].number >= location[v].number]_vars

\* A position accepted by a node that keeps the lock gets stored, or a newer
\* one of the vessel (as long as nothing fails).
HolderStores ==
  \A n \in Nodes, v \in Vessels, i \in 1..MaxMessages :
    map[n]["location"][v] = i /\ faults = MaxFaults
      ~> \/ location[v].by = n /\ location[v].number >= i
         \/ ~hasLock(n)

\* AisReaderController.java:101, "For default all class B messages are ignored
\* unless mmsi is added to allowed list": what nobody put into the database is
\* not relayed.
ClassBIgnored ==
  \A v \in ClassB \ Known : \A r \in relayed : feed[r.number].vessel # v
=============================================================================

-------------------------- MODULE AisRelay_proofs --------------------------
(***************************************************************************)
(* Which vessels the AIS relay publishes, how old its decisions may be,    *)
(* and the order in which a node stores: proofs for any nodes, vessels,    *)
(* feed and cache time.                                                    *)
(***************************************************************************)
EXTENDS AisRelay, TLAPS

USE RelayAssumption, LockAssumption

LEMMA TablesDistinct == "location" \in Tables /\ "metadata" \in Tables
  BY DEF Tables

LEMMA TransmissionFields ==
  ASSUME NEW m \in Transmissions
  PROVE  /\ m \in Message /\ m.vessel \in Vessels /\ Table(m) \in Tables
         /\ getShipType(m) \in {"fishing", "other"}
  BY DEF Transmissions, Message, Table, Tables, getShipType

LEMMA FeedTyped ==
  ASSUME TypeOK, NEW i \in 1..Len(feed)
  PROVE  feed[i] \in Transmissions
<1>1. feed \in Seq(Transmissions)
  BY DEF TypeOK
<1> QED BY <1>1

LEMMA NextTyped ==
  ASSUME TypeOK, NEW n \in Nodes, HasNext(n)
  PROVE  /\ at[n] + 1 \in 1..Len(feed) /\ at[n] + 1 \in Numbers
         /\ NextMessage(n) \in Transmissions
<1>1. at[n] \in Numbers /\ at[n] < Len(feed) /\ Len(feed) \in Nat /\ Len(feed) <= MaxMessages
  <2>1. feed \in Seq(Transmissions) /\ at[n] \in Numbers /\ Len(feed) <= MaxMessages
    BY DEF TypeOK
  <2> QED BY <2>1 DEF HasNext
<1>2. at[n] + 1 \in 1..Len(feed) /\ at[n] + 1 \in Numbers
  BY <1>1 DEF Numbers
<1> QED BY <1>2, FeedTyped DEF NextMessage

LEMMA CurrentTyped ==
  ASSUME TypeOK, NEW n \in Nodes, pc[n] # "idle"
  PROVE  /\ at[n] \in 1..Len(feed) /\ at[n] \in Numbers \ {0} /\ at[n] <= at[n]
         /\ feed[at[n]] \in Transmissions
<1>1. at[n] \in Numbers /\ at[n] <= Len(feed) /\ at[n] > 0
  BY DEF TypeOK
<1>2. Len(feed) \in Nat
  <2>1. feed \in Seq(Transmissions)
    BY DEF TypeOK
  <2> QED BY <2>1
<1>3. at[n] \in 1..Len(feed) /\ at[n] \in Numbers \ {0} /\ at[n] <= at[n]
  BY <1>1, <1>2 DEF Numbers
<1> QED BY <1>3, FeedTyped

-----------------------------------------------------------------------------
(* Types                                                                    *)

LEMMA InitTypes == Init => TypeOK
<1> SUFFICES ASSUME Init PROVE TypeOK
  OBVIOUS
<1>1. HeldRight
  BY DEF Init, HeldRight, NoMessages
<1>2. feed \in Seq(Transmissions) /\ Len(feed) <= MaxMessages
  BY DEF Init
<1>3. map \in [Nodes -> [Tables -> [Vessels -> Numbers]]] /\ batch \in [Nodes -> [Tables -> [Vessels -> Numbers]]]
  BY DEF Init, NoMessages, Numbers
<1> QED BY <1>1, <1>2, <1>3 DEF Init, TypeOK, LockInit, LockTypeOK, NoLocation, Numbers, Never

\* A step that leaves feed, maps and batches alone and does not move backwards.
LEMMA HeldKept ==
  ASSUME HeldRight, UNCHANGED <<feed, map, batch>>,
         \A n \in Nodes : at[n] \in Int /\ at'[n] \in Int /\ at'[n] >= at[n],
         map \in [Nodes -> [Tables -> [Vessels -> Numbers]]],
         batch \in [Nodes -> [Tables -> [Vessels -> Numbers]]]
  PROVE  HeldRight'
  BY DEF HeldRight, Numbers

LEMMA DecidedTypes ==
  ASSUME TypeOK, NEW n \in Nodes, HasNext(n), NEW b \in BOOLEAN, Decided(n, b),
         allowed' \in [Nodes -> SUBSET Vessels], cachedAt' \in [Nodes -> Int], UNCHANGED bounds
  PROVE  TypeOK'
<1>1. at' = [at EXCEPT ![n] = @ + 1] /\ pc' = [pc EXCEPT ![n] = "database"]
  BY DEF Decided
<1>2. at' \in [Nodes -> Numbers] /\ pc' \in [Nodes -> {"idle", "database", "relay"}]
  BY <1>1, NextTyped DEF TypeOK
<1>3. \A k \in Nodes : at'[k] <= Len(feed') /\ (pc'[k] # "idle" => at'[k] > 0)
  BY <1>1, NextTyped DEF TypeOK, Decided
<1>4. HeldRight'
  <2>1. \A k \in Nodes : at[k] \in Int /\ at'[k] \in Int /\ at'[k] >= at[k]
    BY <1>1 DEF TypeOK, Numbers
  <2> QED BY <2>1, HeldKept DEF TypeOK, Decided, writers
<1>5. mmsiAllowed' \in [Nodes -> BOOLEAN]
  BY DEF TypeOK, Decided
<1> QED BY <1>2, <1>3, <1>4, <1>5 DEF TypeOK, Decided, database, writers, bounds, LockTypeOK

\* What the database listener does to the maps.
LEMMA ListenerMaps ==
  ASSUME TypeOK, NEW n \in Nodes, DatabaseListener(n)
  PROVE  /\ map' \in [Nodes -> [Tables -> [Vessels -> Numbers]]]
         /\ \A k \in Nodes, t \in Tables, v \in Vessels :
              \/ map'[k][t][v] = map[k][t][v]
              \/ /\ k = n /\ map'[k][t][v] = at[n]
                 /\ feed[at[n]].vessel = v /\ Table(feed[at[n]]) = t
                 /\ mmsiAllowed[n] \/ t = "metadata"
<1> DEFINE m == feed[at[n]]
<1>1. /\ at[n] \in Numbers /\ m.vessel \in Vessels /\ Table(m) \in Tables
  BY CurrentTyped, TransmissionFields DEF DatabaseListener, Accepts, Puts
<1>2. map \in [Nodes -> [Tables -> [Vessels -> Numbers]]]
  BY DEF TypeOK
<1>3. \/ /\ map' = [map EXCEPT ![n][Table(m)][m.vessel] = at[n]]
         /\ mmsiAllowed[n] \/ Table(m) = "metadata"
      \/ map' = map
  BY DEF DatabaseListener, Accepts, Puts
<1> HIDE DEF m
<1>4. CASE map' = map
  BY <1>2, <1>4
<1>5. CASE /\ map' = [map EXCEPT ![n][Table(m)][m.vessel] = at[n]]
           /\ mmsiAllowed[n] \/ Table(m) = "metadata"
  BY <1>1, <1>2, <1>5 DEF m
<1> QED BY <1>3, <1>4, <1>5

LEMMA RelaysTypes ==
  ASSUME TypeOK, NEW n \in Nodes, RelayListener(n)
  PROVE  /\ relayed' \subseteq [number : Numbers \ {0}, by : Nodes]
         /\ \A r \in relayed' : \/ r \in relayed
                                \/ /\ r = [number |-> at[n], by |-> n]
                                   /\ mmsiAllowed[n] /\ pc[n] = "relay"
<1>1. at[n] \in Numbers \ {0}
  BY CurrentTyped DEF RelayListener
<1>2. relayed \subseteq [number : Numbers \ {0}, by : Nodes]
  BY DEF TypeOK
<1> QED BY <1>1, <1>2 DEF RelayListener

\* Writers shrink the maps and the batches, or move messages from one to the other.
LEMMA WriterMaps ==
  ASSUME TypeOK, NEW n \in Nodes, NEW t \in Tables, Writer(n, t) \/ SaveFails(n, t)
  PROVE  /\ map' \in [Nodes -> [Tables -> [Vessels -> Numbers]]]
         /\ batch' \in [Nodes -> [Tables -> [Vessels -> Numbers]]]
         /\ wpc' \in [Nodes -> [Tables -> {"idle", "lock", "save"}]]
         /\ \A k \in Nodes, u \in Tables, v \in Vessels :
              /\ map'[k][u][v] \in {0, map[k][u][v]}
              /\ batch'[k][u][v] \in {0, map[k][u][v], batch[k][u][v]}
         /\ UNCHANGED <<holder, clock, feed, relayed, controllers>>
<1>1. /\ map \in [Nodes -> [Tables -> [Vessels -> Numbers]]]
      /\ batch \in [Nodes -> [Tables -> [Vessels -> Numbers]]]
      /\ wpc \in [Nodes -> [Tables -> {"idle", "lock", "save"}]]
      /\ NoMessages \in [Vessels -> Numbers] /\ \A v \in Vessels : NoMessages[v] = 0
  BY DEF TypeOK, NoMessages, Numbers
<1>2. CASE RemoveAllMessages(n, t)
  BY <1>1, <1>2 DEF RemoveAllMessages
<1>3. CASE HasLock(n, t)
  BY <1>1, <1>3 DEF HasLock
<1>4. ASSUME NEW u \in Tables, WriterEnds(n, u)
      PROVE  /\ map' = map /\ batch' \in [Nodes -> [Tables -> [Vessels -> Numbers]]]
             /\ wpc' \in [Nodes -> [Tables -> {"idle", "lock", "save"}]]
             /\ \A k \in Nodes, w \in Tables, v \in Vessels : batch'[k][w][v] \in {0, batch[k][w][v]}
             /\ UNCHANGED <<holder, clock, feed, relayed, controllers>>
  BY <1>1, <1>4 DEF WriterEnds
<1>5. WriterEnds(n, "location") \/ WriterEnds(n, "metadata") \/ WriterEnds(n, t) \/ RemoveAllMessages(n, t) \/ HasLock(n, t)
  BY DEF Writer, HasNoLock, SaveLocations, SaveVessels, SaveFails
<1>6. CASE \E u \in Tables : WriterEnds(n, u)
  <2>1. PICK u \in Tables : WriterEnds(n, u)
    BY <1>6
  <2> QED BY <1>1, <1>4, <2>1
<1> QED BY <1>2, <1>3, <1>5, <1>6, TablesDistinct

LEMMA WriterTypes ==
  ASSUME TypeOK, NEW n \in Nodes, NEW t \in Tables, Writer(n, t) \/ SaveFails(n, t)
  PROVE  TypeOK'
<1>1. HeldRight'
  <2>1. \A k \in Nodes, u \in Tables, v \in Vessels :
          /\ map'[k][u][v] \in {0, map[k][u][v]}
          /\ batch'[k][u][v] \in {0, map[k][u][v], batch[k][u][v]}
    BY WriterMaps
  <2>2. UNCHANGED <<feed, at>>
    BY WriterMaps DEF controllers
  <2> QED BY <2>1, <2>2 DEF TypeOK, HeldRight
<1>2. faults' \in 0..MaxFaults /\ moves' \in 0..MaxMoves
  BY DEF TypeOK, Writer, RemoveAllMessages, HasLock, HasNoLock, SaveLocations, SaveVessels, SaveFails, Fault, bounds
<1>3. location' \in [Vessels -> [number : Numbers, by : Nodes \cup {None}]]
  <2>1. CASE SaveLocations(n)
    <3>1. \A v \in Vessels : batch[n]["location"][v] \in Numbers
      BY TablesDistinct DEF TypeOK
    <3> QED BY <2>1, <3>1 DEF TypeOK, SaveLocations
  <2>2. CASE location' = location
    BY <2>2 DEF TypeOK
  <2> QED BY <2>1, <2>2 DEF Writer, RemoveAllMessages, HasLock, HasNoLock, SaveVessels, SaveFails, database
<1>4. metadata' \in [Vessels -> {"none", "fishing", "other"}] /\ lastAllowed' \in [Vessels -> Int]
  <2>1. CASE SaveVessels(n)
    <3>1. \A v \in Vessels : getShipType(feed[batch[n]["metadata"][v]]) \in {"fishing", "other"}
      BY DEF getShipType
    <3> QED BY <2>1, <3>1 DEF TypeOK, SaveVessels
  <2>2. CASE UNCHANGED <<metadata, lastAllowed>>
    BY <2>2 DEF TypeOK
  <2> QED BY <2>1, <2>2 DEF Writer, RemoveAllMessages, HasLock, HasNoLock, SaveLocations, SaveFails, database
<1> QED BY <1>1, <1>2, <1>3, <1>4, WriterMaps DEF TypeOK, LockTypeOK, controllers

LEMMA RestartTypes ==
  ASSUME TypeOK, NEW n \in Nodes, Restarts(n)
  PROVE  TypeOK'
<1> USE DEF Restarts, RestartsAt
<1>1. feed \in Seq(Transmissions) /\ Len(feed) \in Numbers /\ Len(feed) <= Len(feed)
  <2>1. feed \in Seq(Transmissions) /\ Len(feed) <= MaxMessages
    BY DEF TypeOK
  <2> QED BY <2>1 DEF Numbers
<1>2. at' \in [Nodes -> Numbers] /\ pc' \in [Nodes -> {"idle", "database", "relay"}]
  BY <1>1 DEF TypeOK
<1>3. \A k \in Nodes : at'[k] <= Len(feed') /\ (pc'[k] # "idle" => at'[k] > 0)
  BY <1>1 DEF TypeOK
<1>4. /\ map' \in [Nodes -> [Tables -> [Vessels -> Numbers]]] /\ batch' \in [Nodes -> [Tables -> [Vessels -> Numbers]]]
      /\ wpc' \in [Nodes -> [Tables -> {"idle", "lock", "save"}]]
  <2>1. NoMessages \in [Vessels -> Numbers]
    BY DEF NoMessages, Numbers
  <2> QED BY <2>1 DEF TypeOK
<1>5. HeldRight'
  <2>1. SUFFICES ASSUME NEW k \in Nodes, NEW t \in Tables, NEW v \in Vessels,
                        NEW i \in {map'[k][t][v], batch'[k][t][v]} \ {0}
                 PROVE  i <= at'[k] /\ feed'[i].vessel = v /\ Table(feed'[i]) = t
    BY DEF HeldRight
  <2>2. k # n
    BY <2>1 DEF TypeOK, NoMessages
  <2>3. map'[k] = map[k] /\ batch'[k] = batch[k] /\ at'[k] = at[k]
    BY <2>2 DEF TypeOK
  <2> QED BY <2>1, <2>3 DEF TypeOK, HeldRight
<1>6. cachedAt' \in [Nodes -> Int] /\ allowed' \in [Nodes -> SUBSET Vessels] /\ mmsiAllowed' \in [Nodes -> BOOLEAN]
  BY DEF TypeOK, Never
<1>7. faults' \in 0..MaxFaults /\ moves' \in 0..MaxMoves
  BY DEF TypeOK, Fault
<1> QED BY <1>2, <1>3, <1>4, <1>5, <1>6, <1>7 DEF TypeOK, LockTypeOK, database

LEMMA TransmitTypes ==
  ASSUME TypeOK, Transmits
  PROVE  TypeOK' /\ Len(feed') = Len(feed) + 1 /\ \A i \in 1..Len(feed) : feed'[i] = feed[i]
<1>1. PICK m \in Transmissions : feed' = Append(feed, m)
  BY DEF Transmits
<1>2. feed \in Seq(Transmissions) /\ Len(feed) < MaxMessages
  BY DEF TypeOK, Transmits
<1>3. /\ feed' \in Seq(Transmissions) /\ Len(feed') = Len(feed) + 1 /\ Len(feed) \in Nat
      /\ \A i \in 1..Len(feed) : feed'[i] = feed[i]
  BY <1>1, <1>2
<1>4. HeldRight'
  <2>1. UNCHANGED <<at, map, batch>>
    BY DEF Transmits, writers, controllers
  <2>2. ASSUME NEW k \in Nodes, NEW t \in Tables, NEW v \in Vessels,
               NEW i \in {map[k][t][v], batch[k][t][v]} \ {0}
        PROVE  i <= at[k] /\ feed'[i].vessel = v /\ Table(feed'[i]) = t
    <3>1. i <= at[k] /\ feed[i].vessel = v /\ Table(feed[i]) = t /\ at[k] <= Len(feed) /\ at[k] \in Numbers
      BY DEF TypeOK, HeldRight
    <3>2. i \in Numbers \ {0}
      BY DEF TypeOK
    <3>3. i \in 1..Len(feed)
      BY <1>3, <3>1, <3>2 DEF Numbers
    <3> QED BY <1>3, <3>1, <3>3
  <2>3. \A k \in Nodes, t \in Tables, v \in Vessels : \A i \in {map[k][t][v], batch[k][t][v]} \ {0} :
          i <= at[k] /\ feed'[i].vessel = v /\ Table(feed'[i]) = t
    BY <2>2
  <2> HIDE DEF Table
  <2> QED BY <2>1, <2>3 DEF HeldRight
<1>5. \A n \in Nodes : at[n] <= Len(feed') /\ (pc[n] # "idle" => at[n] > 0)
  BY <1>3 DEF TypeOK, Numbers
<1> QED BY <1>2, <1>3, <1>4, <1>5 DEF TypeOK, Transmits, database, controllers, writers, bounds, LockTypeOK

LEMMA ControllerTypes ==
  ASSUME TypeOK, NEW n \in Nodes, Misses(n) \/ Controller(n) \/ QueryFails(n)
  PROVE  TypeOK'
<1>1. CASE Misses(n) \/ QueryFails(n)
  <2>1. /\ HasNext(n) /\ at' = [at EXCEPT ![n] = @ + 1]
        /\ UNCHANGED <<holder, clock, feed, database, relayed, pc, mmsiAllowed, allowed, cachedAt, map, writers, moves>>
    BY <1>1 DEF Misses, QueryFails, Fault, bounds
  <2>2. at' \in [Nodes -> Numbers]
    BY <2>1, NextTyped DEF TypeOK
  <2>3. \A k \in Nodes : at'[k] <= Len(feed') /\ (pc'[k] # "idle" => at'[k] > 0)
    BY <2>1, NextTyped DEF TypeOK, HasNext
  <2>4. HeldRight'
    <3>1. \A k \in Nodes : at[k] \in Int /\ at'[k] \in Int /\ at'[k] >= at[k]
      BY <2>1 DEF TypeOK, Numbers
    <3> QED BY <2>1, <3>1, HeldKept DEF TypeOK, writers
  <2>5. faults' \in 0..MaxFaults
    BY <1>1 DEF TypeOK, Misses, QueryFails, Fault, bounds
  <2> QED BY <2>1, <2>2, <2>3, <2>4, <2>5 DEF TypeOK, LockTypeOK, database, writers
<1>2. CASE DecidesByType(n)
  <2>1. (getShipType(NextMessage(n)) # "fishing") \in BOOLEAN
    OBVIOUS
  <2> QED BY <1>2, <2>1, DecidedTypes DEF DecidesByType, TypeOK
<1>3. CASE DecidesByCache(n)
  <2>1. (NextMessage(n).vessel \in allowed[n]) \in BOOLEAN
    OBVIOUS
  <2>2. allowed' \in [Nodes -> SUBSET Vessels] /\ cachedAt' \in [Nodes -> Int]
    BY <1>3 DEF DecidesByCache, TypeOK
  <2> QED BY <1>3, <2>1, <2>2, DecidedTypes DEF DecidesByCache
<1>4. CASE DecidesByQuery(n)
  <2>1. allowed' \in [Nodes -> SUBSET Vessels]
    BY <1>4 DEF DecidesByQuery, TypeOK, findAllowedMmsis, Allowable
  <2>2. cachedAt' \in [Nodes -> Int]
    BY <1>4 DEF DecidesByQuery, TypeOK
  <2>3. (NextMessage(n).vessel \in findAllowedMmsis) \in BOOLEAN
    OBVIOUS
  <2> QED BY <1>4, <2>1, <2>2, <2>3, DecidedTypes DEF DecidesByQuery
<1>5. CASE DatabaseListener(n)
  <2>1. HeldRight'
    <3>1. SUFFICES ASSUME NEW k \in Nodes, NEW t \in Tables, NEW v \in Vessels,
                          NEW i \in {map'[k][t][v], batch[k][t][v]} \ {0}
                   PROVE  i <= at[k] /\ feed[i].vessel = v /\ Table(feed[i]) = t
      BY <1>5 DEF HeldRight, DatabaseListener, Accepts, Puts, writers
    <3>2. CASE i \in {map[k][t][v], batch[k][t][v]}
      BY <3>1, <3>2 DEF TypeOK, HeldRight
    <3>3. CASE k = n /\ i = at[n] /\ feed[at[n]].vessel = v /\ Table(feed[at[n]]) = t
      BY <1>5, <3>3, CurrentTyped DEF DatabaseListener, Accepts, Puts
    <3> QED BY <1>5, <3>1, <3>2, <3>3, ListenerMaps
  <2>2. pc' \in [Nodes -> {"idle", "database", "relay"}] /\ \A k \in Nodes : pc'[k] # "idle" => at[k] > 0
    BY <1>5 DEF DatabaseListener, Accepts, Puts, TypeOK
  <2> QED BY <1>5, <2>1, <2>2, ListenerMaps DEF TypeOK, DatabaseListener, Accepts, Puts, LockTypeOK, database, writers, bounds
<1>6. CASE RelayListener(n)
  <2>1. HeldRight'
    BY <1>6 DEF TypeOK, HeldRight, RelayListener, writers
  <2>2. pc' \in [Nodes -> {"idle", "database", "relay"}] /\ \A k \in Nodes : pc'[k] # "idle" => at[k] > 0
    BY <1>6 DEF RelayListener, TypeOK
  <2> QED BY <1>6, <2>1, <2>2, RelaysTypes DEF TypeOK, RelayListener, LockTypeOK, database, writers, bounds
<1> QED BY <1>1, <1>2, <1>3, <1>4, <1>5, <1>6 DEF Controller, Decides

LEMMA NextTypes ==
  ASSUME TypeOK, [Next]_vars
  PROVE  TypeOK'
<1>1. CASE Acquires
  BY <1>1 DEF Acquires, AcquireLock, TypeOK, HeldRight, LockTypeOK, database, controllers, writers, bounds
<1>2. CASE Loses
  BY <1>2 DEF Loses, LoseLock, TypeOK, HeldRight, LockTypeOK, database, controllers, writers
<1>3. CASE Ticks
  BY <1>3 DEF Ticks, TypeOK, HeldRight, LockTypeOK, controllers, writers, bounds
<1>4. CASE UNCHANGED vars
  BY <1>4 DEF vars, TypeOK, HeldRight, LockTypeOK, database, controllers, writers, bounds
<1> QED
  BY <1>1, <1>2, <1>3, <1>4, TransmitTypes, ControllerTypes, WriterTypes, RestartTypes DEF Next, Node

\* Maps and batches hold messages of their vessel and their table that the node
\* has taken, and all variables keep their domains.
THEOREM TypeCorrect == Spec => []TypeOK
  BY InitTypes, NextTypes, PTL DEF Spec

-----------------------------------------------------------------------------
(* Who is published.                                                        *)

\* Vessels of class A that only say they are fishing boats.
Hidden == Fishing \ (ClassB \cup Known)

\* A vessel nothing may be published of: a hidden one, or one without metadata.
Closed(v) == v \in Hidden \/ metadata[v] = "none"

\* Nothing of the vessel is on its way to the table of locations.
Unpublished(v) ==
  /\ location[v] = NoLocation
  /\ \A n \in Nodes :
       /\ v \notin allowed[n]
       /\ map[n]["location"][v] = 0 /\ batch[n]["location"][v] = 0
       /\ pc[n] # "idle" /\ feed[at[n]].vessel = v /\ mmsiAllowed[n] => Table(feed[at[n]]) = "metadata"

ClosedUnpublished == \A v \in Vessels : Closed(v) => metadata[v] # "other" /\ Unpublished(v)

HiddenNotRelayed ==
  \A v \in Hidden :
    /\ \A n \in Nodes : pc[n] # "idle" /\ feed[at[n]].vessel = v => ~mmsiAllowed[n]
    /\ \A r \in relayed : feed[r.number].vessel # v

RelayedInFeed == \A r \in relayed : r.number \in 1..Len(feed)

PubInv == TypeOK /\ ClosedUnpublished /\ HiddenNotRelayed /\ RelayedInFeed

LEMMA InitPub == Init => PubInv
<1> SUFFICES ASSUME Init PROVE PubInv
  OBVIOUS
<1>1. \A v \in Vessels : Closed(v) => metadata[v] # "other"
  BY DEF Init, Closed, Hidden
<1>2. \A v \in Vessels : Unpublished(v)
  BY TablesDistinct DEF Init, Unpublished, NoMessages
<1>3. HiddenNotRelayed /\ RelayedInFeed
  BY DEF Init, HiddenNotRelayed, RelayedInFeed
<1> QED BY <1>1, <1>2, <1>3, InitTypes DEF PubInv, ClosedUnpublished

LEMMA HiddenSaysFishing ==
  ASSUME NEW m \in Transmissions, m.vessel \in Hidden, Table(m) = "metadata"
  PROVE  m.kind = "static" /\ getShipType(m) = "fishing"
  BY DEF Transmissions, Message, Hidden, Table, getShipType

\* A step that only moves lock, clock or one controller without a decision.
LEMMA PubKept ==
  ASSUME PubInv, TypeOK',
         UNCHANGED <<feed, metadata, location, relayed, mmsiAllowed, allowed, map, batch>>,
         \A n \in Nodes : pc'[n] = "idle" \/ (pc'[n] = pc[n] /\ at'[n] = at[n])
  PROVE  PubInv'
<1> USE DEF PubInv
<1>1. ClosedUnpublished'
  BY DEF ClosedUnpublished, Closed, Unpublished
<1>2. HiddenNotRelayed' /\ RelayedInFeed'
  BY DEF HiddenNotRelayed, RelayedInFeed
<1> QED BY <1>1, <1>2

LEMMA PubKeptByTransmits ==
  ASSUME PubInv, Transmits
  PROVE  PubInv'
<1> USE DEF PubInv
<1>1. /\ TypeOK' /\ Len(feed') = Len(feed) + 1 /\ \A i \in 1..Len(feed) : feed'[i] = feed[i]
  BY TransmitTypes
<1>2. UNCHANGED <<metadata, location, relayed, at, pc, mmsiAllowed, allowed, map, batch>>
  BY DEF Transmits, database, controllers, writers
<1>3. \A n \in Nodes : pc[n] # "idle" => feed'[at[n]] = feed[at[n]]
  BY <1>1, CurrentTyped
<1>4. ClosedUnpublished'
  <2>1. ASSUME NEW v \in Vessels, Closed(v)' PROVE metadata'[v] # "other" /\ Unpublished(v)'
    <3>1. metadata[v] # "other" /\ Unpublished(v)
      BY <1>2, <2>1 DEF Closed, ClosedUnpublished
    <3> HIDE DEF Table
    <3> QED BY <1>2, <1>3, <3>1 DEF Unpublished
  <2> QED BY <2>1 DEF ClosedUnpublished
<1>5. HiddenNotRelayed'
  BY <1>1, <1>2, <1>3 DEF HiddenNotRelayed, RelayedInFeed
<1>6. RelayedInFeed'
  <2>1. Len(feed) \in Nat
    <3>1. feed \in Seq(Transmissions)
      BY DEF TypeOK
    <3> QED BY <3>1
  <2> QED BY <1>1, <1>2, <2>1 DEF RelayedInFeed
<1> QED BY <1>1, <1>4, <1>5, <1>6

\* A decision accepts a position only of a vessel that is in the list, and the
\* list holds no closed vessel.
LEMMA PubKeptByDecides ==
  ASSUME PubInv, TypeOK', NEW n \in Nodes, Decides(n)
  PROVE  PubInv'
<1> USE DEF PubInv
<1> DEFINE m == NextMessage(n)
<1>1. /\ HasNext(n) /\ UNCHANGED <<feed, metadata, location, relayed, map, batch>>
      /\ at' = [at EXCEPT ![n] = @ + 1] /\ pc' = [pc EXCEPT ![n] = "database"]
      /\ \A k \in Nodes : k # n => mmsiAllowed'[k] = mmsiAllowed[k]
  BY DEF Decides, DecidesByType, DecidesByCache, DecidesByQuery, Decided, database, writers, TypeOK
<1>2. /\ m \in Transmissions /\ m = feed'[at'[n]] /\ at'[n] = at[n] + 1 /\ pc'[n] = "database"
      /\ \A k \in Nodes : k # n => at'[k] = at[k] /\ pc'[k] = pc[k]
  BY <1>1, NextTyped DEF TypeOK, NextMessage
<1>3. \A k \in Nodes, v \in Vessels : Closed(v) => v \notin allowed'[k]
  <2>1. ASSUME NEW k \in Nodes, NEW v \in Vessels, Closed(v) PROVE v \notin allowed'[k]
    <3>1. v \notin allowed[k] /\ v \notin Allowable
      BY <2>1 DEF ClosedUnpublished, Unpublished, Allowable
    <3>2. allowed' = allowed \/ allowed' = [allowed EXCEPT ![n] = Allowable]
      BY DEF Decides, DecidesByType, DecidesByCache, DecidesByQuery, findAllowedMmsis
    <3> QED BY <3>1, <3>2 DEF TypeOK
  <2> QED BY <2>1
<1>4. \/ m.kind = "static" /\ (mmsiAllowed'[n] => getShipType(m) # "fishing")
      \/ mmsiAllowed'[n] => m.vessel \in allowed[n] \/ m.vessel \in Allowable
  <2>1. CASE DecidesByType(n)
    BY <2>1 DEF DecidesByType, Decided, TypeOK
  <2>2. CASE DecidesByCache(n)
    BY <2>2 DEF DecidesByCache, Decided, TypeOK
  <2>3. CASE DecidesByQuery(n)
    BY <2>3 DEF DecidesByQuery, Decided, TypeOK, findAllowedMmsis
  <2> QED BY <2>1, <2>2, <2>3 DEF Decides
<1>5. \A v \in Vessels : Closed(v) /\ m.vessel = v /\ mmsiAllowed'[n] => Table(m) = "metadata" /\ v \notin Hidden
  <2>1. ASSUME NEW v \in Vessels, Closed(v), m.vessel = v, mmsiAllowed'[n]
        PROVE  Table(m) = "metadata" /\ v \notin Hidden
    <3>1. v \notin allowed[n] /\ v \notin Allowable
      BY <2>1 DEF ClosedUnpublished, Unpublished, Allowable
    <3>2. m.kind = "static" /\ getShipType(m) # "fishing"
      BY <1>4, <2>1, <3>1
    <3>3. Table(m) = "metadata"
      BY <3>2 DEF Table
    <3> HIDE DEF m
    <3> QED BY <1>2, <2>1, <3>2, <3>3, HiddenSaysFishing
  <2> QED BY <2>1
<1> HIDE DEF m
<1>6. ClosedUnpublished'
  <2>1. ASSUME NEW v \in Vessels, Closed(v)' PROVE metadata'[v] # "other" /\ Unpublished(v)'
    <3>1. Closed(v) /\ metadata[v] # "other" /\ Unpublished(v)
      BY <1>1, <2>1 DEF Closed, ClosedUnpublished
    <3>2. ASSUME NEW k \in Nodes, pc'[k] # "idle", feed'[at'[k]].vessel = v, mmsiAllowed'[k]
          PROVE  Table(feed'[at'[k]]) = "metadata"
      <4>1. CASE k = n
        BY <1>2, <1>5, <3>1, <3>2, <4>1
      <4>2. CASE k # n
        <5>1. feed'[at'[k]] = feed[at[k]] /\ pc[k] # "idle" /\ mmsiAllowed[k]
          BY <1>1, <1>2, <3>2, <4>2
        <5> QED BY <3>1, <3>2, <5>1 DEF Unpublished
      <4> QED BY <4>1, <4>2
    <3> QED BY <1>1, <1>3, <3>1, <3>2 DEF Unpublished
  <2> QED BY <2>1 DEF ClosedUnpublished
<1>7. HiddenNotRelayed'
  <2>1. ASSUME NEW v \in Hidden, NEW k \in Nodes, pc'[k] # "idle", feed'[at'[k]].vessel = v
        PROVE  ~mmsiAllowed'[k]
    <3>1. CASE k = n
      BY <1>2, <1>5, <2>1, <3>1 DEF Closed, Hidden
    <3>2. CASE k # n
      BY <1>1, <1>2, <2>1, <3>2 DEF HiddenNotRelayed
    <3> QED BY <3>1, <3>2
  <2> QED BY <1>1, <2>1 DEF HiddenNotRelayed
<1>8. RelayedInFeed'
  BY <1>1 DEF RelayedInFeed
<1> QED BY <1>6, <1>7, <1>8

LEMMA PubKeptByDatabaseListener ==
  ASSUME PubInv, TypeOK', NEW n \in Nodes, DatabaseListener(n)
  PROVE  PubInv'
<1> USE DEF PubInv
<1>1. /\ UNCHANGED <<feed, metadata, location, relayed, at, mmsiAllowed, allowed, batch>>
      /\ \A k \in Nodes : pc'[k] # "idle" => pc[k] # "idle"
  BY DEF DatabaseListener, Accepts, Puts, database, writers, TypeOK
<1>2. \A k \in Nodes, v \in Vessels : Closed(v) => map'[k]["location"][v] = 0
  <2>1. ASSUME NEW k \in Nodes, NEW v \in Vessels, Closed(v) PROVE map'[k]["location"][v] = 0
    <3>1. Unpublished(v)
      BY <2>1 DEF ClosedUnpublished
    <3>2. \/ map'[k]["location"][v] = map[k]["location"][v]
          \/ /\ feed[at[n]].vessel = v /\ Table(feed[at[n]]) = "location" /\ mmsiAllowed[n]
      BY ListenerMaps, TablesDistinct
    <3>3. pc[n] # "idle"
      BY DEF DatabaseListener, Accepts, Puts
    <3> HIDE DEF Table
    <3> QED BY <3>1, <3>2, <3>3 DEF Unpublished
  <2> QED BY <2>1
<1>3. ClosedUnpublished'
  <2>1. ASSUME NEW v \in Vessels, Closed(v)' PROVE metadata'[v] # "other" /\ Unpublished(v)'
    <3>1. Closed(v) /\ metadata[v] # "other" /\ Unpublished(v)
      BY <1>1, <2>1 DEF Closed, ClosedUnpublished
    <3> QED BY <1>1, <1>2, <3>1 DEF Unpublished
  <2> QED BY <2>1 DEF ClosedUnpublished
<1>4. HiddenNotRelayed' /\ RelayedInFeed'
  BY <1>1 DEF HiddenNotRelayed, RelayedInFeed
<1> QED BY <1>3, <1>4

LEMMA PubKeptByRelayListener ==
  ASSUME PubInv, TypeOK', NEW n \in Nodes, RelayListener(n)
  PROVE  PubInv'
<1> USE DEF PubInv
<1>1. /\ UNCHANGED <<feed, metadata, location, at, mmsiAllowed, allowed, map, batch>>
      /\ \A k \in Nodes : pc'[k] # "idle" => pc[k] # "idle"
  BY DEF RelayListener, database, writers, TypeOK
<1>2. at[n] \in 1..Len(feed) /\ pc[n] # "idle"
  BY CurrentTyped DEF RelayListener
<1>3. ClosedUnpublished'
  <2>1. ASSUME NEW v \in Vessels, Closed(v)' PROVE metadata'[v] # "other" /\ Unpublished(v)'
    <3>1. Closed(v) /\ metadata[v] # "other" /\ Unpublished(v)
      BY <1>1, <2>1 DEF Closed, ClosedUnpublished
    <3> QED BY <1>1, <3>1 DEF Unpublished
  <2> QED BY <2>1 DEF ClosedUnpublished
<1>4. ASSUME NEW r \in relayed'
      PROVE  r.number \in 1..Len(feed') /\ \A v \in Hidden : feed'[r.number].vessel # v
  <2>1. CASE r \in relayed
    BY <1>1, <2>1 DEF HiddenNotRelayed, RelayedInFeed
  <2>2. CASE r = [number |-> at[n], by |-> n] /\ mmsiAllowed[n]
    <3>1. r.number = at[n]
      BY <2>2
    <3> QED BY <1>1, <1>2, <2>2, <3>1 DEF HiddenNotRelayed
  <2> QED BY <2>1, <2>2, RelaysTypes
<1>5. HiddenNotRelayed' /\ RelayedInFeed'
  BY <1>1, <1>4 DEF HiddenNotRelayed, RelayedInFeed
<1> QED BY <1>3, <1>5

\* A save writes locations of open vessels only, and a hidden vessel's metadata
\* says that it is a fishing boat.
LEMMA PubKeptByWriter ==
  ASSUME PubInv, TypeOK', NEW n \in Nodes, NEW t \in Tables, Writer(n, t) \/ SaveFails(n, t)
  PROVE  PubInv'
<1> USE DEF PubInv
<1>1. /\ UNCHANGED <<feed, relayed, at, pc, mmsiAllowed, allowed>>
      /\ \A k \in Nodes, v \in Vessels :
           /\ map'[k]["location"][v] \in {0, map[k]["location"][v]}
           /\ batch'[k]["location"][v] \in {0, map[k]["location"][v], batch[k]["location"][v]}
  BY WriterMaps, TablesDistinct DEF controllers
<1>2. ASSUME NEW v \in Vessels, Closed(v)'
      PROVE  Closed(v) /\ location'[v] = NoLocation /\ metadata'[v] # "other"
  <2>0. Closed(v)
    <3>1. metadata'[v] = metadata[v] \/ metadata'[v] \in {"fishing", "other"}
      BY DEF Writer, RemoveAllMessages, HasLock, HasNoLock, SaveLocations, SaveVessels, SaveFails, database, getShipType
    <3> QED BY <1>2, <3>1 DEF Closed
  <2>1. location[v] = NoLocation /\ metadata[v] # "other" /\ batch[n]["location"][v] = 0
    BY <2>0 DEF ClosedUnpublished, Unpublished
  <2>2. CASE SaveLocations(n)
    BY <2>0, <2>1, <2>2 DEF SaveLocations
  <2>3. CASE SaveVessels(n) /\ v \in Hidden
    <3> DEFINE i == batch[n]["metadata"][v]
    <3>1. metadata'[v] = IF i # 0 THEN getShipType(feed[i]) ELSE metadata[v]
      BY <2>3 DEF SaveVessels
    <3>2. CASE i # 0
      <4>1. i \in Numbers /\ i <= at[n] /\ feed[i].vessel = v /\ Table(feed[i]) = "metadata"
        BY <3>2, TablesDistinct DEF TypeOK, HeldRight
      <4>2. at[n] <= Len(feed) /\ at[n] \in Numbers /\ Len(feed) \in Nat
        <5>1. feed \in Seq(Transmissions) /\ at[n] <= Len(feed) /\ at[n] \in Numbers
          BY DEF TypeOK
        <5> QED BY <5>1
      <4>3. i \in 1..Len(feed)
        BY <3>2, <4>1, <4>2 DEF Numbers
      <4>4. getShipType(feed[i]) = "fishing"
        BY <2>3, <4>1, <4>3, FeedTyped, HiddenSaysFishing
      <4> QED BY <2>0, <2>1, <2>3, <3>1, <3>2, <4>4 DEF SaveVessels
    <3> QED BY <2>0, <2>1, <2>3, <3>1, <3>2 DEF SaveVessels
  <2>4. CASE SaveVessels(n) /\ v \notin Hidden
    <3>1. metadata'[v] = "none"
      BY <1>2, <2>4 DEF Closed
    <3> QED BY <2>0, <2>1, <2>4, <3>1 DEF SaveVessels
  <2>5. CASE UNCHANGED <<location, metadata>>
    BY <2>0, <2>1, <2>5
  <2> QED BY <2>2, <2>3, <2>4, <2>5 DEF Writer, RemoveAllMessages, HasLock, HasNoLock, SaveFails, database
<1>3. ClosedUnpublished'
  <2>1. ASSUME NEW v \in Vessels, Closed(v)' PROVE metadata'[v] # "other" /\ Unpublished(v)'
    <3>1. Closed(v) /\ location'[v] = NoLocation /\ metadata'[v] # "other"
      BY <1>2, <2>1
    <3>2. Unpublished(v)
      BY <3>1 DEF ClosedUnpublished
    <3>3. \A k \in Nodes : map'[k]["location"][v] = 0 /\ batch'[k]["location"][v] = 0
      BY <1>1, <3>2 DEF Unpublished
    <3> QED BY <1>1, <3>1, <3>2, <3>3 DEF Unpublished
  <2> QED BY <2>1 DEF ClosedUnpublished
<1>4. HiddenNotRelayed' /\ RelayedInFeed'
  BY <1>1 DEF HiddenNotRelayed, RelayedInFeed
<1> QED BY <1>3, <1>4

LEMMA PubKeptByRestarts ==
  ASSUME PubInv, TypeOK', NEW n \in Nodes, Restarts(n)
  PROVE  PubInv'
<1> USE DEF PubInv
<1>1. /\ UNCHANGED <<feed, metadata, location, relayed>>
      /\ pc'[n] = "idle" /\ allowed'[n] = {}
      /\ map'[n]["location"] = NoMessages /\ batch'[n]["location"] = NoMessages
      /\ \A k \in Nodes : k # n =>
           /\ at'[k] = at[k] /\ pc'[k] = pc[k] /\ mmsiAllowed'[k] = mmsiAllowed[k]
           /\ allowed'[k] = allowed[k] /\ map'[k] = map[k] /\ batch'[k] = batch[k]
  BY TablesDistinct DEF Restarts, RestartsAt, database, TypeOK
<1>2. ClosedUnpublished'
  <2>1. ASSUME NEW v \in Vessels, Closed(v)' PROVE metadata'[v] # "other" /\ Unpublished(v)'
    <3>1. Closed(v) /\ metadata[v] # "other" /\ Unpublished(v)
      BY <1>1, <2>1 DEF Closed, ClosedUnpublished
    <3>2. ASSUME NEW k \in Nodes
          PROVE  /\ v \notin allowed'[k]
                 /\ map'[k]["location"][v] = 0 /\ batch'[k]["location"][v] = 0
                 /\ pc'[k] # "idle" /\ feed'[at'[k]].vessel = v /\ mmsiAllowed'[k]
                      => Table(feed'[at'[k]]) = "metadata"
      <4>1. CASE k = n
        BY <1>1, <4>1 DEF NoMessages
      <4>2. CASE k # n
        BY <1>1, <3>1, <4>2 DEF Unpublished
      <4> QED BY <4>1, <4>2
    <3> QED BY <1>1, <3>1, <3>2 DEF Unpublished
  <2> QED BY <2>1 DEF ClosedUnpublished
<1>3. HiddenNotRelayed' /\ RelayedInFeed'
  BY <1>1 DEF HiddenNotRelayed, RelayedInFeed
<1> QED BY <1>2, <1>3

LEMMA NextPub ==
  ASSUME PubInv, [Next]_vars
  PROVE  PubInv'
<1>1. TypeOK'
  BY NextTypes DEF PubInv
<1>2. CASE Acquires \/ Loses \/ Ticks \/ UNCHANGED vars
  <2>1. UNCHANGED <<feed, metadata, location, relayed, at, pc, mmsiAllowed, allowed, map, batch>>
    BY <1>2 DEF Acquires, Loses, Ticks, vars, database, controllers, writers
  <2> QED BY <1>1, <2>1, PubKept
<1>3. ASSUME NEW n \in Nodes, Misses(n) \/ QueryFails(n) PROVE PubInv'
  <2>1. /\ UNCHANGED <<feed, metadata, location, relayed, mmsiAllowed, allowed, map, batch>>
        /\ \A k \in Nodes : pc'[k] = "idle" \/ (pc'[k] = pc[k] /\ at'[k] = at[k])
    BY <1>3 DEF Misses, QueryFails, HasNext, database, writers, PubInv, TypeOK
  <2> QED BY <1>1, <2>1, PubKept
<1> QED
  BY <1>1, <1>2, <1>3, PubKeptByTransmits, PubKeptByDecides, PubKeptByDatabaseListener,
     PubKeptByRelayListener, PubKeptByWriter, PubKeptByRestarts
  DEF Next, Node, Controller

LEMMA PubInvariant == Spec => []PubInv
  BY InitPub, NextPub, PTL DEF Spec

\* Whatever the nodes, their caches, the writers and the other vessels do: a
\* vessel of class A that only says it is a fishing boat is not published.
THEOREM FishingBoatsHidden == Spec => []FishingHidden
<1>1. PubInv => FishingHidden
  BY DEF PubInv, ClosedUnpublished, HiddenNotRelayed, Closed, Unpublished, Hidden, FishingHidden
<1> QED BY <1>1, PubInvariant, PTL

\* A vessel gets a location only after its metadata.
THEOREM LocationsHaveMetadata == Spec => []LocatedIsKnown
<1>1. PubInv => LocatedIsKnown
  BY DEF PubInv, ClosedUnpublished, Closed, Unpublished, LocatedIsKnown
<1> QED BY <1>1, PubInvariant, PTL

-----------------------------------------------------------------------------
(* Freshness                                                                *)

\* A vessel that may be published was in the database just now, one of a cached
\* set was in it when the set was cached or later.
FreshInv ==
  /\ \A v \in Vessels : /\ lastAllowed[v] <= clock
                        /\ metadata[v] = "other" => lastAllowed[v] = clock
  /\ \A n \in Nodes : \A v \in allowed[n] : cachedAt[n] <= lastAllowed[v]

LEMMA TimesTyped ==
  ASSUME TypeOK
  PROVE  /\ clock \in Int /\ \A v \in Vessels : lastAllowed[v] \in Int
         /\ \A n \in Nodes : cachedAt[n] \in Int /\ allowed[n] \subseteq Vessels
<1>1. clock \in 0..MaxClock
  BY DEF TypeOK
<1>2. /\ lastAllowed \in [Vessels -> Int] /\ cachedAt \in [Nodes -> Int]
      /\ allowed \in [Nodes -> SUBSET Vessels]
  BY DEF TypeOK
<1> QED BY <1>1, <1>2

LEMMA FreshTimes ==
  ASSUME FreshInv
  PROVE  /\ \A v \in Vessels : lastAllowed[v] <= clock
         /\ \A v \in Allowable : lastAllowed[v] = clock
         /\ \A n \in Nodes : \A v \in allowed[n] : cachedAt[n] <= lastAllowed[v]
  BY DEF FreshInv, Allowable

LEMMA InitFresh == Init => FreshInv
  BY DEF Init, FreshInv, Never

\* A step that lets time and the database go on.
LEMMA FreshKept ==
  ASSUME TypeOK, TypeOK', FreshInv, UNCHANGED <<allowed, cachedAt>>,
         \A v \in Vessels : /\ lastAllowed[v] <= lastAllowed'[v] /\ lastAllowed'[v] <= clock'
                            /\ metadata'[v] = "other" => lastAllowed'[v] = clock'
  PROVE  FreshInv'
<1>1. ASSUME NEW n \in Nodes, NEW v \in allowed[n] PROVE cachedAt[n] <= lastAllowed'[v]
  <2>1. v \in Vessels /\ cachedAt[n] \in Int /\ lastAllowed[v] \in Int
    BY TimesTyped
  <2>2. lastAllowed'[v] \in Int
    BY <2>1 DEF TypeOK
  <2>3. cachedAt[n] <= lastAllowed[v] /\ lastAllowed[v] <= lastAllowed'[v]
    BY <2>1, FreshTimes
  <2> QED BY <2>1, <2>2, <2>3
<1> QED BY <1>1 DEF FreshInv

LEMMA NextFresh ==
  ASSUME TypeOK, FreshInv, [Next]_vars
  PROVE  FreshInv'
<1>1. TypeOK'
  BY NextTypes
<1>2. \A v \in Vessels : lastAllowed[v] \in Int /\ lastAllowed[v] <= clock /\ clock \in Int
  BY TimesTyped, FreshTimes
<1>3. CASE UNCHANGED <<clock, metadata, lastAllowed, allowed, cachedAt>>
  BY <1>3 DEF FreshInv
<1>4. CASE Acquires \/ Loses \/ Transmits \/ UNCHANGED vars
  BY <1>3, <1>4 DEF Acquires, Loses, Transmits, vars, database, controllers
<1>5. CASE Ticks
  <2>1. ASSUME NEW v \in Vessels
        PROVE  /\ lastAllowed[v] <= lastAllowed'[v] /\ lastAllowed'[v] <= clock'
               /\ metadata'[v] = "other" => lastAllowed'[v] = clock'
    <3>1. /\ lastAllowed'[v] = IF metadata[v] = "other" THEN clock + 1 ELSE lastAllowed[v]
          /\ clock' = clock + 1 /\ metadata' = metadata
      BY <1>5 DEF Ticks, Allowable
    <3> QED BY <1>2, <3>1
  <2> QED BY <1>1, <1>5, <2>1, FreshKept DEF Ticks, controllers
<1>6. ASSUME NEW n \in Nodes,
             \/ Misses(n) \/ QueryFails(n) \/ DecidesByType(n) \/ DecidesByCache(n)
             \/ DatabaseListener(n) \/ RelayListener(n)
      PROVE  FreshInv'
  BY <1>3, <1>6
  DEF Misses, QueryFails, DecidesByType, DecidesByCache, Decided, DatabaseListener,
      RelayListener, database
<1>7. ASSUME NEW n \in Nodes, DecidesByQuery(n) PROVE FreshInv'
  <2>1. /\ UNCHANGED <<clock, metadata, lastAllowed>>
        /\ allowed' = [allowed EXCEPT ![n] = Allowable] /\ cachedAt' = [cachedAt EXCEPT ![n] = clock]
    BY <1>7 DEF DecidesByQuery, Decided, database, findAllowedMmsis
  <2>2. ASSUME NEW k \in Nodes, NEW v \in allowed'[k] PROVE cachedAt'[k] <= lastAllowed[v]
    <3>1. CASE k = n
      <4>1. v \in Allowable /\ cachedAt'[k] = clock
        BY <2>1, <2>2, <3>1 DEF TypeOK
      <4> QED BY <1>2, <4>1 DEF Allowable, FreshInv
    <3>2. CASE k # n
      BY <2>1, <2>2, <3>2 DEF TypeOK, FreshInv
    <3> QED BY <3>1, <3>2
  <2> QED BY <2>1, <2>2 DEF FreshInv
<1>8. ASSUME NEW n \in Nodes, NEW t \in Tables, Writer(n, t) \/ SaveFails(n, t) PROVE FreshInv'
  <2>1. UNCHANGED <<clock, allowed, cachedAt>>
    BY <1>8, WriterMaps DEF controllers
  <2>2. CASE SaveVessels(n)
    <3>1. ASSUME NEW v \in Vessels
          PROVE  /\ lastAllowed[v] <= lastAllowed'[v] /\ lastAllowed'[v] <= clock'
                 /\ metadata'[v] = "other" => lastAllowed'[v] = clock'
      <4>1. \/ lastAllowed'[v] = clock
            \/ lastAllowed'[v] = lastAllowed[v] /\ metadata'[v] = metadata[v]
            \/ lastAllowed'[v] = lastAllowed[v] /\ metadata'[v] # "other"
        <5> DEFINE i == batch[n]["metadata"][v]
        <5>1. /\ metadata'[v] = IF i # 0 THEN getShipType(feed[i]) ELSE metadata[v]
              /\ lastAllowed'[v] = IF i # 0 /\ getShipType(feed[i]) = "other" THEN clock
                                                                           ELSE lastAllowed[v]
          BY <2>2 DEF SaveVessels
        <5> QED BY <5>1
      <4> QED BY <1>2, <2>1, <4>1 DEF FreshInv
    <3> QED BY <1>1, <2>1, <3>1, FreshKept
  <2>3. CASE UNCHANGED <<metadata, lastAllowed>>
    BY <1>3, <2>1, <2>3
  <2> QED BY <1>8, <2>2, <2>3
      DEF Writer, RemoveAllMessages, HasLock, HasNoLock, SaveLocations, SaveFails, database
<1>9. ASSUME NEW n \in Nodes, Restarts(n) PROVE FreshInv'
  <2>1. /\ UNCHANGED <<clock, metadata, lastAllowed>> /\ allowed'[n] = {}
        /\ \A k \in Nodes : k # n => allowed'[k] = allowed[k] /\ cachedAt'[k] = cachedAt[k]
    BY <1>9 DEF Restarts, RestartsAt, database, TypeOK
  <2> QED BY <2>1 DEF FreshInv
<1> QED BY <1>4, <1>5, <1>6, <1>7, <1>8, <1>9 DEF Next, Node, Controller, Decides

\* What was decided of a message other than static data follows from what the
\* database said within the cache time.
LEMMA FreshDecision ==
  ASSUME TypeOK, FreshInv, NEW n \in Nodes, Decides(n), mmsiAllowed'[n],
         NextMessage(n).kind # "static"
  PROVE  clock < lastAllowed[NextMessage(n).vessel] + CacheTime
<1> DEFINE v == NextMessage(n).vessel
<1>1. HasNext(n)
  BY DEF Decides, DecidesByType, DecidesByCache, DecidesByQuery
<1>2. v \in Vessels
  BY <1>1, NextTyped, TransmissionFields
<1>3. /\ clock \in Int /\ CacheTime \in Int /\ CacheTime > 0 /\ cachedAt[n] \in Int
      /\ lastAllowed[v] \in Int
  BY <1>2 DEF TypeOK
<1>4. CASE DecidesByCache(n)
  <2>1. v \in allowed[n] /\ clock < cachedAt[n] + CacheTime
    BY <1>4 DEF DecidesByCache, Decided, Cached, TypeOK
  <2>2. cachedAt[n] <= lastAllowed[v]
    BY <2>1, FreshTimes
  <2> HIDE DEF v
  <2>3. clock < lastAllowed[v] + CacheTime
    BY <1>3, <2>1, <2>2
  <2> QED BY <2>3 DEF v
<1>5. CASE DecidesByQuery(n)
  <2>1. v \in Allowable
    BY <1>5 DEF DecidesByQuery, Decided, TypeOK, findAllowedMmsis
  <2>2. lastAllowed[v] = clock
    BY <2>1, FreshTimes
  <2> HIDE DEF v
  <2>3. clock < lastAllowed[v] + CacheTime
    BY <1>3, <2>2
  <2> QED BY <2>3 DEF v
<1> QED BY <1>4, <1>5 DEF Decides, DecidesByType

\* A vessel counts as allowed no longer than the cache time after it was last
\* in the database as no fishing boat.
THEOREM DecisionsAreFresh == Spec => DecidesFreshly
<1>1. TypeOK /\ FreshInv /\ [Next]_vars =>
        [\A n \in Nodes :
           Decides(n) /\ mmsiAllowed'[n] /\ NextMessage(n).kind # "static"
             => clock < lastAllowed[NextMessage(n).vessel] + CacheTime]_vars
  BY FreshDecision
<1>2. TypeOK /\ FreshInv /\ [Next]_vars => FreshInv'
  BY NextFresh
<1>3. TypeOK /\ [Next]_vars => TypeOK'
  BY NextTypes
<1> QED BY <1>1, <1>2, <1>3, InitTypes, InitFresh, PTL DEF Spec, DecidesFreshly

-----------------------------------------------------------------------------
(* Order of the locations stored                                            *)

\* A node holds no older message of a vessel than it has stored, none older in
\* its map than in its batch, and has stored none it has not read.
OrderInv ==
  \A n \in Nodes, v \in Vessels :
    /\ location[v].by = n =>
         /\ location[v].number <= at[n]
         /\ \A i \in {map[n]["location"][v], batch[n]["location"][v]} \ {0} :
              location[v].number <= i
    /\ map[n]["location"][v] # 0 => batch[n]["location"][v] <= map[n]["location"][v]

LEMMA InitOrder == Init => OrderInv
  BY TablesDistinct DEF Init, OrderInv, NoMessages, NoLocation

LEMMA LocationsTyped ==
  ASSUME TypeOK, NEW n \in Nodes, NEW v \in Vessels
  PROVE  /\ map[n]["location"][v] \in Nat /\ batch[n]["location"][v] \in Nat
         /\ at[n] \in Nat /\ location[v].number \in Nat
         /\ map[n]["location"][v] <= at[n] /\ batch[n]["location"][v] <= at[n]
<1>1. /\ map[n]["location"][v] \in Numbers /\ batch[n]["location"][v] \in Numbers
      /\ at[n] \in Numbers /\ location[v].number \in Numbers
  BY TablesDistinct DEF TypeOK
<1>2. \A i \in {map[n]["location"][v], batch[n]["location"][v]} \ {0} : i <= at[n]
  BY TablesDistinct DEF TypeOK, HeldRight
<1> QED BY <1>1, <1>2 DEF Numbers

\* A step that only reads on keeps the order.
LEMMA OrderKept ==
  ASSUME TypeOK, TypeOK', OrderInv, UNCHANGED <<location, map, batch>>,
         \A n \in Nodes : at[n] <= at'[n]
  PROVE  OrderInv'
<1>1. ASSUME NEW n \in Nodes, NEW v \in Vessels, location[v].by = n
      PROVE  location[v].number <= at'[n]
  <2>1. location[v].number \in Nat /\ at[n] \in Nat /\ at'[n] \in Nat
    BY LocationsTyped DEF TypeOK, Numbers
  <2>2. location[v].number <= at[n] /\ at[n] <= at'[n]
    BY <1>1 DEF OrderInv
  <2> QED BY <2>1, <2>2
<1> QED BY <1>1 DEF OrderInv

LEMMA OrderKeptByListener ==
  ASSUME TypeOK, OrderInv, NEW n \in Nodes, DatabaseListener(n)
  PROVE  OrderInv'
<1>1. UNCHANGED <<location, batch, at>>
  BY DEF DatabaseListener, Accepts, Puts, database, writers
<1>2. \A k \in Nodes, v \in Vessels :
        \/ map'[k]["location"][v] = map[k]["location"][v]
        \/ map'[k]["location"][v] = at[k]
  BY ListenerMaps, TablesDistinct
<1>3. ASSUME NEW k \in Nodes, NEW v \in Vessels
      PROVE  /\ location[v].by = k =>
                  /\ location[v].number <= at[k]
                  /\ \A i \in {map'[k]["location"][v], batch[k]["location"][v]} \ {0} :
                       location[v].number <= i
             /\ map'[k]["location"][v] # 0 => batch[k]["location"][v] <= map'[k]["location"][v]
  BY <1>2, LocationsTyped DEF OrderInv
<1> QED BY <1>1, <1>3 DEF OrderInv

\* What a writer does to one vessel's location, in the map, the batch and the table.
LEMMA WriterLocations ==
  ASSUME TypeOK, NEW n \in Nodes, NEW t \in Tables, Writer(n, t) \/ SaveFails(n, t),
         NEW v \in Vessels
  PROVE  /\ \A k \in Nodes : k # n => map'[k] = map[k] /\ batch'[k] = batch[k]
         /\ \/ /\ map'[n]["location"][v] = 0
               /\ batch'[n]["location"][v] = map[n]["location"][v] /\ location' = location
            \/ /\ map'[n]["location"][v] = map[n]["location"][v]
               /\ batch'[n]["location"][v] \in {0, batch[n]["location"][v]}
               /\ location' = location
            \/ /\ map'[n]["location"][v] = map[n]["location"][v]
               /\ batch'[n]["location"][v] = 0
               /\ location'[v] = IF batch[n]["location"][v] # 0
                                   THEN [number |-> batch[n]["location"][v], by |-> n]
                                   ELSE location[v]
<1>1. /\ map \in [Nodes -> [Tables -> [Vessels -> Numbers]]]
      /\ batch \in [Nodes -> [Tables -> [Vessels -> Numbers]]]
      /\ NoMessages[v] = 0
  BY DEF TypeOK, NoMessages
<1>2. CASE RemoveAllMessages(n, t)
  BY <1>1, <1>2, TablesDistinct DEF RemoveAllMessages, database
<1>3. ASSUME NEW u \in Tables, WriterEnds(n, u)
      PROVE  /\ map' = map /\ \A k \in Nodes : k # n => batch'[k] = batch[k]
             /\ batch'[n]["location"][v] \in {0, batch[n]["location"][v]}
             /\ u = "location" => batch'[n]["location"][v] = 0
  BY <1>1, <1>3, TablesDistinct DEF WriterEnds
<1>4. CASE SaveLocations(n)
  BY <1>3, <1>4, TablesDistinct DEF SaveLocations
<1>5. CASE HasLock(n, t)
  BY <1>1, <1>5, TablesDistinct DEF HasLock, database
<1>6. CASE SaveVessels(n)
  BY <1>3, <1>6, TablesDistinct DEF SaveVessels
<1>7. CASE HasNoLock(n, t) \/ SaveFails(n, t)
  BY <1>3, <1>7 DEF HasNoLock, SaveFails, database
<1> QED BY <1>2, <1>4, <1>5, <1>6, <1>7 DEF Writer

LEMMA OrderKeptByWriter ==
  ASSUME TypeOK, OrderInv, NEW n \in Nodes, NEW t \in Tables, Writer(n, t) \/ SaveFails(n, t)
  PROVE  OrderInv'
<1>1. at' = at
  BY WriterMaps DEF controllers
<1>2. ASSUME NEW k \in Nodes, NEW v \in Vessels
      PROVE  /\ location'[v].by = k =>
                  /\ location'[v].number <= at[k]
                  /\ \A i \in {map'[k]["location"][v], batch'[k]["location"][v]} \ {0} :
                       location'[v].number <= i
             /\ map'[k]["location"][v] # 0 =>
                  batch'[k]["location"][v] <= map'[k]["location"][v]
  <2>1. /\ map[k]["location"][v] \in Nat /\ batch[k]["location"][v] \in Nat
        /\ at[k] \in Nat /\ location[v].number \in Nat
        /\ map[k]["location"][v] <= at[k] /\ batch[k]["location"][v] <= at[k]
    BY LocationsTyped
  <2>2. /\ location[v].by = k =>
             /\ location[v].number <= at[k]
             /\ \A i \in {map[k]["location"][v], batch[k]["location"][v]} \ {0} :
                  location[v].number <= i
        /\ map[k]["location"][v] # 0 => batch[k]["location"][v] <= map[k]["location"][v]
    BY DEF OrderInv
  <2>3. \/ location' = location
        \/ location'[v] = IF batch[n]["location"][v] # 0
                            THEN [number |-> batch[n]["location"][v], by |-> n]
                            ELSE location[v]
    BY WriterLocations
  <2>4. CASE k # n
    <3>1. map'[k] = map[k] /\ batch'[k] = batch[k]
      BY <2>4, WriterLocations
    <3>2. location'[v].by = k => location'[v] = location[v]
      BY <2>3, <2>4
    <3> QED BY <2>2, <3>1, <3>2
  <2>5. CASE k = n
    <3>1. CASE /\ map'[n]["location"][v] = 0
               /\ batch'[n]["location"][v] = map[n]["location"][v] /\ location' = location
      BY <2>2, <2>5, <3>1
    <3>2. CASE /\ map'[n]["location"][v] = map[n]["location"][v]
               /\ batch'[n]["location"][v] \in {0, batch[n]["location"][v]}
               /\ location' = location
      BY <2>1, <2>2, <2>5, <3>2
    <3>3. CASE /\ map'[n]["location"][v] = map[n]["location"][v]
               /\ batch'[n]["location"][v] = 0
               /\ location'[v] = IF batch[n]["location"][v] # 0
                                   THEN [number |-> batch[n]["location"][v], by |-> n]
                                   ELSE location[v]
      BY <2>1, <2>2, <2>5, <3>3
    <3> QED BY <3>1, <3>2, <3>3, WriterLocations
  <2> QED BY <2>4, <2>5
<1> QED BY <1>1, <1>2 DEF OrderInv

LEMMA OrderKeptByRestarts ==
  ASSUME TypeOK, TypeOK', OrderInv, NEW n \in Nodes, Restarts(n)
  PROVE  OrderInv'
<1>1. /\ location' = location /\ at[n] <= at'[n]
      /\ map'[n]["location"] = NoMessages /\ batch'[n]["location"] = NoMessages
      /\ \A k \in Nodes : k # n => at'[k] = at[k] /\ map'[k] = map[k] /\ batch'[k] = batch[k]
  BY TablesDistinct DEF Restarts, RestartsAt, database, TypeOK
<1>2. ASSUME NEW v \in Vessels, location[v].by = n PROVE location[v].number <= at'[n]
  <2>1. location[v].number \in Nat /\ at[n] \in Nat /\ at'[n] \in Nat
    BY LocationsTyped DEF TypeOK, Numbers
  <2>2. location[v].number <= at[n]
    BY <1>2 DEF OrderInv
  <2> QED BY <1>1, <2>1, <2>2
<1>3. ASSUME NEW k \in Nodes, NEW v \in Vessels
      PROVE  /\ location[v].by = k =>
                  /\ location[v].number <= at'[k]
                  /\ \A i \in {map'[k]["location"][v], batch'[k]["location"][v]} \ {0} :
                       location[v].number <= i
             /\ map'[k]["location"][v] # 0 =>
                  batch'[k]["location"][v] <= map'[k]["location"][v]
  <2>1. CASE k = n
    BY <1>1, <1>2, <2>1 DEF NoMessages
  <2>2. CASE k # n
    BY <1>1, <2>2 DEF OrderInv
  <2> QED BY <2>1, <2>2
<1> QED BY <1>1, <1>3 DEF OrderInv

LEMMA NextOrder ==
  ASSUME TypeOK, OrderInv, [Next]_vars
  PROVE  OrderInv'
<1>1. TypeOK'
  BY NextTypes
<1>2. \A n \in Nodes : at[n] \in Nat /\ at'[n] \in Nat
  BY <1>1 DEF TypeOK, Numbers
<1>3. CASE Acquires \/ Loses \/ Ticks \/ Transmits \/ UNCHANGED vars
  <2>1. UNCHANGED <<location, map, batch, at>>
    BY <1>3 DEF Acquires, Loses, Ticks, Transmits, vars, database, controllers, writers
  <2> QED BY <1>1, <1>2, <2>1, OrderKept
<1>4. ASSUME NEW n \in Nodes, Misses(n) \/ Decides(n) \/ QueryFails(n) \/ RelayListener(n)
      PROVE  OrderInv'
  <2>1. UNCHANGED <<location, map, batch>> /\ (at' = at \/ at' = [at EXCEPT ![n] = @ + 1])
    BY <1>4 DEF Misses, Decides, DecidesByType, DecidesByCache, DecidesByQuery, Decided,
                QueryFails, RelayListener, database, writers
  <2>2. \A k \in Nodes : at[k] <= at'[k]
    BY <1>2, <2>1 DEF TypeOK
  <2> QED BY <1>1, <2>1, <2>2, OrderKept
<1> QED
  BY <1>1, <1>3, <1>4, OrderKeptByListener, OrderKeptByWriter, OrderKeptByRestarts
  DEF Next, Node, Controller

\* A step replaces a location by one of the same node only if that is newer.
LEMMA StoresNewer ==
  ASSUME TypeOK, OrderInv, [Next]_vars, NEW v \in Vessels, location'[v].by = location[v].by
  PROVE  location'[v].number >= location[v].number
<1>1. location[v].number \in Nat
  BY DEF TypeOK, Numbers
<1>2. CASE location' = location
  BY <1>1, <1>2
<1>3. ASSUME NEW n \in Nodes, NEW t \in Tables, Writer(n, t) \/ SaveFails(n, t)
      PROVE  location'[v].number >= location[v].number
  <2>1. \/ location' = location
        \/ location'[v] = IF batch[n]["location"][v] # 0
                            THEN [number |-> batch[n]["location"][v], by |-> n]
                            ELSE location[v]
    BY <1>3, WriterLocations
  <2>2. CASE batch[n]["location"][v] # 0 /\ location'[v] = [number |-> batch[n]["location"][v], by |-> n]
    <3>1. location[v].by = n /\ location'[v].number = batch[n]["location"][v]
      BY <2>2
    <3>2. location[v].number <= batch[n]["location"][v] /\ batch[n]["location"][v] \in Nat
      BY <2>2, <3>1, LocationsTyped DEF OrderInv
    <3> QED BY <1>1, <3>1, <3>2
  <2> QED BY <1>1, <2>1, <2>2
<1>4. CASE Acquires \/ Loses \/ Ticks \/ Transmits \/ UNCHANGED vars
  BY <1>2, <1>4 DEF Acquires, Loses, Ticks, Transmits, vars, database
<1>5. ASSUME NEW n \in Nodes, Misses(n) \/ Controller(n) \/ QueryFails(n) \/ Restarts(n)
      PROVE  location' = location
  BY <1>5 DEF Misses, Controller, Decides, DecidesByType, DecidesByCache, DecidesByQuery, Decided,
              DatabaseListener, RelayListener, QueryFails, Restarts, RestartsAt, database
<1> QED BY <1>2, <1>3, <1>4, <1>5 DEF Next, Node

\* What a node has stored of a vessel it replaces by newer messages only.
THEOREM StoredInOrder == Spec => NodeStoresInOrder
<1>1. TypeOK /\ OrderInv /\ [Next]_vars =>
        [\A v \in Vessels :
           location'[v].by = location[v].by => location'[v].number >= location[v].number]_vars
  BY StoresNewer
<1>2. TypeOK /\ OrderInv /\ [Next]_vars => OrderInv'
  BY NextOrder
<1>3. TypeOK /\ [Next]_vars => TypeOK'
  BY NextTypes
<1> QED BY <1>1, <1>2, <1>3, InitTypes, InitOrder, PTL DEF Spec, NodeStoresInOrder
=============================================================================

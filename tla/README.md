# Digitraffic Marine, specified in TLA+

Digitraffic Marine (`fi.livi.digitraffic.meri`) is a Spring Boot application that collects marine
traffic data and publishes it: AIS messages of vessels from a TCP feed, port calls and vessel details
from the Portnet service, berths and locations from files, and sea state estimations (SSE). It runs on
several nodes over one database; Quartz (clustered) runs the periodical jobs on one node at a time, and
a database lock decides which node sends and stores. Clients read the REST API or subscribe to MQTT
topics.

This directory holds TLA+ modules of that code, TLC configurations that model-check them on small
instances, and proofs that TLAPS checks for every instance. `PROJECT.json` lists the runs, the source
lines each definition stands for, the hazards, the findings and the theorems. Paths below are relative to
`src/src/main/java/fi/livi/digitraffic/meri/`.

## 1. Inventory

### AIS: from the socket to the listeners

| component | state | operations | what makes it correct |
|---|---|---|---|
| sentence parser, `controller/ais/reader/AisRadioMsgParser.java` | none | decide which lines are sentences, validate a checksum, parse one or two sentences to a message | which calls throw decides whether the reader survives |
| TCP client, `AisTcpSocketClient.java`, and `AisTcpSocketClientHealthCheck.java` | `socket`, `aisReader`, `isConnected`, `lastKeepAliveReply`, `firstLine` | `connect`, `close`, `reconnect`, `readLine`, `isConnected`, `sendKeepAlive`; `keepAlive` every so often | one open socket at most; recovers from any failure; never reads what is not there |
| message reader, `AisMessageReader.java` | `cachedFirstPart`, `messageQueue`, `readingEnabled` | `setUp`, `destroy`, `run`, `getAisRadioMessage` | only neighbouring parts are joined, messages leave in order, `destroy` ends the thread |
| controller, `controller/ais/reader/AisReaderController.java`, with `service/ais/VesselMetadataService.java` and its cache | the cached set of allowed mmsis | `run`, `updateMmsiAllowedStatus`, `findAllowedMmsis` | fishing boats are not published; the cache is never older than its time |
| database listeners, `controller/reader/Vessel{Location,Metadata}DatabaseListener.java` | a map from mmsi to message | `receiveMessage`, `persistQueue` | what is accepted gets stored by the node that holds `AIS_LOCK`, never an older message over a newer one of the node |
| MQTT listeners, `controller/reader/Vessel{Location,Metadata}RelayListenerV2.java` | none | `receiveMessage`, status | only the node with the lock sends |
| statistics, `VesselLoggingListener.java` | counters per kind of message, and an entry for the connection in the same map | count (`receiveMessage`), `readAisConnectionStatus`, log and reset (`logReadStatistics`) | keeping statistics never stops what it counts |

Two threads use the TCP client without a lock, and three more (the controller, the scheduled writers,
`@PreDestroy`) meet at the queue and the maps. Connections fail at any step. The health check calls the
statistics before it reconnects, so what they throw is thrown there.

### Portnet: jobs that follow a feed

| component | state | operations | what makes it correct |
|---|---|---|---|
| port call update, `service/portnet/call/PortCallUpdater.java` with `PortCallClient.java` | timestamps `PORT_CALLS`, `PORT_CALLS_TO`, `PORT_CALLS_CHECK`; table `port_call` | `update` once a minute | no change is missed, none is undone |
| estimates, `PortcallEstimateUpdater.java` | none here (a service keeps them) | `updatePortcallEstimate` per notification | an estimate that is out is followed by its port call |
| vessel details update, `service/portnet/vesseldetails/VesselDetailsUpdater.java` with `VesselDetailsClient.java` | timestamps `VESSEL_DETAILS`, `VESSEL_DETAILS_CHECK`; table `vessel_details` | `update` | no change that can be asked for is missed, none is undone |
| berths, port areas and SSN locations, `service/portnet/berth`, `service/portnet/location` | tables | replace or merge what a file says | what the file no longer holds goes away |
| timestamps and status, `dao/UpdatedTimestampRepository.java`, `service/DataStatusService.java` | table `updated_timestamp` | save, find | the published time covers the data |

### Publishing

| component | state | operations | what makes it correct |
|---|---|---|---|
| MQTT queue, `service/MqttRelayQueue.java`, and sender, `dto/mqtt/MqttMessageSender.java` | a queue of messages, statistics, `lastUpdated` | queue, send (one thread), report status | no message is sent twice or out of order; the status says what was sent |
| SSE sender, `service/sse/SseMqttSenderV2.java` | `lastUpdated` per node | `checkNewSseReports` every ten seconds under `SSE_LOCK` | the cursor skips no report, a node sends none twice and all in order |
| cached lock, `CachedLockingService` (outside the repository) | "has lock" per node, the lock in the database | `hasLock` | at most one node is told that it has the lock |
| Quartz, `config/QuartzSchedulerConfiguration.java`, `quartz/*` | triggers in the database | create and delete at start, `execute` | one run at a time, a removed job stops |
| REST API, controllers, DTOs, converters, entities | none | queries | stateless |

### Building

| component | state | operations | what makes it correct |
|---|---|---|---|
| git submodule script, `src/common/scripts/git-submodule-extra.mjs` (with lodash, graceful-fs, zx and others bundled into the one file), run by every Maven build | the settings read from two files, the status and remote of each submodule, zx's directory of each asynchronous call; through git: the index, `.gitmodules`, `.git/config`, the checkouts | `init`: read settings, write `.gitmodules`, `addMissingSubmodules`, `unstageGitModulesFile`, `initializeSubmodules`, `updateRemotes`, with `getSubmoduleStatuses` before each; `deinit` is empty | what the settings name is there when `init` ends well; a commit the developer has checked out is not moved; repeated builds get there after any failure |

### How they interact

```
  TCP feed --> AisTcpSocketClient <--connect/close-- health check (scheduled)
                     | readLine
               AisMessageReader --bounded queue--> AisReaderController --listener calls-->
                     database listeners, MQTT listeners, statistics
  Portnet <--HTTP, a time window-- PortCallUpdater / VesselDetailsUpdater --one transaction-->
                     tables + updated_timestamp;  PortCallUpdater --HTTP--> estimates
  database listeners, SSE sender, MQTT listeners --ask--> cached locks --> MQTT queue --> broker
  mvn --> git-submodule-extra.mjs --several processes at the same time--> git, its files and locks
```

### What is hard

1. Fields of the TCP client are written by one thread and read by another, one by one: what a reader
   sees between two writes of `connect()` decides whether its thread survives.
2. A connection fails between any two steps, with lines still buffered; a first part may be cached.
3. A job asks for a time window measured by its node's clock, of a server with another clock that
   publishes late; the next run may be on another node, and any run may fail or be rolled back halfway.
4. A bounded queue and a thread that ends silently when an exception escapes.
5. A lock that expires at any moment, also between being asked for and being relied on; a node that takes
   over has a cursor, a cache and collected messages of its own.
6. Whether a vessel may be published depends on the order of its messages, on what either node stored
   before, and on a cache; messages pass a map, a batch and a table under different monitors.
7. One map holds entries of two classes and is updated under two monitors: which thread puts the
   connection's entry first decides whether the health check can ever reconnect.
8. The build script starts a git command for every submodule at once. They contend for git's lock files,
   share one working directory in the script, and go on when another has failed and the script has given up.

`PROJECT.json` lists the hazards, each with its line and the properties that cover it.

## 2. Plan

| order | modules | of | abstract specification | state |
|---|---|---|---|---|
| 1 | `AisSentence`, `AisTcpSocketClient`, `AisMessageReader` | reader, health check, network, queue | `OrderedFeed` | modelled, checked, safety and refinement proved |
| 2 | `Portnet`, `PortCallUpdater`, `VesselDetailsUpdater` | the two incremental updates | `FeedMirror` | modelled, checked, safety and refinement proved |
| 3 | `CachedLock`, `SseSender` | SSE sender on several nodes | | modelled, checked, safety proved |
| 4 | `AisRelay` | controller, cached set of allowed vessels, listeners and writers on several nodes | | modelled, checked, safety proved |
| 5 | `AisMonitoring` | the reader with `VesselLoggingListener`: the state of the connection in a map of counters | `AisMessageReader` (which it implements) | modelled, checked, refinement proved |
| 6 | `Git`, `GitSubmoduleExtra` | the build's submodule script and the git commands it runs | | modelled, checked, safety proved |
| | conversion of AIS fields, merges of berths and locations, Quartz triggers, MQTT queue and counters | | | left out, see section 6 |

The runs are a dozen, each a few minutes at most: safety and liveness of a component share one where the
state space allows it. Runs are small: one or two records, two clock differences, a handful of clock ticks,
one to three faults; section 4 says why that is enough. Proved: type correctness of each component, no leaked
socket, no read through a missing reader, joining of neighbours only, delivery in order over all connections, refinement of
`OrderedFeed`; no gap behind the cursor, estimates that are followed by their port calls, the published times,
refinement of `FeedMirror`; the SSE cursor
skips nothing, sends nothing twice and in order; fishing boats stay hidden, locations have metadata, decisions
are fresh, a node stores in order; the reader with statistics implements the reader; every safety property of
the submodule script. So every safety property of a passing run has a theorem; liveness stays with TLC.

## 3. Modules

### `AisSentence`
What the reader needs to know of a sentence, as a record: whether its type column reads VDM, how many
columns it has, whether its counters are numbers, whether a checksum can be read, its place in a
multipart message and what its body parses to. The operators have the names of the parser's methods
(`isSupportedMessageType`, `isMultipartRadioMessage`, `parseToAisRadioMessage`); which of them throw is
kept, the payload's bits are not.

### `AisTcpSocketClient`
The client and its health check. `conns[n]` is the n-th socket; the Java field `socket` is always the
newest. Each variable named like a field is that field. The health check's `keepAlive()` is split where
the other thread may look: `ProbeConnected` / `ProbeDisconnected` (the `isConnected()` test with the
message or the decision that follows), `CloseForReconnect`, and `connect()` as `CreateSocket`,
`CreateAisReader`, `Login`, `SetConnected`, `ResetReply`, each with its way to fail. `readLine()` is
`BeginRead` (the field `aisReader` is read), `ReadReceived`, `ReadEndOfStream`, `ReadFails`, and
`TriggerReconnect` (the flag). The environment is the server (`ServerSends`, `ServerReplies`), the network (`PeerFails`)
and the clock (`ReplyExpires`).

### `AisMessageReader`
`run()` of the reader thread: `LoopChecks`, `LoopEnds`, `Sleep`, and one action per outcome of the work
on a line: `SkipUnsupported`, `CountersThrow`, `ChecksumThrows`, `ParseThrows`, `ParseGivesNull`,
`OfferMessage`, `CacheFirstPart`, `IgnorePart`. An action that throws leads to `rpc = "dead"`, since
nothing in `run()` catches a runtime exception and the executor runs `run()` once. `SetUp`, `Destroy`,
`DestroyClose` are the life cycle, `ControllerTakes` is the thread at the other end of the queue.
`handled` and `lastLine` are history variables that no action reads.

### `OrderedFeed`
What the reader promises: each message delivered consists of one or two sentences that were sent, in order, all
newer than anything delivered before, and a message in the queue is as good as delivered, since it reaches the
controller and in its turn. `Spans` of `AisMessageReader` (the first and last sentence of each message handled or
queued) is the refinement mapping, `KeepsFeed` the property.

### `AisMonitoring`
`AisMessageReader` with one more variable, the class of the statistics' `CONNECTION` entry. The health
check gives its status to `readAisConnectionStatus` before it does anything else, which casts the entry
(`HealthChecks`); the controller calls `receiveMessage` for each message; `logReadStatistics` runs on a
thread of its own and puts a plain entry where it finds none, under another monitor than the health check.
The counts are left out. All liveness of the reader is stated here, where a health check that throws before
it reconnects can happen.

### `Portnet`
The server as both clients use it, and their shared conventions: it has a clock, stamps versions,
shows them up to `MaxDelay` later, and answers a half-open window cut to seconds (`Floor`). A node's
clock is ahead of it by some member of `Skews`. Record ids stand for port calls or vessels, a stamp for
everything a version holds.

### `PortCallUpdater` and `VesselDetailsUpdater`
One action per step of `update()`: `Update` computes the window, `GetList` the request, `ErrorList`,
`BadTimestamps`, `BadTimestampsAgain` the ways an answer may be refused, `UpdateNotification` the work on
one notification, `Commit` the end of the transaction, `Fails` an exception or a crash at any point. Cursors
are the rows of `updated_timestamp`, `db` holds the stored version of each record. The estimates of a
notification are posted at once, outside of the transaction, or not at all: a node without
`PortcallEstimateUpdater` skips them, there may be nothing to estimate, and a POST that fails is only logged.
`ahead` is history: the version whose estimates are out although it is not stored.

The vessel details update has no end of window, no overlap and no margin; it sends its cursor cut to seconds
(`Start`). So a version that becomes visible after the answer it belongs to, because it is published late or
the node's clock is ahead of the server's, is never asked for. The history variables `fresh` and `late` name
exactly these versions; the properties say that nothing else is lost. (The parameter is formatted in UTC, and
`PortCallClient.java:72` says that Portnet wants local time; a server that read it so would start earlier and
answer more. Nothing here counts on that.)

### `FeedMirror`
What both updates promise. A mirror has a horizon: it holds everything the source stamped since the
start and before the horizon, apart from versions that were given up, and it never goes back to an older
version. Behind the horizon the source stamps nothing any more, or, where it may be late (`MayBeLate`, for
vessels), what it stamps there is given up. `Mirror` in both updaters is the refinement mapping, `KeepsMirror`
the property.

### `CachedLock`
The lock as its users see it: at most one node is told that it has it, it is lost without the holder's
doing, and any node may get it then. The service is code outside of the repository (a git submodule);
`CachedLockingServiceTest` says as much of it.

### `SseSender`
`checkNewSseReports()` of every node: `Checks` asks for the lock, `Finds` runs the query with the node's
cursor, `Sends` is `sendMqttMessage()` for the next report of the list, which asks for the lock again and
moves the cursor whether or not it had it. `FindFails` and `Restarts` are what may go wrong; a restart
sets the cursor to the present. Reports are saved by a service outside of the repository, several in one
transaction and visible up to `MaxDelay` after their time. Times are rounded to seconds by the column and
cut to seconds by the cursor (`Rounded`, `Floor`). `handled` and `late` are history: what a node took from
its lists, and reports that became visible when one as new already was, which no cursor finds.

### `AisRelay`
What happens to a message after the reader, on every node. `DecidesByType`, `DecidesByCache` and
`DecidesByQuery` are `updateMmsiAllowedStatus()` for class A metadata, with the cached set, and with the
cache expired; `DatabaseListener` and `RelayListener` are the calls of the listeners in their order, by the
message's type. `RemoveAllMessages`, `HasLock`/`HasNoLock` and `SaveLocations`/`SaveVessels` are the steps of
the two `persistQueue()`. A message is its vessel, one of four kinds and whether it says "fishing boat"; its
number is its place in the feed, which every node reads for itself and may miss parts of (`Misses`). The
query and filling the cache are one step, as are the two times a relay listener asks for the lock; a
`persistQueue()` with an empty map changes nothing and is left out. `lastAllowed` is history.

### `Git`
The part of git the script uses, which is outside of the repository: what the index, `.gitmodules` and
`.git/config` say of each submodule, the checkouts, and the three commands as processes of their own, step
by step (`Following`). A step that writes a file takes the file's lock (`TakesLock`, `Writes`); one that
finds it taken fails, or goes on without writing where git only warns (`FindsLock`, `OnlyWarns`). An add writes
`.git/config` twice, the url at its start and `submodule.<name>.active` at its end, and only warns both times:
a submodule may be active without a url (`NoUrl`), which git reports as initialized, or neither, which it
reports as uninitialized although it is checked out.

### `GitSubmoduleExtra`
`init()` of the script, one action per `await`: the two settings files (`getRepoFile`, with graceful-fs's
queue of reads that found too many open files, `Enqueue`, `Retry`), lodash's merge of them, by position
and at one position key by key (`merge`), `createSubmoduleFile`; then `getSubmoduleStatus`, `getRemote` and `RemoteAnswers` for all
submodules at once, and the pass that follows: `addMissingSubmodules` with `unstageGitModulesFile`,
`initializeSubmodules`, `updateRemotes`. `AwaitsAll` is `Promise.all`: the first failure ends `init()`, while
the other commands run on until the process ends (`Exits`). zx keeps a directory per asynchronous call and
returns to it (`syncCwd`, `snapshot`). `Develops` is the developer, who checks out another commit at any time,
also in the middle of a run, and empties directories or changes the settings between two runs.

## 4. Runs

| run | module, cfg | question and result |
|---|---|---|
| `ais_connections` | `MCAisMessageReader`, `AisReaderConnections` | three sentences (single ones and parts, the last one possibly malformed or of an unsupported class) over connections that fail once at any step: no socket is leaked (`NoSocketLeaks`), no null reader is used (`NoNullReader`), messages leave in the order of sending and no sentence is used twice (`DeliversInOrder`), only neighbours are joined (`JoinsNeighbours`), the queue keeps its capacity (`TypeOK`), and `OrderedFeed` is implemented (`KeepsFeed`) |
| `ais_reads` | `MCAisMonitoring`, `AisReaderReads` | every kind of sentence, with proxy text, a fault of the connection and a server that may refuse any number of times: the connection ends up established and reported so (`Recovers`); a sentence does not wait for ever on an open connection (`NoSentenceWaitsForEver`); both unless the reader died on a malformed sentence or the statistics stop the health check; `destroy()` ends the reader in any case (`DestroyStopsReader`) |
| `port_calls` | `MCPortCallUpdater`, `PortCalls` | two port calls, nodes one tick ahead and one behind, versions one tick late, two faults: nothing behind the cursor is missed (`NoGap`), the published times are right (`UpdatedCoversData`, `CheckedAfterUpdated`), estimates that are out before a rollback are not left alone (`EstimatesFollowed`), `FeedMirror` is implemented (`KeepsMirror`), and the cursor reaches every version (`CatchesUp`) |
| `vessel_details` | `MCVesselDetailsUpdater`, `VesselDetails` | two vessels, the same clocks and delay, one fault, without a margin: every version is saved but those that became visible after the answer they belong to (`NoGap`, `CatchesUp`), and `FeedMirror` is implemented with only these given up (`KeepsMirror`) |
| `sse_sender` | `MCSseSender`, `SseSender` | two reports on two nodes, a lock that moves and a restart: the cursor passes no report the node is responsible for (`CursorCovers`), a node sends none twice between two starts (`NeverTwice`), all in the order of creation (`InOrder`), and a node that keeps the lock handles what it is responsible for (`HandlesDue`) |
| `ais_relay` | `MCAisRelay`, `AisRelay` | two nodes, a fishing boat, an unknown and a known vessel: the boat is neither relayed nor stored (`FishingHidden`), no vessel is located before it is known (`LocatedIsKnown`), and a node never replaces its own location by an older one (`NodeStoresInOrder`), whatever fails, restarts or takes the lock |
| `ais_relay_node` | `AisRelayNode` | one node over time, a vessel that turns into a fishing boat and back: no decision is further behind the database than the cache's time (`DecidesFreshly`); an accepted position, or a newer one of the vessel, is stored while the node keeps the lock (`HolderStores`) |
| `git_submodules` | `MCGitSubmoduleExtra`, `GitSubmodules` | two submodules, six pairs of settings files, one fault, one change by the developer, any number of builds: a submodule's status has its own remote (`RemoteIsOwn`); a run that ends well leaves all submodules ready (`DoneIsReady`) and `.gitmodules` unstaged (`DoneIsUnstaged`); the commit of a checkout that git did not report as uninitialized is kept, whatever the developer did since (`KeepsCheckouts`); in a clone that has every submodule in its index no run ends well if `.gitmodules` is not ignored (`UnignoredFails`); repeated builds make everything ready, whichever command found a lock taken (`BecomesReady`) |

`src/README.md:18` says that `.gitmodules` must be ignored, "otherwise the initialization fails". That is so
where there is nothing to add (`UnignoredFails`), and only there: a run that adds a submodule stages
`.gitmodules`, so that `unstageGitModulesFile` finds a file git knows, and ends well.

`KeepsCheckouts` does not cover every checkout. An add whose two writes of `.git/config` both found the file
locked leaves a checkout that git calls uninitialized; `initializeSubmodules` updates what is uninitialized, so the next
run moves it to the commit in the index, also if the developer has checked out another one.

Four runs show where the code departs from its comments; `PROJECT.json` has the quotations.

| run | property | behaviour |
|---|---|---|
| `ais_reconnect` | `SurvivesReconnect` | the reader finds `lastKeepAliveReply` set, the health check's `connect()` resets it, the reader dereferences null and ends |
| `ais_statistics` | `HandlerReconnects` | the statistics are logged before the first run of the health check and the first message: the log puts an entry without connection status, and from then on each run of the health check ends with a ClassCastException before it reconnects, although the reader's comment leaves reconnecting to it |
| `sse_one_node` | `SentByOneNode` | a node that takes the lock over starts from its own cursor and sends again what the other has sent |
| `ais_class_b` | `ClassBIgnored` | a class B vessel's name message is stored without a type, which puts its mmsi into the allowed list: it is relayed from then on, a fishing boat too |

### Bounds, and why they are enough
`MaxLines = 3` allows two parts with something between them, or two messages of which one is multipart;
what each may be (`Feed`) leaves out a second part sent first, which is ignored like one sent second after a single
sentence, and a first part sent last, which nothing can follow; only the last may be malformed, as that ends the
reader, and `ais_reads` has every kind of sentence first;
`MaxWire = 1` is enough because the order on one connection is that of the list, and more lines only add
buffered lines of the same kind. One fault (`MaxFaults`) already gives two sockets, the old one with a
buffered line. In `ais_reads` a refused connection is no fault and may happen any number of times, so every
phase of a recovery can be hit by another failure, and one sentence of any kind is enough, since what is asked
is whether it is read and not how it meets others. `ais_statistics` needs neither a sentence nor a fault.
`QueueCapacity = 1` makes the queue full after one message. In the updaters `MaxClock` lets windows follow
each other, among them one that is cut at `MaxFrame` and one that is shorter than the overlap; `Second = 2`
makes half of the stamps subject to rounding; `Margin = 2` is the least the assumption allows with the
skews and the delay used, so nothing is hidden by slack. For the SSE sender two reports can share a second
or not, be in one list or two, and one be saved while the other is sent; one loss of the lock gives both
nodes a turn. In `ais_relay` two messages are enough for one to be overtaken by the other in map, batch
and table, and for a node to restart between them; the clock stands still there, so a cached set lives
until a restart, the worst case for a stale one. `ais_relay_node` has the expiry: three messages (one that
fills the cache, a change of type, one decided after that), and one node, since the cache is a node's own.
`MaxMoves` bounds how often the lock is lost. In `git_submodules` two submodules are enough for two commands to
contend for each lock, for a settings list that is shorter or in another order than the other, and for one
submodule to be ready while the other is not; the number of runs of the script is not bounded, so one fault
and one change (`MaxFaults`, `MaxEdits`) can hit any phase of a run and any state an earlier run left.
`MaxRetries = 2` is one retry and the last. Clock, faults, lines, wire, messages, moves, retries and edits are
the only unbounded things, and every bound is a CONSTANT used in a guard.
Deadlock is checked in the updaters' runs and the submodule script's; in the others the process may stop (destroyed, reader ended,
bounds used up), so `CHECK_DEADLOCK FALSE` is set there.

### Fairness
`MonitoredFairSpec` of the reader has weak fairness for each thread (the JVM schedules them), for the health check
(`fixedDelay` repeats it for ever, and each of its blocking calls has a timeout), for `SetUp` and for
`DestroyClose` once `destroy()` has begun. A server that is asked again and again accepts at last (strong
fairness of creating the socket); without it nothing would be owed to a client that is always refused. The socket timeout ends a silent read; it counts as one of the
bounded faults (a silent feed is reconnected) except while the application stops (`ReadTimesOut`), where
nothing depends on the connection any more. Blocking reads are not fair by themselves: a reader blocked on
a silent connection is only owed a step when a line, an end or an error is there. The environment owes
nothing else. In the updaters Quartz repeats the job (`WF_vars(Runs)`) and time passes up to the bound;
publishing and failing owe nothing, and failures are bounded since a job that always fails never
catches up. For the SSE sender each node's check is fair (`@Scheduled` repeats it), for the relay the
controller's thread and each `persistQueue()` of each node; `HolderStores` speaks of behaviours whose
faults are used up, since a failed save drops its batch. Nobody owes a node the lock: both liveness
properties end when it is lost. For the submodule script the build is repeated (`WF_vars(Starts)`), and the
operating system runs the script and each git process; no lock file is held for ever, as no process is
killed. `BecomesReady` asks for a state the script can work on (`Workable`): settings that can be read, no
submodule in the index without settings, no directory of one removed.

## 5. Proofs

| module | theorems |
|---|---|
| `AisMessageReader_proofs` | `TypeCorrect`, `NoLeaks`, `NeverNullReader`, `JoinsOnlyNeighbours`, `DeliveredInOrder`, `ImplementsFeed` |
| `AisMonitoring_proofs` | `ImplementsReader`, `MonitoredSafety` |
| `Portnet_proofs` | lemmas on `Floor`, `Answer`, `Overwrite` and the server's steps |
| `PortCallUpdater_proofs` | `TypeCorrect`, `NothingMissed`, `EstimatesNotAlone`, `ImplementsMirror`, `UpdateTimeCovers`, `CheckedLast` |
| `VesselDetailsUpdater_proofs` | `TypeCorrect`, `NothingMissed`, `ImplementsMirror` |
| `SseSender_proofs` | `TypeCorrect`, `CursorNeverSkips`, `NothingSentTwice`, `SentInOrder` |
| `AisRelay_proofs` | `TypeCorrect`, `FishingBoatsHidden`, `LocationsHaveMetadata`, `DecisionsAreFresh`, `StoredInOrder` |
| `GitSubmoduleExtra_proofs` | `TypeCorrect`, `RemotesAreOwn`, `DoneMeansReady`, `DoneMeansUnstaged`, `CheckoutsKept`, `IgnoredIsNeeded` |

They hold for any sets of nodes, reports, vessels, sentences, records, skews, submodules and settings, any margins and bounds
that satisfy the named assumptions of the modules.

*Reader.* `TypeInv` is `TypeOK` with `Published`: `connect()` sets the socket before the reader and the
reader before the flag, so whoever saw the flag has a reader. `NoNullReader` is a part of it.
`NoSocketLeaks` needs `LeakInv`: at the moment a socket is created all others are closed, which
depends on `close()` closing even when the log-off fails. `JoinsNeighbours` needs `CacheInv`: while the
thread lives, a cached part is a first part and the line worked on last. `DeliversInOrder` says nothing of
what is still to come, so it needs two invariants. `WireInv`: the lines that wait, on closed connections too,
are in the order of sending from one connection to the next, and a blocked reader reads no newer connection than
the client's. `OrderInv`: what was delivered is older than the cached first part, that than the line `run()`
works on, and all of these are in `Past`, the numbers before every line the reader can still get. The
argument turns on one fact, `SourceMoves`: the field `aisReader` only ever goes to a newer connection, so what
is left on an older one is never read once a newer one was. It holds for a living reader; a dead one delivers
nothing more. The same invariant gives `ImplementsFeed`: an offer starts after all that was delivered and ends with
a line that was sent, and `handled` with `queue` only ever grows at its end. `ImplementsReader`: with the
statistics each step is a step of the reader or leaves it alone, so all of this holds with them
(`MonitoredSafety`); the statistics can only withhold steps, which is why liveness does not carry over.

*Port calls.* `NoGap` is not inductive. `WindowInv` adds that cursor and window end are *settled*:
nothing can be stamped there any more (`t + MaxDelay <= clock`), from `UpdaterAssumption`, that the
margin of a minute outlasts the clock differences and the delay together; and that a window starts no
later than the cursor. `ListInv` adds that a run's list holds the newest version of everything in its
window and nothing older than is stored. `MirrorInv`, their conjunction, is inductive, and each of its
steps gives a step of `FeedMirror` or a stutter. `AheadInv` (estimates that are ahead announce a version
newer than the stored one and no newer than the server's) gives `EstimatesFollowed` with `NoGap`: had the cursor passed
the server's version, it would be stored. `UpdatedCoversData` is about a time that moves with the windows of nodes whose clocks
differ: `CoverInv` bounds what is stored by the cursor, by the present and by the end of a window that is
running, each up to a difference of two clocks (`Within`). `CheckedLast` has a hypothesis, `ClocksAgree`: no two
clocks differ by more than the margin, a minute. It is needed: TLC refutes `CheckedAfterUpdated` with skews -2, -1 and 1
and a margin of 2, where a node two ticks behind the server finds nothing and stores its own time as that of the
check, before the end of the window another node has just updated from. 
*Vessels.* There is no margin, so nothing is settled, and no assumption on clocks and delays: `NoGap` holds since a
version before the cursor was in the answer that was saved, or came when that answer was given (`fresh`), or when the
cursor had passed (`late`). `ListInv` says so of the answer being saved.

*SSE sender.* `CursorCovers` needs `CursorRight`: a list holds reports that are in the database, a cursor
that has moved stands at such a report, and what is still to be found is newer than the cursor and than
the list. `NeverTwice` and `InOrder` need `OrderInv`: times are whole seconds, what a node took from its
lists is at or before its cursor and no newer than what is left of its list, and what it queued in this
life it took.

*Relay.* `TypeOK` holds `HeldRight`: maps and batches hold messages of their vessel and table, no newer
than the node has read. `PubInv` adds the reason why a vessel is unpublished: while a vessel is *closed* (hidden
and not stored as another type, or not stored at all), no node allows it, has it in its cached set or
holds a position of it in map or batch, and it has no location. A hidden vessel stays closed since its
metadata says "fishing", an unknown one until metadata is saved, which gives `FishingHidden` and
`LocatedIsKnown`. `FreshInv` ties the cache to the database: a vessel in a node's cached set was allowed there
when the set was cached or later, so with the expiry `DecidesFreshly` holds; this needs a cache time above
zero. The order invariant of `NodeStoresInOrder`: a node's map and batch hold nothing older than what the node
has stored of that vessel, and the map nothing older than the batch, which is true because a failed save
drops its batch instead of putting it back.

*Submodule script.* `LocalStep` says once that a step of a command touches nothing of other submodules but
`.gitmodules` being staged, so that each invariant is proved for one command and holds for all that run
together. `IInv` joins `LockInv` (a lock has one holder), `PhaseInv` and `CmdInv` (which commands can run
in which phase, with which url, and what they have done by the step they are at), `SettingsInv` (the entries
of a list that was merged name each submodule once), `StatusInv` (while the remotes are asked for, what was noted of a
submodule is true of it, whichever commit it is at; gives `RemotesAreOwn`), `ReadyInv` (what is ready
by which pass, or still has a command that works on it or has failed; gives `DoneMeansReady`) and
`UnstagedInv`. `CheckoutsKept` follows from `CmdInv`, by which a command that checks out was started for a submodule
that was uninitialized. `DoneMeansReady` needs all of it: a submodule added long ago is ready only because each of the
three passes compared it with the settings of this run.

*Assumptions.* `s + MaxDelay <= Margin` for every skew `s`, for port calls only; `Overlap < MaxFrame`
as configured in `application.properties`; a cache time above zero, for the relay; `ClocksAgree`, for
`CheckedLast` only; the window of an answer is half open (a server that
includes the end answers more); sockets and readers are published in program order.

*Only model-checked.* Everything about liveness (`Recovers`, `NoSentenceWaitsForEver`, `DestroyStopsReader`,
`CatchesUp`, `HandlesDue`, `HolderStores`, `BecomesReady`), since the prover has no rules for fairness and
ENABLED. Induction over data is out of its reach as well, so the modules avoid recursive definitions.

## 6. Not modelled

Whole components:

- *MQTT queue and sender thread* (`MqttRelayQueue`): an unbounded `LinkedBlockingQueue` with one consumer
  that sends each message once, without retry. Order and number follow from the queue; whether to queue a
  message is decided by the senders, which are modelled. What goes wrong there is a lost or doubled count
  (`MqttRelayQueue.java:117`), and counts are only logged. The same holds for the counts of
  `VesselLoggingListener` and `SseLoggingListener`.
- *AIS message conversion* and the decoding of the payload (`AisMessageConverter`, `Ais6BitConverter`):
  functions of one message, without state. What others decide by them (whether metadata is valid, the ship
  type) is in `AisRelay`.
- *Berths, port areas, SSN locations*: each update is one transaction that replaces or merges what a file
  says, in a job of which one runs at a time; no step of another actor comes between.
- *Quartz triggers*: created and deleted by calls of a clustered library whose behaviour with several nodes
  that start together is not in this repository.
- *REST API, DTOs, entities, configuration* (stateless reads and data), *migrations*, *shell scripts*.

Of the components above:

- Finnish local time is ambiguous for an hour when summer time ends, so a window across the change may be
  inverted at the server; which of the two hours the server means, no text says. The content of port calls,
  vessels and estimates; status messages and logs.
- Settings that list a submodule twice (`PathsAssumption`): the script does not look for it, and no text says what it
  should do. Entries have a path and a url each, so what lodash merges key by key is the override's entry.
- Memory effects beyond reading a field late: each access to a field is one atomic step on the newest value,
  except that a test of two fields may see them at different times where the code reads them so.
- The submodule script is a bundle of 26,634 lines, of which the program's own are 26415 to 26577. The
  rest is libraries; what `init()` uses of them for its control (merging, queued reads, processes, directories)
  is modelled, and the remaining nine tenths and more are never reached from `init()`, or shape text only, so the
  map covers a small part of the file's lines. Also left out: the parsing of the command line; submodules with
  merge conflicts; two builds of one clone at the same time; lock files left by a killed process.

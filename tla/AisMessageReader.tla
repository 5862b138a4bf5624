-------------------------- MODULE AisMessageReader --------------------------
(***************************************************************************)
(* The reader thread of the AIS feed (AisMessageReader.run): it takes      *)
(* lines from the TCP client, joins the two sentences of a multipart       *)
(* message and offers messages to a bounded queue, from which the          *)
(* controller thread (AisReaderController) takes them.  Next interleaves   *)
(* it with the health check and the network of AisTcpSocketClient.         *)
(***************************************************************************)
EXTENDS AisTcpSocketClient

CONSTANT QueueCapacity   (* 4096 in the code *)

ASSUME QueueAssumption == QueueCapacity \in Nat \ {0}

VARIABLES
  readingEnabled,   \* the AtomicBoolean of the same name
  destroying,       \* progress of destroy()
  cachedFirstPart,
  queue,            \* messages: the list of lines each was parsed from
  handled,          \* history: messages the controller took, in order
  lastLine          \* history: the line run() worked on before, when it was a first part

readerVars == <<cachedFirstPart, queue, handled, lastLine>>
vars == <<clientVars, readingEnabled, destroying, readerVars>>

Init ==
  /\ ClientInit
  /\ readingEnabled = FALSE /\ destroying = "no"
  /\ cachedFirstPart = NoLine /\ queue = <<>> /\ handled = <<>> /\ lastLine = NoLine

-----------------------------------------------------------------------------
\* @PostConstruct, after the constructor's attempt to connect
SetUp ==
  /\ rpc = "unborn" /\ hpc = "idle"
  /\ rpc' = "loop" /\ readingEnabled' = TRUE
  /\ UNCHANGED <<connecting, firstLine, reading, attempt, line, sent, faults, destroying, readerVars>>

DestroyReading ==   \* mutated: reading stays enabled
  /\ rpc # "unborn" /\ destroying = "no" /\ destroying' = "closing"
  /\ UNCHANGED <<clientVars, readingEnabled, readerVars>>

\* @PreDestroy: stop reading, then close the client (failures are caught).
Destroy ==
  /\ rpc # "unborn" /\ destroying = "no"
  /\ destroying' = "closing" /\ readingEnabled' = FALSE
  /\ UNCHANGED <<clientVars, readerVars>>

DestroyClose ==
  /\ destroying = "closing" /\ destroying' = "done"
  /\ CloseSocket
  /\ UNCHANGED <<aisReader, isConnected, lastKeepAliveReply, hpc, status, readingState,
                 sent, faults, readingEnabled, readerVars>>

-----------------------------------------------------------------------------
(* run(): the loop and its sleeps                                           *)

LoopChecks ==
  /\ rpc = "loop" /\ readingEnabled /\ CheckUsable
  /\ UNCHANGED <<readingEnabled, destroying, readerVars>>

LoopEnds ==
  /\ rpc = "loop" /\ ~readingEnabled /\ rpc' = "stopped"
  /\ UNCHANGED <<connecting, firstLine, reading, attempt, line, sent, faults,
                 readingEnabled, destroying, readerVars>>

SleepAndReturn ==   \* mutated: run() returns where it should wait
  /\ rpc = "sleep" /\ rpc' = "stopped"
  /\ UNCHANGED <<connecting, firstLine, reading, attempt, line, sent, faults,
                 readingEnabled, destroying, readerVars>>

Sleep ==
  /\ rpc = "sleep" /\ rpc' = "loop"
  /\ UNCHANGED <<connecting, firstLine, reading, attempt, line, sent, faults,
                 readingEnabled, destroying, readerVars>>

\* A silent connection does not block the reader for longer than the socket
\* timeout; at the end this is no fault to count.
ReadTimesOut ==
  /\ destroying # "no" /\ FailedRead /\ conns[reading].wire = <<>>
  /\ UNCHANGED <<faults, readingEnabled, destroying, readerVars>>

ReadsClient == (CheckReply \/ ReadLine) /\ UNCHANGED <<readingEnabled, destroying, readerVars>>

-----------------------------------------------------------------------------
(* run(): the work on one line.  A line that does not throw ends in "loop"; *)
(* an exception ends the thread, for nothing in run() catches it.           *)

\* Text before the '!' spoils the message type column.
Supported == line.of # KeepAlive /\ ~line.proxied /\ isSupportedMessageType(line.of)

Part(k) == isMultipartRadioMessage(line.of) /\ line.of.part = k

WorksOnLine(next) ==
  /\ rpc = "got" /\ rpc' = next /\ lastLine' = IF Supported /\ Part(1) THEN line ELSE NoLine
  /\ line' = IF next = "dead" THEN line ELSE NoLine
  /\ UNCHANGED <<connecting, firstLine, reading, attempt, sent, faults,
                 readingEnabled, destroying, handled>>

\* A cached first part is only kept for a second part that follows it.
KeptFirstPart == IF Part(2) THEN cachedFirstPart ELSE NoLine

Parts == IF KeptFirstPart = NoLine THEN <<line>> ELSE <<KeptFirstPart, line>>
Complete == ~isMultipartRadioMessage(line.of) \/ (Part(2) /\ KeptFirstPart # NoLine)
Parsed == parseToAisRadioMessage([i \in DOMAIN Parts |-> Parts[i].of])

SkipUnsupported ==
  /\ WorksOnLine("loop") /\ ~Supported
  /\ cachedFirstPart' = NoLine /\ UNCHANGED queue

CountersThrow ==
  /\ WorksOnLine("dead") /\ Supported /\ ~countersParse(line.of)
  /\ UNCHANGED <<cachedFirstPart, queue>>

ChecksumThrows ==
  /\ WorksOnLine("dead") /\ Supported /\ countersParse(line.of)
  /\ ~checksumReadable(line.of)
  /\ cachedFirstPart' = KeptFirstPart /\ UNCHANGED queue

Readable == Supported /\ countersParse(line.of) /\ checksumReadable(line.of)

ParseThrows ==
  /\ WorksOnLine("dead") /\ Readable /\ Complete /\ Parsed = "throws"
  /\ cachedFirstPart' = KeptFirstPart /\ UNCHANGED queue

\* An unsupported message class parses to null and is dropped.
ParseGivesNull ==
  /\ WorksOnLine("loop") /\ Readable /\ Complete /\ Parsed = "null"
  /\ cachedFirstPart' = NoLine /\ UNCHANGED queue

OfferMessageKeepingFirst ==   \* mutated: the cached part is not cleared
  /\ WorksOnLine("loop") /\ Readable /\ Complete /\ Parsed = "message"
  /\ Len(queue) < QueueCapacity /\ queue' = Append(queue, Parts)
  /\ UNCHANGED cachedFirstPart

OfferMessageUnbounded ==      \* mutated: the queue has no capacity
  /\ WorksOnLine("loop") /\ Readable /\ Complete /\ Parsed = "message"
  /\ cachedFirstPart' = NoLine /\ queue' = Append(queue, Parts)

OfferMessageEvicting ==       \* mutated: a full queue drops its oldest message
  /\ WorksOnLine("loop") /\ Readable /\ Complete /\ Parsed = "message"
  /\ cachedFirstPart' = NoLine
  /\ queue' = Append(IF Len(queue) < QueueCapacity THEN queue ELSE Tail(queue), Parts)

\* queue.offer: a message that finds the queue full is ignored.
OfferMessage ==
  /\ WorksOnLine("loop") /\ Readable /\ Complete /\ Parsed = "message"
  /\ cachedFirstPart' = NoLine
  /\ \/ Len(queue) < QueueCapacity /\ queue' = Append(queue, Parts)
     \/ Len(queue) = QueueCapacity /\ UNCHANGED queue

CacheFirstPart ==
  /\ WorksOnLine("loop") /\ Readable /\ Part(1)
  /\ cachedFirstPart' = line /\ UNCHANGED queue

\* A third part, or a second one without its first.
IgnorePart ==
  /\ WorksOnLine("loop") /\ Readable /\ ~Complete /\ ~Part(1)
  /\ cachedFirstPart' = KeptFirstPart /\ UNCHANGED queue

WorkOnLine == \/ SkipUnsupported \/ CountersThrow \/ ChecksumThrows \/ ParseThrows
              \/ ParseGivesNull \/ OfferMessage \/ CacheFirstPart \/ IgnorePart

-----------------------------------------------------------------------------
\* AisReaderController.run: take a message (what the listeners do with it is
\* AisRelay); an exception of a listener is caught.
ControllerTakes ==
  /\ queue # <<>> /\ handled' = Append(handled, Head(queue)) /\ queue' = Tail(queue)
  /\ UNCHANGED <<clientVars, readingEnabled, destroying, cachedFirstPart, lastLine>>

HealthRuns == Health /\ UNCHANGED <<readingEnabled, destroying, readerVars>>
EnvironmentActs == Environment /\ UNCHANGED <<readingEnabled, destroying, readerVars>>
Reader == LoopChecks \/ LoopEnds \/ Sleep \/ ReadsClient \/ ReadTimesOut \/ WorkOnLine

Next == \/ SetUp \/ Destroy \/ DestroyClose \/ HealthRuns \/ Reader
        \/ ControllerTakes \/ EnvironmentActs

Spec == Init /\ [][Next]_vars

-----------------------------------------------------------------------------
(* Properties                                                               *)

Message == Seq(Received)

TypeOK ==
  /\ ClientTypeOK
  /\ readingEnabled \in BOOLEAN /\ destroying \in {"no", "closing", "done"}
  /\ cachedFirstPart \in Received \cup {NoLine} /\ lastLine \in Received \cup {NoLine}
  /\ queue \in Seq(Message) /\ Len(queue) <= QueueCapacity
  /\ handled \in Seq(Message)

\* There is never a socket left open besides the newest one: every reconnect
\* closes its predecessor, also when the log-off or an earlier step failed.
NoSocketLeaks == \A c \in DOMAIN conns : conns[c].open => c = socket

\* A message made of two sentences is a first part and the second part that
\* run() worked on directly after it; whatever comes between, a reconnect's
\* unsupported line included, voids the first part.
JoinsNeighbours ==
  [][Len(queue') > Len(queue) /\ Len(queue'[Len(queue')]) > 1
       => /\ queue'[Len(queue')] = <<lastLine, line>>
          /\ lastLine.of.part = 1 /\ lastLine.of.total > 1
          /\ line.of.part = 2 /\ line.of.total > 1]_vars

Delivered == handled \o queue

\* Over all connections, messages leave in the order the server sent their
\* sentences and no sentence is used twice, although a closed connection may
\* still yield buffered lines and full queues ignore messages.
DeliversInOrder ==
  \A i, j \in DOMAIN Delivered : i < j =>
    Delivered[i][Len(Delivered[i])].n < Delivered[j][1].n

\* The abstract feed that the reader makes of its connections and its queue.
Spans == [i \in DOMAIN Delivered |-> <<Delivered[i][1].n, Delivered[i][Len(Delivered[i])].n>>]
Ordered == INSTANCE OrderedFeed WITH delivered <- Spans

\* The reader implements the abstract feed: what is in the queue reaches the
\* controller in that order, nothing comes from a line never sent or used before.
KeepsFeed == Ordered!Spec

\* The reader never calls readLine() on a client that has no BufferedReader
\* yet, although connect() publishes socket, reader and flag one by one.
NoNullReader == rpc \in {"read", "blocked"} => aisReader > 0

\* AisMessageReader.java:137, "Connection failure -> let reconnection handler
\* handle this": losing a connection does not end the reader thread.
SurvivesReconnect == rpc = "dead" => line # NoLine

ReaderDead == rpc = "dead"
ShuttingDown == destroying # "no"
=============================================================================

------------------------- MODULE AisTcpSocketClient -------------------------
(***************************************************************************)
(* The TCP client of the AIS data feed (AisTcpSocketClient) with the       *)
(* scheduled health check that owns reconnecting                           *)
(* (AisTcpSocketClientHealthCheck).  Two threads share the client without  *)
(* a lock: the health check connects, closes and sends; the reader asks    *)
(* isConnected() and blocks in readLine().  What the reader does with a    *)
(* line is AisMessageReader, which extends this module.                    *)
(*                                                                         *)
(* The n-th socket ever created is conns[n]; the field "socket" always     *)
(* refers to the newest one.                                               *)
(***************************************************************************)
EXTENDS AisSentence

CONSTANTS
  Feed,        (* what the AIS server's sentences may be, one after another *)
  Proxy,       (* whether a proxy puts text before a connection's first line *)
  KeepAlive,   (* the line "$PSTT,01*2E", the server's keep-alive reply     *)
  NoLine,      (* null where a line is expected                             *)
  MaxLines,    (* bound: sentences the server sends in a behaviour          *)
  MaxWire,     (* bound: lines in flight on one connection                  *)
  MaxFaults    (* bound: faults of network, server and clock in a behaviour *)

\* What the server may send.
Sentences == UNION {Feed[k] : k \in 1..MaxLines}

\* A line as it arrives: the n-th sentence the server sent, or a keep-alive
\* reply; proxied when text of the proxy precedes the sentence.
Received == [n : Nat, of : Sentences \cup {KeepAlive}, proxied : BOOLEAN]
KeepAliveReply == [n |-> 0, of |-> KeepAlive, proxied |-> FALSE]

ASSUME ClientAssumption ==
  /\ MaxLines \in Nat /\ MaxWire \in Nat /\ MaxFaults \in Nat
  /\ Feed \in [1..MaxLines -> SUBSET Sentence]
  /\ NoLine \notin Received /\ KeepAlive \notin Sentences /\ Proxy \in BOOLEAN

VARIABLES
  conns,               \* every socket created so far, with its peer
  aisReader,           \* index of the socket the BufferedReader reads, 0: null
  isConnected,         \* the AtomicBoolean of the same name
  lastKeepAliveReply,  \* null, or whether it is within keepAliveTimeout
  firstLine,
  hpc,                 \* where the connecting thread is
  status,              \* last status given to VesselLoggingListener
  rpc,                 \* where the reader thread is
  reading,             \* the socket whose readLine() the reader is blocked in, or 0
  attempt,             \* which of readLine()'s three reads it is at
  line,                \* what readLine() returned, while run() works on it
  sent, faults         \* counters of the environment

connecting == <<conns, aisReader, isConnected, lastKeepAliveReply, hpc, status>>
readingState == <<firstLine, rpc, reading, attempt, line>>
clientVars == <<connecting, readingState, sent, faults>>

-----------------------------------------------------------------------------
socket == Len(conns)

Conn == [open : BOOLEAN, peer : {"up", "eof", "reset"}, login : BOOLEAN,
         fed : BOOLEAN, wire : Seq(Received)]
NewConn == [open |-> TRUE, peer |-> "up", login |-> FALSE, fed |-> FALSE, wire |-> <<>>]

trimFirstLine(l) == [l EXCEPT !.proxied = FALSE]

\* send() throws when the socket is closed, and may once the peer is gone.
CanSend == socket > 0 /\ conns[socket].open /\ conns[socket].peer # "reset"
MayFailToSend == socket = 0 \/ ~conns[socket].open \/ conns[socket].peer # "up"

\* isConnected() up to its last conjunct ...
SocketUsable == socket > 0 /\ conns[socket].open /\ isConnected
\* ... and all of it, as the thread that resets lastKeepAliveReply sees it.
IsConnected == SocketUsable /\ lastKeepAliveReply # "expired"

\* Of a closed socket only the buffer of its BufferedReader is left.
ClosedConn(c) == [NewConn EXCEPT !.open = FALSE, !.wire = c.wire]
CloseSocket == conns' = IF socket = 0 THEN conns
                        ELSE [conns EXCEPT ![socket] = ClosedConn(@)]

Fault == faults < MaxFaults /\ faults' = faults + 1

\* The constructor of AisMessageReader runs connect() before any other thread
\* exists; afterwards only the health check connects.
ClientInit ==
  /\ conns = <<>> /\ aisReader = 0
  /\ isConnected = FALSE /\ lastKeepAliveReply = "null" /\ firstLine = TRUE
  /\ hpc = "createSocket" /\ status = "UNDEFINED"
  /\ rpc = "unborn" /\ reading = 0 /\ attempt = 1 /\ line = NoLine
  /\ sent = 0 /\ faults = 0

-----------------------------------------------------------------------------
(* keepAlive(): one run of the health check, and the connect() it may do.   *)

\* Sending the keep-alive may fail, which only changes the reported status.
ProbeConnected ==
  /\ hpc = "idle" /\ rpc # "unborn" /\ IsConnected
  /\ \/ CanSend /\ status' = "CONNECTED"
     \/ MayFailToSend /\ status' = "CONNECT_FAILURE"
  /\ UNCHANGED <<conns, aisReader, isConnected, lastKeepAliveReply, hpc, readingState,
                 sent, faults>>

ProbeDisconnected ==
  /\ hpc = "idle" /\ rpc # "unborn" /\ ~IsConnected
  /\ status' = "CONNECT_FAILURE" /\ hpc' = "close"
  /\ UNCHANGED <<conns, aisReader, isConnected, lastKeepAliveReply, readingState, sent, faults>>

CloseAfterLogoff ==   \* mutated: a failed log-off skips closing the socket
  /\ hpc = "close" /\ hpc' = "createSocket"
  /\ IF CanSend THEN CloseSocket ELSE UNCHANGED conns
  /\ UNCHANGED <<aisReader, isConnected, lastKeepAliveReply, status, readingState, sent, faults>>

\* reconnect(): close() sends a log-off and closes the socket; a failed log-off
\* and a null socket are caught.
CloseForReconnect ==
  /\ hpc = "close" /\ hpc' = "createSocket"
  /\ CloseSocket
  /\ UNCHANGED <<aisReader, isConnected, lastKeepAliveReply, status, readingState, sent, faults>>

CreateSocketSetConnected ==   \* mutated: the flag is set too early
  /\ hpc = "createSocket"
  /\ \/ conns' = Append(conns, NewConn) /\ hpc' = "createReader" /\ isConnected' = TRUE
     \/ hpc' = "idle" /\ UNCHANGED <<conns, isConnected>>
  /\ UNCHANGED <<aisReader, lastKeepAliveReply, status, readingState, sent, faults>>

\* The server may refuse, as often as it likes.
CreateSocket ==
  /\ hpc = "createSocket"
  /\ \/ conns' = Append(conns, NewConn) /\ hpc' = "createReader"
     \/ hpc' = "idle" /\ UNCHANGED conns
  /\ UNCHANGED <<aisReader, isConnected, lastKeepAliveReply, status, readingState, sent, faults>>

CreateAisReader ==
  /\ hpc = "createReader"
  /\ IF conns[socket].open
     THEN aisReader' = socket /\ hpc' = "login"
     ELSE hpc' = "idle" /\ UNCHANGED aisReader
  /\ UNCHANGED <<conns, isConnected, lastKeepAliveReply, status, readingState, sent, faults>>

Login ==
  /\ hpc = "login"
  /\ \/ CanSend /\ hpc' = "setConnected" /\ conns' = [conns EXCEPT ![socket].login = TRUE]
     \/ MayFailToSend /\ hpc' = "idle" /\ UNCHANGED conns
  /\ UNCHANGED <<aisReader, isConnected, lastKeepAliveReply, status, readingState, sent, faults>>

SetConnected ==
  /\ hpc = "setConnected" /\ hpc' = "resetReply" /\ isConnected' = TRUE
  /\ UNCHANGED <<conns, aisReader, lastKeepAliveReply, status, readingState, sent, faults>>

ResetReply ==
  /\ hpc = "resetReply" /\ hpc' = "idle" /\ lastKeepAliveReply' = "null"
  /\ UNCHANGED <<conns, aisReader, isConnected, status, readingState, sent, faults>>

Health == \/ ProbeConnected \/ ProbeDisconnected \/ CloseForReconnect \/ CreateSocket
          \/ CreateAisReader \/ Login \/ SetConnected \/ ResetReply

-----------------------------------------------------------------------------
(* isConnected() as the reader thread evaluates it.  lastKeepAliveReply is  *)
(* an unsynchronised field read twice: once against null, once for its time.*)

CheckUsable ==
  /\ rpc' = CASE ~SocketUsable -> "sleep"
              [] SocketUsable /\ lastKeepAliveReply = "null" -> "read"
              [] OTHER -> "recheck"
  /\ UNCHANGED <<connecting, firstLine, reading, attempt, line, sent, faults>>

\* Reset by connect() since the null check: NullPointerException, and the
\* executor never runs the reader again.
CheckReply ==
  /\ rpc = "recheck"
  /\ rpc' = CASE lastKeepAliveReply = "null" -> "dead"
              [] lastKeepAliveReply = "fresh" -> "read"
              [] OTHER -> "sleep"
  /\ UNCHANGED <<connecting, firstLine, reading, attempt, line, sent, faults>>

-----------------------------------------------------------------------------
(* readLine(): up to three blocking reads.                                  *)

\* The field aisReader is read anew for every call of BufferedReader.readLine.
BeginRead ==
  /\ rpc = "read" /\ rpc' = "blocked" /\ reading' = aisReader
  /\ UNCHANGED <<connecting, firstLine, attempt, line, sent, faults>>

\* A line arrives; one already buffered is returned even from a closed socket.
\* A keep-alive reply is noted and the next line read in its place, but only
\* once: the line after it is returned whatever it is.
ReadReceived ==
  /\ rpc = "blocked" /\ conns[reading].wire # <<>>
  /\ LET received == Head(conns[reading].wire) IN
     /\ conns' = [conns EXCEPT ![reading].wire = Tail(@)]
     /\ IF received.of = KeepAlive /\ attempt < 3
        THEN /\ lastKeepAliveReply' = "fresh"
             /\ attempt' = 3 /\ rpc' = "read" /\ UNCHANGED line
        ELSE /\ line' = IF firstLine THEN trimFirstLine(received) ELSE received
             /\ attempt' = 1 /\ rpc' = "got" /\ UNCHANGED lastKeepAliveReply
  /\ firstLine' = FALSE /\ reading' = 0
  /\ UNCHANGED <<aisReader, isConnected, hpc, status, sent, faults>>

\* End of stream, null: one quick retry, then trigger a reconnect.
ReadEndOfStream ==
  /\ rpc = "blocked" /\ conns[reading].open
  /\ conns[reading].peer = "eof" /\ conns[reading].wire = <<>>
  /\ IF attempt = 1
     THEN attempt' = 2 /\ rpc' = "read" /\ UNCHANGED firstLine
     ELSE attempt' = 1 /\ rpc' = "drop" /\ firstLine' = FALSE
  /\ reading' = 0
  /\ UNCHANGED <<connecting, line, sent, faults>>

FailedRead ==
  /\ rpc = "blocked" /\ rpc' = "drop" /\ attempt' = 1 /\ reading' = 0
  /\ UNCHANGED <<connecting, firstLine, line, sent>>

\* IOException: the socket is closed or reset, or nothing came for the
\* length of the socket timeout.
ReadFails ==
  /\ FailedRead
  /\ \/ (~conns[reading].open \/ conns[reading].peer = "reset") /\ UNCHANGED faults
     \/ conns[reading].wire = <<>> /\ Fault

NoReconnect ==   \* mutated: the flag survives a failed read
  /\ rpc = "drop" /\ rpc' = "sleep"
  /\ UNCHANGED <<connecting, firstLine, reading, attempt, line, sent, faults>>

TriggerReconnect ==
  /\ rpc = "drop" /\ rpc' = "sleep" /\ isConnected' = FALSE
  /\ UNCHANGED <<conns, aisReader, lastKeepAliveReply, hpc, status, firstLine, reading,
                 attempt, line, sent, faults>>

ReadLine == \/ BeginRead \/ ReadReceived \/ ReadEndOfStream \/ ReadFails
            \/ TriggerReconnect

-----------------------------------------------------------------------------
(* The other end, the network and the clock.                                *)

\* A logged-in client gets the sentences of the feed.
ServerSends ==
  /\ socket > 0 /\ conns[socket].login /\ conns[socket].peer = "up"
  /\ sent < MaxLines /\ Len(conns[socket].wire) < MaxWire
  /\ \E s \in Feed[sent + 1] :
       conns' = [conns EXCEPT
         ![socket].wire = Append(@, [n |-> sent + 1, of |-> s,
                                     proxied |-> Proxy /\ ~conns[socket].fed]),
         ![socket].fed = TRUE]
  /\ sent' = sent + 1
  /\ UNCHANGED <<aisReader, isConnected, lastKeepAliveReply, hpc, status, readingState, faults>>

\* It may answer a keep-alive, here also more than once.
ServerReplies ==
  /\ socket > 0 /\ conns[socket].login /\ conns[socket].peer = "up"
  /\ status = "CONNECTED" /\ Len(conns[socket].wire) < MaxWire
  /\ conns' = [conns EXCEPT ![socket].wire = Append(@, KeepAliveReply)]
  /\ UNCHANGED <<aisReader, isConnected, lastKeepAliveReply, hpc, status, readingState,
                 sent, faults>>

PeerFails ==
  /\ Fault /\ socket > 0 /\ conns[socket].peer = "up"
  /\ \E p \in {"eof", "reset"} : conns' = [conns EXCEPT ![socket].peer = p]
  /\ UNCHANGED <<aisReader, isConnected, lastKeepAliveReply, hpc, status, readingState, sent>>

\* keepAliveTimeout passes without another reply.
ReplyExpires ==
  /\ Fault /\ lastKeepAliveReply = "fresh" /\ lastKeepAliveReply' = "expired"
  /\ UNCHANGED <<conns, aisReader, isConnected, hpc, status, readingState, sent>>

Environment == ServerSends \/ ServerReplies \/ PeerFails \/ ReplyExpires

-----------------------------------------------------------------------------
ClientTypeOK ==
  /\ conns \in Seq(Conn) /\ aisReader \in 0..Len(conns)
  /\ isConnected \in BOOLEAN /\ firstLine \in BOOLEAN
  /\ lastKeepAliveReply \in {"null", "fresh", "expired"}
  /\ hpc \in {"idle", "close", "createSocket", "createReader", "login",
              "setConnected", "resetReply"}
  /\ status \in {"UNDEFINED", "CONNECTED", "CONNECT_FAILURE"}
  /\ rpc \in {"unborn", "loop", "recheck", "read", "blocked", "drop", "got",
              "sleep", "stopped", "dead"}
  /\ reading \in 0..Len(conns) /\ attempt \in 1..3
  /\ line \in Received \cup {NoLine}
  /\ sent \in 0..MaxLines /\ faults \in 0..MaxFaults
=============================================================================

---------------------- MODULE AisMessageReader_proofs ----------------------
(***************************************************************************)
(* Proofs about the AIS reader, for every set of sentences, every queue    *)
(* capacity and every bound: type correctness, no leaked sockets, no read  *)
(* through a missing BufferedReader, the joining of multipart messages,    *)
(* and the order of what is delivered over all connections.                *)
(***************************************************************************)
EXTENDS AisMessageReader, TLAPS

\* connect() publishes socket, reader and flag in this order, so whoever saw
\* the flag finds a reader.
Published ==
  /\ hpc = "createReader" => socket > 0
  /\ hpc \in {"login", "setConnected"} => aisReader > 0
  /\ isConnected => aisReader > 0
  /\ rpc \in {"recheck", "read", "blocked"} => aisReader > 0
  /\ rpc = "blocked" => reading > 0
  /\ rpc = "got" => line # NoLine

TypeInv == TypeOK /\ Published

\* A new socket is only created when the previous one has been closed.
LeakInv == NoSocketLeaks /\ (hpc = "createSocket" => \A c \in DOMAIN conns : ~conns[c].open)

\* While the reader lives, a cached first part is the line before this one.
CacheInv == (rpc # "dead" /\ cachedFirstPart # NoLine) =>
              /\ cachedFirstPart = lastLine
              /\ lastLine.of.part = 1 /\ lastLine.of.total > 1

\* Lines wait in the order they were sent, over all connections; a reader that
\* is blocked reads no newer connection than the client's.
WireInv ==
  /\ rpc = "blocked" => reading <= aisReader
  /\ \A c \in DOMAIN conns : \A i \in DOMAIN conns[c].wire :
       /\ conns[c].wire[i].n <= sent
       /\ conns[c].wire[i].n = 0 <=> conns[c].wire[i].of = KeepAlive
  /\ \A c, d \in DOMAIN conns : \A i \in DOMAIN conns[c].wire, j \in DOMAIN conns[d].wire :
       /\ c < d \/ (c = d /\ i < j)
       /\ conns[c].wire[i].of # KeepAlive /\ conns[d].wire[j].of # KeepAlive
       => conns[c].wire[i].n < conns[d].wire[j].n

\* The numbers that messages delivered end with (0 before any), also of the cached first part,
\* also of the line that run() works on.
LastNumbers == {0} \cup {Delivered[i][Len(Delivered[i])].n : i \in DOMAIN Delivered}
Kept == IF cachedFirstPart = NoLine THEN LastNumbers ELSE LastNumbers \cup {cachedFirstPart.n}
Taken == IF rpc = "got" THEN Kept \cup {line.n} ELSE Kept

\* The oldest connection the reader may still get a line from.
Source == IF rpc = "blocked" THEN reading ELSE aisReader

\* The numbers before everything that is still to come.
Past == {t \in 0..sent : \A c \in DOMAIN conns : Source <= c =>
           \A i \in DOMAIN conns[c].wire :
             conns[c].wire[i].of # KeepAlive => t < conns[c].wire[i].n}

\* While the reader lives, what was delivered is older than the cached first
\* part, that than the line, and that than what is still to come.
OrderInv ==
  /\ DeliversInOrder
  /\ \A i \in DOMAIN Delivered : Delivered[i] # <<>>
  /\ rpc # "dead" =>
       /\ cachedFirstPart # NoLine => \A t \in LastNumbers : t < cachedFirstPart.n
       /\ rpc = "got" /\ line.of # KeepAlive => \A t \in Kept : t < line.n
       /\ Taken \subseteq Past

-----------------------------------------------------------------------------
LEMMA FeedType == ASSUME TypeInv, sent < MaxLines PROVE Feed[sent + 1] \subseteq Sentences
<1>1. sent + 1 \in 1..MaxLines
  BY ClientAssumption DEF TypeInv, TypeOK, ClientTypeOK
<1>2. QED BY <1>1 DEF Sentences

LEMMA SentLineType == ASSUME NEW s \in Sentences, NEW k \in Nat, NEW b \in BOOLEAN
                      PROVE  [n |-> k, of |-> s, proxied |-> b] \in Received
BY DEF Received

LEMMA ReplyType == KeepAliveReply \in Received
BY DEF Received, KeepAliveReply

LEMMA TrimType == ASSUME NEW l \in Received PROVE trimFirstLine(l) \in Received
BY DEF Received, trimFirstLine

LEMMA ReceiveType ==
  ASSUME NEW c \in Conn, NEW l \in Received
  PROVE  /\ [c EXCEPT !.wire = Append(@, l)] \in Conn
         /\ [c EXCEPT !.wire = Append(@, l), !.fed = TRUE] \in Conn
<1>1. c.wire \in Seq(Received)
  BY DEF Conn
<1>2. Append(c.wire, l) \in Seq(Received)
  BY <1>1
<1>3. QED BY <1>2 DEF Conn

LEMMA ReceiveKeeps ==
  ASSUME NEW c \in Conn, NEW l \in Received
  PROVE  /\ [c EXCEPT !.wire = Append(@, l)].wire = Append(c.wire, l)
         /\ [c EXCEPT !.wire = Append(@, l), !.fed = TRUE].wire = Append(c.wire, l)
BY DEF Conn

LEMMA ReplaceConn ==
  ASSUME conns \in Seq(Conn), NEW k \in 1..Len(conns), NEW c, conns' = [conns EXCEPT ![k] = c]
  PROVE  conns'[k] = c /\ conns' = [conns EXCEPT ![k] = conns'[k]]
<1>1. conns'[k] = c
  OBVIOUS
<1> QED BY <1>1

LEMMA NewConnType == NewConn \in Conn
BY DEF NewConn, Conn

LEMMA ClosedConnType == ASSUME NEW c \in Conn PROVE ClosedConn(c) \in Conn
BY DEF ClosedConn, NewConn, Conn

LEMMA CloseSocketType ==
  ASSUME conns \in Seq(Conn), CloseSocket
  PROVE  /\ conns' \in Seq(Conn) /\ Len(conns') = Len(conns)
         /\ \A c \in 1..Len(conns) : conns'[c].open => conns[c].open /\ c # Len(conns)
<1>1. CASE Len(conns) = 0
  BY <1>1 DEF CloseSocket, socket
<1>2. CASE Len(conns) # 0
  <2>1. Len(conns) \in 1..Len(conns) /\ conns[Len(conns)] \in Conn
    BY <1>2
  <2>2. ClosedConn(conns[Len(conns)]) \in Conn /\ ~ClosedConn(conns[Len(conns)]).open
    BY <2>1, ClosedConnType DEF ClosedConn, NewConn
  <2>3. conns' = [conns EXCEPT ![Len(conns)] = ClosedConn(conns[Len(conns)])]
    BY <1>2 DEF CloseSocket, socket
  <2>4. QED
    BY <2>1, <2>2, <2>3
<1>3. QED BY <1>1, <1>2

-----------------------------------------------------------------------------
LEMMA TypeInit == Init => TypeInv
<1> SUFFICES ASSUME Init PROVE TypeInv
  OBVIOUS
<1>1. isConnected \in BOOLEAN /\ ~isConnected /\ firstLine \in BOOLEAN /\ readingEnabled \in BOOLEAN
  BY Zenon DEF Init, ClientInit
<1>2. QED
  BY <1>1, ClientAssumption, QueueAssumption
     DEF Init, ClientInit, TypeInv, TypeOK, ClientTypeOK, Published, socket

LEMMA TypeStep == TypeInv /\ [Next]_vars => TypeInv'
<1> SUFFICES ASSUME TypeInv, [Next]_vars PROVE TypeInv'
  OBVIOUS
<1> USE ClientAssumption, QueueAssumption
<1> USE DEF TypeInv, TypeOK, ClientTypeOK, Published
<1>1. CASE SetUp
  BY <1>1 DEF SetUp, connecting, readerVars, socket
<1>2. CASE Destroy
  <2>1. readingEnabled' \in BOOLEAN
    BY <1>2, Zenon DEF Destroy
  <2>2. QED
    BY <1>2, <2>1 DEF Destroy, clientVars, connecting, readingState, readerVars, socket
<1>3. CASE DestroyClose
  BY <1>3, CloseSocketType DEF DestroyClose, readingState, readerVars, socket
<1>4. CASE HealthRuns
  <2> USE DEF HealthRuns, readingState, readerVars, socket
  <2>1. CASE ProbeConnected
    BY <1>4, <2>1 DEF ProbeConnected
  <2>2. CASE ProbeDisconnected
    BY <1>4, <2>2 DEF ProbeDisconnected
  <2>3. CASE CloseForReconnect
    BY <1>4, <2>3, CloseSocketType DEF CloseForReconnect
  <2>4. CASE CreateSocket
    <3>1. CASE conns' = Append(conns, NewConn) /\ hpc' = "createReader"
      BY <1>4, <2>4, <3>1, NewConnType DEF CreateSocket
    <3>2. CASE hpc' = "idle" /\ UNCHANGED conns
      BY <1>4, <2>4, <3>2 DEF CreateSocket
    <3>3. QED BY <2>4, <3>1, <3>2 DEF CreateSocket
  <2>5. CASE CreateAisReader
    BY <1>4, <2>5 DEF CreateAisReader
  <2>6. CASE Login
    <3>1. CASE hpc' = "idle" /\ UNCHANGED conns
      BY <1>4, <2>6, <3>1 DEF Login
    <3>2. CASE CanSend /\ hpc' = "setConnected" /\ conns' = [conns EXCEPT ![socket].login = TRUE]
      <4>1. socket \in 1..Len(conns) /\ conns[socket] \in Conn
        BY <3>2 DEF CanSend
      <4>2. [conns[socket] EXCEPT !.login = TRUE] \in Conn
        BY <4>1 DEF Conn
      <4>3. conns' \in Seq(Conn) /\ Len(conns') = Len(conns)
        BY <3>2, <4>1, <4>2
      <4>4. QED BY <1>4, <2>6, <3>2, <4>3 DEF Login
    <3>3. QED BY <2>6, <3>1, <3>2 DEF Login
  <2>7. CASE SetConnected
    BY <1>4, <2>7 DEF SetConnected
  <2>8. CASE ResetReply
    BY <1>4, <2>8 DEF ResetReply
  <2>9. QED
    BY <1>4, <2>1, <2>2, <2>3, <2>4, <2>5, <2>6, <2>7, <2>8 DEF Health
<1>5. CASE LoopChecks \/ LoopEnds \/ Sleep
  BY <1>5 DEF LoopChecks, CheckUsable, SocketUsable, LoopEnds, Sleep, connecting, readerVars, socket
<1>6. CASE ReadsClient
  <2> USE DEF ReadsClient, connecting, readerVars, socket
  <2>1. CASE CheckReply \/ BeginRead
    BY <1>6, <2>1 DEF CheckReply, BeginRead
  <2>2. CASE ReadReceived
    <3>1. reading \in 1..Len(conns) /\ conns[reading] \in Conn
      BY <2>2 DEF ReadReceived
    <3>2. conns[reading].wire \in Seq(Received) /\ conns[reading].wire # <<>>
      BY <2>2, <3>1 DEF ReadReceived, Conn
    <3>3. Head(conns[reading].wire) \in Received /\ Tail(conns[reading].wire) \in Seq(Received)
      BY <3>2
    <3>4. [conns[reading] EXCEPT !.wire = Tail(@)] \in Conn
      BY <3>1, <3>3 DEF Conn
    <3>5. conns' \in Seq(Conn) /\ Len(conns') = Len(conns)
      BY <2>2, <3>1, <3>4 DEF ReadReceived
    <3>6. line' \in Received \cup {NoLine} /\ (rpc' = "got" => line' # NoLine) /\ rpc' \in {"got", "read"}
      BY <2>2, <3>3, TrimType DEF ReadReceived
    <3>7. firstLine' \in BOOLEAN
      BY <2>2, Zenon DEF ReadReceived
    <3>8. QED BY <1>6, <2>2, <3>5, <3>6, <3>7 DEF ReadReceived
  <2>3. CASE ReadEndOfStream
    <3>1. firstLine' \in BOOLEAN
      BY <2>3, Zenon DEF ReadEndOfStream, TypeInv, TypeOK, ClientTypeOK
    <3>2. QED BY <1>6, <2>3, <3>1 DEF ReadEndOfStream
  <2>4. CASE ReadFails
    BY <1>6, <2>4 DEF ReadFails, FailedRead, Fault
  <2>5. CASE TriggerReconnect
    <3>1. isConnected' \in BOOLEAN /\ ~isConnected'
      BY <2>5, Zenon DEF TriggerReconnect
    <3>2. QED BY <1>6, <2>5, <3>1 DEF TriggerReconnect
  <2>6. QED
    BY <1>6, <2>1, <2>2, <2>3, <2>4, <2>5 DEF ReadLine
<1>6a. CASE ReadTimesOut
  BY <1>6a DEF ReadTimesOut, FailedRead, connecting, readerVars, socket
<1>7. CASE WorkOnLine
  <2> USE DEF WorksOnLine, connecting, socket
  <2>1. rpc = "got" /\ line \in Received
    BY <1>7 DEF WorkOnLine, SkipUnsupported, CountersThrow, ChecksumThrows, ParseThrows,
                ParseGivesNull, OfferMessage, CacheFirstPart, IgnorePart
  <2>2. KeptFirstPart \in Received \cup {NoLine}
    BY DEF KeptFirstPart
  <2>3. Parts \in Message
    BY <2>1, <2>2 DEF Parts, Message
  <2>4. CASE SkipUnsupported
    BY <2>1, <2>4 DEF SkipUnsupported
  <2>5. CASE CountersThrow
    BY <2>1, <2>5 DEF CountersThrow
  <2>6. CASE ChecksumThrows \/ ParseThrows
    BY <2>1, <2>2, <2>6 DEF ChecksumThrows, ParseThrows
  <2>7. CASE ParseGivesNull \/ CacheFirstPart \/ IgnorePart
    BY <2>1, <2>2, <2>7 DEF ParseGivesNull, CacheFirstPart, IgnorePart
  <2>8. CASE OfferMessage
    <3>1. queue' \in Seq(Message) /\ Len(queue') <= QueueCapacity
      <4>1. CASE UNCHANGED queue
        BY <4>1
      <4>2. CASE Len(queue) < QueueCapacity /\ queue' = Append(queue, Parts)
        <5>1. queue' \in Seq(Message) /\ Len(queue') = Len(queue) + 1
          BY <2>3, <4>2
        <5>2. QED BY <4>2, <5>1
      <4>3. QED BY <2>8, <4>1, <4>2 DEF OfferMessage
    <3>2. QED BY <2>1, <2>8, <3>1 DEF OfferMessage
  <2>9. QED
    BY <1>7, <2>4, <2>5, <2>6, <2>7, <2>8 DEF WorkOnLine
<1>8. CASE ControllerTakes
  <2>1. /\ queue' \in Seq(Message) /\ Len(queue') <= QueueCapacity /\ handled' \in Seq(Message)
    BY <1>8 DEF ControllerTakes
  <2>2. QED
    BY <1>8, <2>1 DEF ControllerTakes, clientVars, connecting, readingState, socket
<1>9. CASE EnvironmentActs
  <2> USE DEF EnvironmentActs, readingState, readerVars, socket
  <2>1. CASE ServerSends
    <3>1. socket \in 1..Len(conns) /\ conns[socket] \in Conn
      BY <2>1 DEF ServerSends
    <3>1a. Feed[sent + 1] \subseteq Sentences
      BY <2>1, FeedType DEF ServerSends
    <3>2. PICK s \in Sentences :
            conns' = [conns EXCEPT
              ![socket].wire = Append(@, [n |-> sent + 1, of |-> s,
                                          proxied |-> Proxy /\ ~conns[socket].fed]),
              ![socket].fed = TRUE]
      BY <2>1, <3>1a DEF ServerSends
    <3> DEFINE b == Proxy /\ ~conns[socket].fed
               l == [n |-> sent + 1, of |-> s, proxied |-> b]
    <3>3. l \in Received
      <4>1. b \in BOOLEAN /\ sent + 1 \in Nat
        BY <3>1
      <4>2. QED BY <4>1, SentLineType
    <3>4. [conns[socket] EXCEPT !.wire = Append(@, l), !.fed = TRUE] \in Conn
      BY <3>1, <3>3, ReceiveType
    <3>5. conns' \in Seq(Conn) /\ Len(conns') = Len(conns)
      <4>1. conns' = [conns EXCEPT ![socket] = [conns[socket] EXCEPT !.wire = Append(@, l), !.fed = TRUE]]
        BY <3>1, <3>2
      <4> HIDE DEF l
      <4>2. QED BY <3>1, <3>4, <4>1
    <3>6. /\ sent < MaxLines /\ sent' = sent + 1
          /\ UNCHANGED <<aisReader, isConnected, lastKeepAliveReply, hpc, status, readingState,
                         faults>>
      BY <2>1 DEF ServerSends
    <3>7. QED BY <1>9, <3>5, <3>6
  <2>2. CASE PeerFails
    <3>1. PICK p \in {"eof", "reset"} : conns' = [conns EXCEPT ![socket].peer = p]
      BY <2>2 DEF PeerFails
    <3>2. socket \in 1..Len(conns) /\ conns[socket] \in Conn
      BY <2>2 DEF PeerFails
    <3>3. [conns[socket] EXCEPT !.peer = p] \in Conn
      BY <3>2 DEF Conn
    <3>4. conns' \in Seq(Conn) /\ Len(conns') = Len(conns)
      BY <3>1, <3>2, <3>3
    <3>5. QED BY <1>9, <2>2, <3>4 DEF PeerFails, Fault
  <2>3. CASE ReplyExpires
    BY <1>9, <2>3 DEF ReplyExpires, Fault
  <2>4. CASE ServerReplies
    <3>1. socket \in 1..Len(conns) /\ conns[socket] \in Conn
      BY <2>4 DEF ServerReplies
    <3>2. [conns[socket] EXCEPT !.wire = Append(@, KeepAliveReply)] \in Conn
      BY <3>1, ReplyType, ReceiveType
    <3>3. conns' \in Seq(Conn) /\ Len(conns') = Len(conns)
      BY <2>4, <3>1, <3>2 DEF ServerReplies
    <3>4. QED BY <1>9, <2>4, <3>3 DEF ServerReplies
  <2>5. QED BY <1>9, <2>1, <2>2, <2>3, <2>4 DEF Environment
<1>10. CASE UNCHANGED vars
  BY <1>10 DEF vars, clientVars, connecting, readingState, readerVars, socket
<1>11. QED
  BY <1>1, <1>2, <1>3, <1>4, <1>5, <1>6, <1>6a, <1>7, <1>8, <1>9, <1>10 DEF Next, Reader

\* The strengthened type invariant, cited by the theorems below.
LEMMA TypeInvariant == Spec => []TypeInv
<1>1. QED BY TypeInit, TypeStep, PTL DEF Spec

\* The variables always have the types of TypeOK, the queue its capacity.
THEOREM TypeCorrect == Spec => []TypeOK
<1>1. TypeInv => TypeOK
  BY DEF TypeInv
<1>2. QED BY <1>1, TypeInvariant, PTL

-----------------------------------------------------------------------------
(* No socket is leaked.                                                     *)

LEMMA LeakInit == Init => LeakInv
BY DEF Init, ClientInit, LeakInv, NoSocketLeaks

LEMMA NothingOpens ==
  ASSUME conns \in Seq(Conn), conns' \in Seq(Conn), LeakInv, Len(conns') = Len(conns),
         \A c \in 1..Len(conns) : conns'[c].open => conns[c].open,
         hpc' = "createSocket" => hpc = "createSocket"
  PROVE  LeakInv'
BY DEF LeakInv, NoSocketLeaks, socket

LEMMA AllClosed ==
  ASSUME conns \in Seq(Conn), conns' \in Seq(Conn), LeakInv, CloseSocket
  PROVE  LeakInv'
<1>1. /\ Len(conns') = Len(conns)
      /\ \A c \in 1..Len(conns) : conns'[c].open => conns[c].open /\ c # Len(conns)
  BY CloseSocketType
<1>2. \A c \in 1..Len(conns) : conns[c].open => c = Len(conns)
  BY DEF LeakInv, NoSocketLeaks, socket
<1>3. \A c \in 1..Len(conns') : ~conns'[c].open
  BY <1>1, <1>2
<1>4. QED BY <1>3 DEF LeakInv, NoSocketLeaks, socket

LEMMA LeakStep == TypeInv /\ TypeInv' /\ LeakInv /\ [Next]_vars => LeakInv'
<1> SUFFICES ASSUME TypeInv, TypeInv', LeakInv, [Next]_vars PROVE LeakInv'
  OBVIOUS
<1>0. conns \in Seq(Conn) /\ conns' \in Seq(Conn)
  BY DEF TypeInv, TypeOK, ClientTypeOK
<1>1. CASE UNCHANGED <<conns, hpc>>
  BY <1>0, <1>1, NothingOpens
<1>2. CASE SetUp \/ Destroy \/ (Reader /\ ~ReadReceived) \/ ControllerTakes \/ UNCHANGED vars
  BY <1>1, <1>2 DEF SetUp, Destroy, Reader, LoopChecks, CheckUsable, LoopEnds, Sleep,
       ReadsClient, CheckReply, ReadLine, BeginRead, ReadEndOfStream, ReadFails,
       FailedRead, ReadTimesOut, TriggerReconnect, WorkOnLine, WorksOnLine, SkipUnsupported, CountersThrow,
       ChecksumThrows, ParseThrows, ParseGivesNull, OfferMessage, CacheFirstPart,
       IgnorePart, ControllerTakes, vars, clientVars, connecting
<1>3. CASE ReadReceived
  <2>1. conns' = [conns EXCEPT ![reading].wire = Tail(@)] /\ hpc' = hpc
    BY <1>3 DEF ReadReceived
  <2>2. \A c \in 1..Len(conns) : conns'[c].open => conns[c].open
    BY <1>0, <2>1 DEF Conn
  <2>3. Len(conns') = Len(conns)
    BY <1>0, <2>1
  <2>4. QED BY <1>0, <2>1, <2>2, <2>3, NothingOpens
<1>4. CASE DestroyClose
  BY <1>0, <1>4, AllClosed DEF DestroyClose
<1>5. CASE HealthRuns
  <2>1. CASE Login
    <3>1. Len(conns') = Len(conns) /\ (hpc' = "createSocket" => hpc = "createSocket")
      BY <1>0, <2>1 DEF Login
    <3>2. \A c \in 1..Len(conns) : conns'[c].open => conns[c].open
      <4>1. CASE UNCHANGED conns
        BY <4>1
      <4>2. CASE conns' = [conns EXCEPT ![socket].login = TRUE]
        BY <1>0, <4>2 DEF Conn
      <4>3. QED BY <2>1, <4>1, <4>2 DEF Login
    <3>3. QED BY <1>0, <3>1, <3>2, NothingOpens
  <2>2. CASE CloseForReconnect
    BY <1>0, <2>2, AllClosed DEF CloseForReconnect
  <2>3. CASE CreateSocket
    <3>1. CASE UNCHANGED conns /\ hpc' = "idle"
      BY <1>0, <3>1, NothingOpens
    <3>2. CASE conns' = Append(conns, NewConn) /\ hpc' = "createReader"
      <4>1. \A c \in 1..Len(conns) : ~conns[c].open
        BY <1>0, <2>3 DEF CreateSocket, LeakInv
      <4>2. Len(conns') = Len(conns) + 1 /\ \A c \in 1..Len(conns) : conns'[c] = conns[c]
        BY <1>0, <3>2
      <4>3. \A c \in 1..Len(conns') : conns'[c].open => c = Len(conns')
        BY <1>0, <4>1, <4>2
      <4>4. QED BY <3>2, <4>3 DEF LeakInv, NoSocketLeaks, socket
    <3>3. QED BY <2>3, <3>1, <3>2 DEF CreateSocket
  <2>4. CASE ProbeConnected \/ ProbeDisconnected \/ CreateAisReader \/ SetConnected \/ ResetReply
    <3>1. UNCHANGED conns /\ hpc' # "createSocket"
      BY <2>4 DEF ProbeConnected, ProbeDisconnected, CreateAisReader, SetConnected, ResetReply
    <3>2. QED BY <1>0, <3>1, NothingOpens
  <2>5. QED BY <1>5, <2>1, <2>2, <2>3, <2>4 DEF HealthRuns, Health
<1>6. CASE EnvironmentActs
  <2>1. hpc' = hpc
    BY <1>6 DEF EnvironmentActs, Environment, ServerSends, ServerReplies, PeerFails, ReplyExpires
  <2>2. Len(conns') = Len(conns) /\ \A c \in 1..Len(conns) : conns'[c].open => conns[c].open
    <3>1. CASE UNCHANGED conns
      BY <3>1
    <3>2. CASE ServerSends
      BY <1>0, <3>2 DEF ServerSends, Conn
    <3>3. CASE PeerFails
      BY <1>0, <3>3 DEF PeerFails, Conn
    <3>4. CASE ServerReplies
      BY <1>0, <3>4 DEF ServerReplies, Conn
    <3>5. QED
      BY <1>6, <3>1, <3>2, <3>3, <3>4 DEF EnvironmentActs, Environment, ReplyExpires
  <2>3. QED BY <1>0, <2>1, <2>2, NothingOpens
<1>7. QED
  BY <1>2, <1>3, <1>4, <1>5, <1>6 DEF Next

\* NoSocketLeaks holds always.
THEOREM NoLeaks == Spec => []NoSocketLeaks
<1>1. LeakInv => NoSocketLeaks
  BY DEF LeakInv
<1>2. QED BY <1>1, TypeInvariant, LeakInit, LeakStep, PTL DEF Spec

\* NoNullReader holds always.
THEOREM NeverNullReader == Spec => []NoNullReader
<1>1. TypeInv => NoNullReader
  BY DEF TypeInv, Published, NoNullReader
<1>2. QED BY <1>1, TypeInvariant, PTL

-----------------------------------------------------------------------------
(* Multipart messages.                                                      *)

LEMMA CacheInit == Init => CacheInv
BY DEF Init, ClientInit, CacheInv

\* A reader thread that died stays dead.
LEMMA DeadStays == [Next]_vars /\ rpc = "dead" => rpc' = "dead"
<1> SUFFICES ASSUME [Next]_vars, rpc = "dead" PROVE rpc' = "dead"
  OBVIOUS
<1>1. CASE HealthRuns
  BY <1>1 DEF HealthRuns, Health, ProbeConnected, ProbeDisconnected, CloseForReconnect,
          CreateSocket, CreateAisReader, Login, SetConnected, ResetReply, readingState
<1>2. CASE Reader
  BY <1>2 DEF Reader, LoopChecks, LoopEnds, Sleep, ReadsClient, CheckReply, ReadLine, BeginRead,
          ReadReceived, ReadEndOfStream, ReadFails, FailedRead, ReadTimesOut, TriggerReconnect,
          WorkOnLine, WorksOnLine, SkipUnsupported, CountersThrow, ChecksumThrows, ParseThrows,
          ParseGivesNull, OfferMessage, CacheFirstPart, IgnorePart
<1>3. CASE EnvironmentActs
  BY <1>3 DEF EnvironmentActs, Environment, ServerSends, ServerReplies, PeerFails, ReplyExpires, readingState
<1> QED
  BY <1>1, <1>2, <1>3 DEF Next, SetUp, Destroy, DestroyClose, ControllerTakes, vars, clientVars, readingState

LEMMA CacheStep == CacheInv /\ [Next]_vars => CacheInv'
<1> SUFFICES ASSUME CacheInv, [Next]_vars PROVE CacheInv'
  OBVIOUS
<1> USE DEF CacheInv
<1>1. CASE WorkOnLine
  <2> USE DEF WorksOnLine
  <2>1. CASE SkipUnsupported \/ ParseGivesNull \/ OfferMessage
    BY <2>1 DEF SkipUnsupported, ParseGivesNull, OfferMessage
  <2>2. CASE CountersThrow \/ ChecksumThrows \/ ParseThrows
    BY <2>2 DEF CountersThrow, ChecksumThrows, ParseThrows
  <2>3. CASE CacheFirstPart
    BY <2>3 DEF CacheFirstPart, Readable, Part, isMultipartRadioMessage
  <2>4. CASE IgnorePart
    <3>1. KeptFirstPart = NoLine
      BY <2>4 DEF IgnorePart, Complete, KeptFirstPart
    <3>2. QED BY <2>4, <3>1 DEF IgnorePart
  <2>5. QED BY <1>1, <2>1, <2>2, <2>3, <2>4 DEF WorkOnLine
<1>2. CASE ~WorkOnLine
  <2>1. UNCHANGED <<cachedFirstPart, lastLine>>
    BY <1>2 DEF Next, SetUp, Destroy, DestroyClose, HealthRuns, Reader, LoopChecks, LoopEnds,
                Sleep, ReadTimesOut, ReadsClient, ControllerTakes, EnvironmentActs, vars, readerVars
  <2>2. rpc = "dead" => rpc' = "dead"
    BY DeadStays
  <2>3. QED BY <2>1, <2>2
<1>3. QED BY <1>1, <1>2

\* A two-sentence message joins a first part with the second part worked on
\* directly after it.
THEOREM JoinsOnlyNeighbours == Spec => JoinsNeighbours
<1> DEFINE Joins == Len(queue') > Len(queue) /\ Len(queue'[Len(queue')]) > 1
                      => /\ queue'[Len(queue')] = <<lastLine, line>>
                         /\ lastLine.of.part = 1 /\ lastLine.of.total > 1
                         /\ line.of.part = 2 /\ line.of.total > 1
<1>1. TypeInv /\ CacheInv /\ [Next]_vars => Joins
  <2> SUFFICES ASSUME TypeInv, CacheInv, [Next]_vars, Len(queue') > Len(queue),
                      Len(queue'[Len(queue')]) > 1
               PROVE  /\ queue'[Len(queue')] = <<lastLine, line>>
                      /\ lastLine.of.part = 1 /\ lastLine.of.total > 1
                      /\ line.of.part = 2 /\ line.of.total > 1
    OBVIOUS
  <2>1. queue \in Seq(Message)
    BY DEF TypeInv, TypeOK
  <2>2. ~ControllerTakes
    BY <2>1 DEF ControllerTakes
  <2>3. OfferMessage
    BY <2>1, <2>2 DEF Next, SetUp, Destroy, DestroyClose, HealthRuns, Reader, LoopChecks,
         LoopEnds, Sleep, ReadsClient, ReadTimesOut, EnvironmentActs, vars, readerVars, WorkOnLine,
         SkipUnsupported, CountersThrow, ChecksumThrows, ParseThrows, ParseGivesNull,
         CacheFirstPart, IgnorePart
  <2>4. queue' = Append(queue, Parts)
    BY <2>1, <2>3 DEF OfferMessage
  <2>5. queue'[Len(queue')] = Parts
    BY <2>1, <2>4
  <2>6. KeptFirstPart # NoLine /\ Parts = <<KeptFirstPart, line>>
    BY <2>5 DEF Parts
  <2>7. Part(2) /\ KeptFirstPart = cachedFirstPart
    BY <2>6 DEF KeptFirstPart
  <2>8. rpc = "got"
    BY <2>3 DEF OfferMessage, WorksOnLine
  <2>9. QED
    BY <2>5, <2>6, <2>7, <2>8 DEF CacheInv, Part, isMultipartRadioMessage
<1>2. QED
  BY <1>1, TypeInvariant, CacheInit, CacheStep, PTL DEF Spec, JoinsNeighbours

-----------------------------------------------------------------------------
(* Order.                                                                   *)

\* What a connection's lines are after a step that neither sends nor takes one.
LEMMA WiresKept ==
  ASSUME TypeInv, TypeInv', [Next]_vars, ~ReadReceived, ~ServerSends, ~ServerReplies
  PROVE  /\ sent' = sent
         /\ \A c \in DOMAIN conns' :
              \/ conns'[c].wire = <<>>
              \/ c \in DOMAIN conns /\ conns'[c].wire = conns[c].wire
<1>0. conns \in Seq(Conn) /\ conns' \in Seq(Conn)
  BY DEF TypeInv, TypeOK, ClientTypeOK
<1>1. ASSUME UNCHANGED <<conns, sent>>
      PROVE  /\ sent' = sent
             /\ \A c \in DOMAIN conns' : c \in DOMAIN conns /\ conns'[c].wire = conns[c].wire
  BY <1>1
<1>2. CASE SetUp \/ Destroy \/ Reader \/ ControllerTakes \/ UNCHANGED vars
  <2>1. UNCHANGED <<conns, sent>>
    BY <1>2 DEF SetUp, Destroy, Reader, LoopChecks, CheckUsable, LoopEnds, Sleep,
         ReadsClient, CheckReply, ReadLine, BeginRead, ReadEndOfStream, ReadFails,
         FailedRead, ReadTimesOut, TriggerReconnect, WorkOnLine, WorksOnLine, SkipUnsupported,
         CountersThrow, ChecksumThrows, ParseThrows, ParseGivesNull, OfferMessage,
         CacheFirstPart, IgnorePart, ControllerTakes, vars, clientVars, connecting
  <2> QED BY <1>1, <2>1
<1>3. ASSUME CloseSocket PROVE \A c \in DOMAIN conns' : c \in DOMAIN conns /\ conns'[c].wire = conns[c].wire
  <2>1. \A c \in DOMAIN conns : ClosedConn(conns[c]).wire = conns[c].wire
    BY <1>0 DEF ClosedConn, NewConn, Conn
  <2> QED BY <1>0, <1>3, <2>1 DEF CloseSocket
<1>4. CASE DestroyClose
  BY <1>3, <1>4 DEF DestroyClose
<1>5. CASE HealthRuns
  <2>1. CASE Login
    <3>1. CASE conns' = [conns EXCEPT ![socket].login = TRUE]
      BY <1>0, <2>1, <3>1 DEF Login, Conn
    <3> QED BY <1>1, <2>1, <3>1 DEF Login
  <2>2. CASE CloseForReconnect
    BY <1>3, <2>2 DEF CloseForReconnect
  <2>3. CASE CreateSocket
    <3>1. CASE conns' = Append(conns, NewConn)
      BY <1>0, <2>3, <3>1 DEF CreateSocket, NewConn
    <3> QED BY <1>1, <2>3, <3>1 DEF CreateSocket
  <2>4. CASE ProbeConnected \/ ProbeDisconnected \/ CreateAisReader \/ SetConnected \/ ResetReply
    BY <1>1, <2>4 DEF ProbeConnected, ProbeDisconnected, CreateAisReader, SetConnected, ResetReply
  <2> QED BY <1>5, <2>1, <2>2, <2>3, <2>4 DEF HealthRuns, Health
<1>6. CASE EnvironmentActs
  <2>1. CASE PeerFails
    BY <1>0, <2>1 DEF PeerFails, Conn
  <2>2. CASE ReplyExpires
    BY <1>1, <2>2 DEF ReplyExpires
  <2> QED BY <1>6, <2>1, <2>2 DEF EnvironmentActs, Environment
<1> QED BY <1>2, <1>4, <1>5, <1>6 DEF Next

\* The reader moves on to newer connections only.
LEMMA SourceMoves ==
  ASSUME TypeInv, TypeInv', WireInv, [Next]_vars
  PROVE  Source <= Source' /\ (rpc' = "blocked" => reading' <= aisReader')
<1>0. /\ aisReader \in 0..Len(conns) /\ reading \in 0..Len(conns) /\ Len(conns) \in Nat
      /\ (rpc = "blocked" => reading <= aisReader)
  BY DEF TypeInv, TypeOK, ClientTypeOK, WireInv
<1>1. CASE UNCHANGED <<aisReader, reading, rpc>>
  BY <1>0, <1>1 DEF Source
<1>2. CASE Reader
  <2>1. UNCHANGED aisReader
    BY <1>2 DEF Reader, LoopChecks, CheckUsable, LoopEnds, Sleep, ReadsClient, CheckReply,
         ReadLine, BeginRead, ReadReceived, ReadEndOfStream, ReadFails, FailedRead, ReadTimesOut,
         TriggerReconnect, WorkOnLine, WorksOnLine, SkipUnsupported, CountersThrow,
         ChecksumThrows, ParseThrows, ParseGivesNull, OfferMessage, CacheFirstPart, IgnorePart,
         connecting
  <2>2. rpc' # "blocked" \/ (rpc = "read" /\ rpc' = "blocked" /\ reading' = aisReader)
    BY <1>2 DEF Reader, LoopChecks, CheckUsable, LoopEnds, Sleep, ReadsClient, CheckReply,
         ReadLine, BeginRead, ReadReceived, ReadEndOfStream, ReadFails, FailedRead, ReadTimesOut,
         TriggerReconnect, WorkOnLine, WorksOnLine, SkipUnsupported, CountersThrow,
         ChecksumThrows, ParseThrows, ParseGivesNull, OfferMessage, CacheFirstPart, IgnorePart
  <2> QED BY <1>0, <2>1, <2>2 DEF Source
<1>3. CASE SetUp
  BY <1>0, <1>3 DEF SetUp, connecting, Source
<1>4. CASE HealthRuns
  <2>1. UNCHANGED <<rpc, reading>> /\ aisReader' \in {aisReader, socket}
    BY <1>4 DEF HealthRuns, Health, ProbeConnected, ProbeDisconnected, CloseForReconnect,
         CreateSocket, CreateAisReader, Login, SetConnected, ResetReply, readingState
  <2> QED BY <1>0, <2>1 DEF Source, socket
<1>5. CASE Destroy \/ DestroyClose \/ ControllerTakes \/ EnvironmentActs \/ UNCHANGED vars
  BY <1>1, <1>5 DEF Destroy, DestroyClose, ControllerTakes, EnvironmentActs, Environment,
       ServerSends, ServerReplies, PeerFails, ReplyExpires, vars, clientVars, connecting, readingState
<1> QED BY <1>2, <1>3, <1>4, <1>5 DEF Next

\* Taking a line leaves the others on their connection, one place further on.
LEMMA LineTaken ==
  ASSUME TypeInv, ReadReceived
  PROVE  /\ reading \in DOMAIN conns /\ DOMAIN conns' = DOMAIN conns /\ sent' = sent
         /\ 1 \in DOMAIN conns[reading].wire
         /\ Head(conns[reading].wire) = conns[reading].wire[1]
         /\ \A c \in DOMAIN conns : c # reading => conns'[c].wire = conns[c].wire
         /\ \A i \in DOMAIN conns'[reading].wire :
              /\ i + 1 \in DOMAIN conns[reading].wire /\ i \in Nat /\ 1 < i + 1
              /\ conns'[reading].wire[i] = conns[reading].wire[i + 1]
<1>1. conns \in Seq(Conn) /\ reading \in 1..Len(conns) /\ conns[reading] \in Conn
  BY DEF TypeInv, TypeOK, ClientTypeOK, Published, ReadReceived
<1>2. conns[reading].wire \in Seq(Received) /\ conns[reading].wire # <<>>
  BY <1>1 DEF ReadReceived, Conn
<1>3. conns' = [conns EXCEPT ![reading].wire = Tail(@)] /\ sent' = sent
  BY DEF ReadReceived
<1>4. conns'[reading].wire = Tail(conns[reading].wire)
  BY <1>1, <1>3 DEF Conn
<1>5. /\ Head(conns[reading].wire) = conns[reading].wire[1] /\ 1 \in DOMAIN conns[reading].wire
      /\ \A i \in DOMAIN Tail(conns[reading].wire) :
           /\ i + 1 \in DOMAIN conns[reading].wire /\ i \in Nat /\ 1 < i + 1
           /\ Tail(conns[reading].wire)[i] = conns[reading].wire[i + 1]
  BY <1>2
<1> QED BY <1>1, <1>3, <1>4, <1>5 DEF Conn

\* A line that the server sends comes last on the newest connection.
LEMMA LineSent ==
  ASSUME TypeInv, ServerSends \/ ServerReplies
  PROVE  /\ socket \in DOMAIN conns /\ DOMAIN conns' = DOMAIN conns /\ DOMAIN conns = 1..socket
         /\ \A c \in DOMAIN conns : c # socket => conns'[c].wire = conns[c].wire
         /\ sent \in Nat /\ sent' \in Nat /\ sent <= sent'
         /\ \E l \in Received :
              /\ \/ l.n = sent + 1 /\ l.of # KeepAlive /\ sent' = sent + 1
                 \/ l.n = 0 /\ l.of = KeepAlive
              /\ \A i \in DOMAIN conns'[socket].wire :
                   \/ /\ i \in DOMAIN conns[socket].wire
                      /\ conns'[socket].wire[i] = conns[socket].wire[i]
                   \/ /\ conns'[socket].wire[i] = l /\ i = Len(conns[socket].wire) + 1
<1>1. conns \in Seq(Conn) /\ socket \in 1..Len(conns) /\ conns[socket] \in Conn
  BY DEF TypeInv, TypeOK, ClientTypeOK, ServerSends, ServerReplies, socket
<1>2. conns[socket].wire \in Seq(Received)
  BY <1>1 DEF Conn
<1>3. sent \in Nat
  BY ClientAssumption DEF TypeInv, TypeOK, ClientTypeOK
<1>4. ASSUME NEW l \in Received, conns' = [conns EXCEPT ![socket] = conns'[socket]],
             conns'[socket].wire = Append(conns[socket].wire, l)
      PROVE  /\ DOMAIN conns' = DOMAIN conns
             /\ \A c \in DOMAIN conns : c # socket => conns'[c].wire = conns[c].wire
             /\ \A i \in DOMAIN conns'[socket].wire :
                  \/ /\ i \in DOMAIN conns[socket].wire
                     /\ conns'[socket].wire[i] = conns[socket].wire[i]
                  \/ /\ conns'[socket].wire[i] = l /\ i = Len(conns[socket].wire) + 1
  <2>1. \A i \in DOMAIN Append(conns[socket].wire, l) :
          \/ /\ i \in DOMAIN conns[socket].wire
             /\ Append(conns[socket].wire, l)[i] = conns[socket].wire[i]
          \/ /\ Append(conns[socket].wire, l)[i] = l /\ i = Len(conns[socket].wire) + 1
    BY <1>2
  <2> QED BY <1>1, <1>4, <2>1
<1>5. CASE ServerSends
  <2>1. PICK s \in Sentences :
          conns' = [conns EXCEPT
            ![socket].wire = Append(@, [n |-> sent + 1, of |-> s,
                                        proxied |-> Proxy /\ ~conns[socket].fed]),
            ![socket].fed = TRUE]
    <3>1. Feed[sent + 1] \subseteq Sentences
      BY <1>5, FeedType DEF ServerSends
    <3> QED BY <1>5, <3>1 DEF ServerSends
  <2> DEFINE b == Proxy /\ ~conns[socket].fed
             l == [n |-> sent + 1, of |-> s, proxied |-> b]
  <2>2. l \in Received
    <3>1. b \in BOOLEAN /\ sent + 1 \in Nat
      BY <1>3
    <3> QED BY <3>1, SentLineType
  <2>3. l.n = sent + 1 /\ l.of # KeepAlive /\ sent' = sent + 1
    BY <1>5, ClientAssumption DEF ServerSends
  <2>4. /\ conns' = [conns EXCEPT ![socket] = conns'[socket]]
        /\ conns'[socket].wire = Append(conns[socket].wire, l)
    <3>1. conns' = [conns EXCEPT ![socket] = [conns[socket] EXCEPT !.wire = Append(@, l), !.fed = TRUE]]
      BY <1>1, <2>1
    <3> DEFINE c == [conns[socket] EXCEPT !.wire = Append(@, l), !.fed = TRUE]
    <3> HIDE DEF l
    <3>2. c.wire = Append(conns[socket].wire, l)
      BY <1>1, <2>2, ReceiveKeeps
    <3>3. conns' = [conns EXCEPT ![socket] = c]
      BY <3>1
    <3> HIDE DEF c
    <3> QED BY <1>1, <3>2, <3>3, ReplaceConn
  <2> HIDE DEF l
  <2> QED BY <1>1, <1>3, <1>4, <2>2, <2>3, <2>4 DEF socket
<1>6. CASE ServerReplies
  <2>1. KeepAliveReply \in Received /\ KeepAliveReply.n = 0 /\ KeepAliveReply.of = KeepAlive
    BY ReplyType DEF KeepAliveReply
  <2>2. conns' = [conns EXCEPT ![socket].wire = Append(@, KeepAliveReply)] /\ sent' = sent
    BY <1>6 DEF ServerReplies
  <2>3. /\ conns' = [conns EXCEPT ![socket] = conns'[socket]]
        /\ conns'[socket].wire = Append(conns[socket].wire, KeepAliveReply)
    <3>1. conns' = [conns EXCEPT ![socket] = [conns[socket] EXCEPT !.wire = Append(@, KeepAliveReply)]]
      BY <1>1, <2>2
    <3> QED BY <1>1, <2>1, <3>1, ReplaceConn, ReceiveKeeps
  <2> QED BY <1>1, <1>3, <1>4, <2>1, <2>2, <2>3 DEF socket
<1> QED BY <1>5, <1>6

LEMMA WireInit == Init => WireInv
BY DEF Init, ClientInit, WireInv

\* The bounds and the order of WireInv, to be cited without opening it.
LEMMA WireFacts ==
  ASSUME WireInv
  PROVE  /\ \A c \in DOMAIN conns : \A i \in DOMAIN conns[c].wire :
              /\ conns[c].wire[i].n <= sent
              /\ conns[c].wire[i].n = 0 <=> conns[c].wire[i].of = KeepAlive
         /\ \A c, d \in DOMAIN conns : \A i \in DOMAIN conns[c].wire, j \in DOMAIN conns[d].wire :
              /\ c < d \/ (c = d /\ i < j)
              /\ conns[c].wire[i].of # KeepAlive /\ conns[d].wire[j].of # KeepAlive
              => conns[c].wire[i].n < conns[d].wire[j].n
BY DEF WireInv

LEMMA WireSeq ==
  ASSUME TypeInv, NEW c \in DOMAIN conns
  PROVE  /\ conns[c].wire \in Seq(Received) /\ DOMAIN conns[c].wire = 1..Len(conns[c].wire)
         /\ Len(conns[c].wire) \in Nat
<1>1. conns[c] \in Conn
  BY DEF TypeInv, TypeOK, ClientTypeOK
<1>2. conns[c].wire \in Seq(Received)
  BY <1>1 DEF Conn
<1> QED BY <1>2

LEMMA WireType ==
  ASSUME TypeInv, NEW c \in DOMAIN conns, NEW i \in DOMAIN conns[c].wire
  PROVE  /\ c \in Nat /\ i \in Nat /\ c <= socket /\ socket \in Nat
         /\ conns[c].wire[i] \in Received /\ conns[c].wire[i].n \in Nat
<1>1. conns \in Seq(Conn)
  BY DEF TypeInv, TypeOK, ClientTypeOK
<1>2. c \in Nat /\ c <= socket /\ socket \in Nat /\ conns[c] \in Conn
  BY <1>1 DEF socket
<1>3. conns[c].wire \in Seq(Received)
  BY <1>2 DEF Conn
<1>4. i \in Nat /\ conns[c].wire[i] \in Received
  BY <1>3
<1> QED BY <1>2, <1>4 DEF Received

LEMMA WireStep ==
  ASSUME TypeInv, TypeInv', WireInv, [Next]_vars
  PROVE  WireInv'
<1>0. /\ Len(conns) \in Nat /\ \A c \in DOMAIN conns : c \in Nat /\ c <= Len(conns)
      /\ \A c \in DOMAIN conns' : \A i \in DOMAIN conns'[c].wire : i \in Nat
  <2>1. conns \in Seq(Conn) /\ conns' \in Seq(Conn)
    BY DEF TypeInv, TypeOK, ClientTypeOK
  <2>2. ASSUME NEW c \in DOMAIN conns', NEW i \in DOMAIN conns'[c].wire PROVE i \in Nat
    <3>1. conns'[c] \in Conn
      BY <2>1
    <3>2. conns'[c].wire \in Seq(Received)
      BY <3>1 DEF Conn
    <3> QED BY <3>2
  <2> QED BY <2>1, <2>2
<1>1. rpc' = "blocked" => reading' <= aisReader'
  BY SourceMoves
<1>2. CASE ~ReadReceived /\ ~ServerSends /\ ~ServerReplies
  <2>1. /\ sent' = sent
        /\ \A c \in DOMAIN conns' :
             \/ DOMAIN conns'[c].wire = {}
             \/ c \in DOMAIN conns /\ conns'[c].wire = conns[c].wire
    BY <1>2, WiresKept
  <2> QED BY <1>1, <2>1, WireFacts DEF WireInv
<1>3. CASE ReadReceived
  <2>1. /\ reading \in DOMAIN conns /\ DOMAIN conns' = DOMAIN conns /\ sent' = sent
        /\ \A c \in DOMAIN conns : c # reading => conns'[c].wire = conns[c].wire
        /\ \A i \in DOMAIN conns'[reading].wire :
             /\ i + 1 \in DOMAIN conns[reading].wire /\ i \in Nat
             /\ conns'[reading].wire[i] = conns[reading].wire[i + 1]
    BY <1>3, LineTaken
  <2>2. ASSUME NEW c \in DOMAIN conns', NEW i \in DOMAIN conns'[c].wire
        PROVE  \E k \in DOMAIN conns[c].wire :
                 /\ conns'[c].wire[i] = conns[c].wire[k]
                 /\ k = IF c = reading THEN i + 1 ELSE i
    BY <2>1
  <2>3. ASSUME NEW c \in DOMAIN conns', NEW i \in DOMAIN conns'[c].wire
        PROVE  /\ conns'[c].wire[i].n <= sent'
               /\ conns'[c].wire[i].n = 0 <=> conns'[c].wire[i].of = KeepAlive
    BY <2>1, <2>2, WireFacts
  <2>4. ASSUME NEW c \in DOMAIN conns', NEW d \in DOMAIN conns',
               NEW i \in DOMAIN conns'[c].wire, NEW j \in DOMAIN conns'[d].wire,
               c < d \/ (c = d /\ i < j),
               conns'[c].wire[i].of # KeepAlive, conns'[d].wire[j].of # KeepAlive
        PROVE  conns'[c].wire[i].n < conns'[d].wire[j].n
    <3>1. PICK k \in DOMAIN conns[c].wire : /\ conns'[c].wire[i] = conns[c].wire[k]
                                            /\ k = IF c = reading THEN i + 1 ELSE i
      BY <2>2
    <3>2. PICK l \in DOMAIN conns[d].wire : /\ conns'[d].wire[j] = conns[d].wire[l]
                                            /\ l = IF d = reading THEN j + 1 ELSE j
      BY <2>2
    <3>3. i \in Nat /\ j \in Nat
      BY <1>0
    <3>4. c < d \/ (c = d /\ k < l)
      BY <2>4, <3>1, <3>2, <3>3
    <3> QED BY <2>1, <2>4, <3>1, <3>2, <3>4, WireFacts
  <2> QED BY <1>1, <2>3, <2>4 DEF WireInv
<1>4. CASE ServerSends \/ ServerReplies
  <2>1. /\ socket \in DOMAIN conns /\ DOMAIN conns' = DOMAIN conns /\ DOMAIN conns = 1..socket
        /\ \A c \in DOMAIN conns : c # socket => conns'[c].wire = conns[c].wire
        /\ sent \in Nat /\ sent' \in Nat /\ sent <= sent'
    BY <1>4, LineSent
  <2>2. PICK l \in Received :
             /\ \/ l.n = sent + 1 /\ l.of # KeepAlive /\ sent' = sent + 1
                \/ l.n = 0 /\ l.of = KeepAlive
             /\ \A i \in DOMAIN conns'[socket].wire :
                  \/ /\ i \in DOMAIN conns[socket].wire
                     /\ conns'[socket].wire[i] = conns[socket].wire[i]
                  \/ /\ conns'[socket].wire[i] = l /\ i = Len(conns[socket].wire) + 1
    BY <1>4, LineSent
  <2>3. ASSUME NEW c \in DOMAIN conns', NEW i \in DOMAIN conns'[c].wire
        PROVE  \/ i \in DOMAIN conns[c].wire /\ conns'[c].wire[i] = conns[c].wire[i]
               \/ /\ c = socket /\ conns'[c].wire[i] = l
                  /\ i = Len(conns[socket].wire) + 1
    BY <2>1, <2>2
  <2>4. ASSUME NEW c \in DOMAIN conns', NEW i \in DOMAIN conns'[c].wire
        PROVE  /\ conns'[c].wire[i].n <= sent'
               /\ conns'[c].wire[i].n = 0 <=> conns'[c].wire[i].of = KeepAlive
    <3>1. CASE i \in DOMAIN conns[c].wire /\ conns'[c].wire[i] = conns[c].wire[i]
      BY <2>1, <3>1, WireFacts, WireType
    <3>2. CASE conns'[c].wire[i] = l
      BY <2>1, <2>2, <3>2
    <3> QED BY <2>3, <3>1, <3>2
  <2>5. ASSUME NEW c \in DOMAIN conns', NEW d \in DOMAIN conns',
               NEW i \in DOMAIN conns'[c].wire, NEW j \in DOMAIN conns'[d].wire,
               c < d \/ (c = d /\ i < j),
               conns'[c].wire[i].of # KeepAlive, conns'[d].wire[j].of # KeepAlive
        PROVE  conns'[c].wire[i].n < conns'[d].wire[j].n
    <3>1. i \in Nat /\ j \in Nat /\ c \in Nat /\ d \in Nat /\ c <= socket /\ d <= socket /\ socket \in Nat
      BY <1>0, <2>1 DEF socket
    <3>2. CASE i \in DOMAIN conns[c].wire /\ conns'[c].wire[i] = conns[c].wire[i]
      <4>1. CASE j \in DOMAIN conns[d].wire /\ conns'[d].wire[j] = conns[d].wire[j]
        BY <2>1, <2>5, <3>2, <4>1, WireFacts
      <4>2. CASE conns'[d].wire[j] = l
        BY <2>1, <2>2, <2>5, <3>2, <4>2, WireFacts, WireType
      <4> QED BY <2>3, <4>1, <4>2
    <3>3. CASE /\ c = socket /\ conns'[c].wire[i] = l
               /\ i = Len(conns[socket].wire) + 1
      <4>1. d = socket /\ i < j
        BY <2>5, <3>1, <3>3
      <4>2. DOMAIN conns[socket].wire = 1..Len(conns[socket].wire) /\ Len(conns[socket].wire) \in Nat
        BY <2>1, WireSeq
      <4> QED BY <2>3, <3>1, <3>3, <4>1, <4>2
    <3> QED BY <2>3, <3>2, <3>3
  <2> QED BY <1>1, <2>4, <2>5 DEF WireInv
<1> QED BY <1>2, <1>3, <1>4

\* What is still to come only becomes later.
LEMMA PastKept ==
  ASSUME TypeInv, TypeInv', WireInv, [Next]_vars
  PROVE  Past \subseteq Past'
<1>0. /\ Source \in Nat /\ Source' \in Nat /\ Source <= Source' /\ sent \in Nat
      /\ DOMAIN conns' \subseteq Nat
  <2>1. conns' \in Seq(Conn)
    BY DEF TypeInv, TypeOK, ClientTypeOK
  <2>2. aisReader \in Nat /\ reading \in Nat /\ aisReader' \in Nat /\ reading' \in Nat /\ sent \in Nat
    BY ClientAssumption DEF TypeInv, TypeOK, ClientTypeOK
  <2> QED BY <2>1, <2>2, SourceMoves DEF Source
<1> SUFFICES ASSUME NEW t \in Past PROVE t \in Past'
  OBVIOUS
<1>1. /\ t \in 0..sent
      /\ \A c \in DOMAIN conns : Source <= c =>
           \A i \in DOMAIN conns[c].wire : conns[c].wire[i].of # KeepAlive => t < conns[c].wire[i].n
  BY DEF Past
<1>2. /\ sent' \in Nat /\ sent <= sent'
      /\ \A c \in DOMAIN conns' : Source <= c =>
           \A i \in DOMAIN conns'[c].wire : conns'[c].wire[i].of # KeepAlive => t < conns'[c].wire[i].n
  <2>1. CASE ~ReadReceived /\ ~ServerSends /\ ~ServerReplies
    <3>1. /\ sent' = sent
          /\ \A c \in DOMAIN conns' :
               \/ DOMAIN conns'[c].wire = {}
               \/ c \in DOMAIN conns /\ conns'[c].wire = conns[c].wire
      BY <2>1, WiresKept
    <3> QED BY <1>0, <1>1, <3>1
  <2>2. CASE ReadReceived
    <3>1. /\ reading \in DOMAIN conns /\ DOMAIN conns' = DOMAIN conns /\ sent' = sent
          /\ \A c \in DOMAIN conns : c # reading => conns'[c].wire = conns[c].wire
          /\ \A i \in DOMAIN conns'[reading].wire :
               /\ i + 1 \in DOMAIN conns[reading].wire
               /\ conns'[reading].wire[i] = conns[reading].wire[i + 1]
      BY <2>2, LineTaken
    <3> QED BY <1>0, <1>1, <3>1
  <2>3. CASE ServerSends \/ ServerReplies
    <3>1. /\ DOMAIN conns' = DOMAIN conns /\ sent \in Nat /\ sent' \in Nat /\ sent <= sent'
          /\ \A c \in DOMAIN conns : c # socket => conns'[c].wire = conns[c].wire
      BY <2>3, LineSent
    <3>2. PICK l \in Received :
             /\ \/ l.n = sent + 1 /\ l.of # KeepAlive /\ sent' = sent + 1
                \/ l.n = 0 /\ l.of = KeepAlive
             /\ \A i \in DOMAIN conns'[socket].wire :
                  \/ /\ i \in DOMAIN conns[socket].wire
                     /\ conns'[socket].wire[i] = conns[socket].wire[i]
                  \/ /\ conns'[socket].wire[i] = l /\ i = Len(conns[socket].wire) + 1
      BY <2>3, LineSent
    <3>3. l.of # KeepAlive => t < l.n
      BY <1>1, <3>1, <3>2
    <3> QED BY <1>1, <3>1, <3>2, <3>3
  <2> QED BY <2>1, <2>2, <2>3
<1>3. t \in 0..sent'
  BY <1>0, <1>1, <1>2
<1>4. \A c \in DOMAIN conns' : Source' <= c => Source <= c
  BY <1>0
<1> QED BY <1>2, <1>3, <1>4 DEF Past

\* Messages that leave the queue stay delivered; only an offer adds one.
LEMMA DeliveredChanges ==
  ASSUME TypeInv, [Next]_vars
  PROVE  /\ Delivered \in Seq(Message)
         /\ Delivered' = Delivered \/ (OfferMessage /\ Delivered' = Append(Delivered, Parts))
<1>1. queue \in Seq(Message) /\ handled \in Seq(Message)
  BY DEF TypeInv, TypeOK
<1>1a. Delivered \in Seq(Message)
  BY <1>1 DEF Delivered
<1>2. CASE OfferMessage
  <2>1. UNCHANGED handled
    BY <1>2 DEF OfferMessage, WorksOnLine
  <2>2. UNCHANGED queue \/ queue' = Append(queue, Parts)
    BY <1>2 DEF OfferMessage
  <2>3. Parts \in Message
    <3>1. line \in Received
      BY <1>2 DEF TypeInv, TypeOK, ClientTypeOK, Published, OfferMessage, WorksOnLine
    <3>2. KeptFirstPart \in Received \cup {NoLine}
      BY DEF KeptFirstPart, TypeInv, TypeOK
    <3> QED BY <3>1, <3>2 DEF Parts, Message
  <2>4. handled \o Append(queue, Parts) = Append(handled \o queue, Parts)
    BY <1>1, <2>3
  <2>5. Delivered' = Delivered \/ Delivered' = Append(Delivered, Parts)
    BY <2>1, <2>2, <2>4 DEF Delivered
  <2> QED BY <1>1a, <1>2, <2>5
<1>3. CASE ControllerTakes
  <2>1. queue # <<>> /\ handled' = Append(handled, Head(queue)) /\ queue' = Tail(queue)
    BY <1>3 DEF ControllerTakes
  <2>2. Append(handled, Head(queue)) \o Tail(queue) = handled \o queue
    BY <1>1, <2>1
  <2> QED BY <1>1, <2>1, <2>2 DEF Delivered
<1>4. CASE ~OfferMessage /\ ~ControllerTakes
  <2>1. UNCHANGED <<queue, handled>>
    BY <1>4 DEF Next, SetUp, Destroy, DestroyClose, HealthRuns, Reader, LoopChecks,
         LoopEnds, Sleep, ReadsClient, ReadTimesOut, EnvironmentActs, vars, readerVars, WorkOnLine,
         WorksOnLine, SkipUnsupported, CountersThrow, ChecksumThrows, ParseThrows, ParseGivesNull,
         CacheFirstPart, IgnorePart
  <2> QED BY <1>1, <2>1 DEF Delivered
<1> QED BY <1>2, <1>3, <1>4

\* A message that starts after all that was delivered keeps the order.
LEMMA DeliveredAppends ==
  ASSUME Delivered \in Seq(Message), NEW m \in Message, m # <<>>,
         DeliversInOrder, \A i \in DOMAIN Delivered : Delivered[i] # <<>>,
         Delivered' = Append(Delivered, m), \A t \in LastNumbers : t < m[1].n
  PROVE  /\ DeliversInOrder' /\ \A i \in DOMAIN Delivered' : Delivered'[i] # <<>>
         /\ LastNumbers' \subseteq LastNumbers \cup {m[Len(m)].n}
<1>1. \A i \in DOMAIN Delivered' :
        \/ i \in DOMAIN Delivered /\ Delivered'[i] = Delivered[i] /\ i <= Len(Delivered)
        \/ i = Len(Delivered) + 1 /\ Delivered'[i] = m
  OBVIOUS
<1>2. Len(Delivered) \in Nat /\ DOMAIN Delivered' \subseteq Nat
  OBVIOUS
<1>3. \A i \in DOMAIN Delivered : Delivered[i][Len(Delivered[i])].n < m[1].n
  BY DEF LastNumbers
<1>4. DeliversInOrder'
  <2> SUFFICES ASSUME NEW i \in DOMAIN Delivered', NEW j \in DOMAIN Delivered', i < j
               PROVE  Delivered'[i][Len(Delivered'[i])].n < Delivered'[j][1].n
    BY DEF DeliversInOrder
  <2>1. i \in DOMAIN Delivered /\ Delivered'[i] = Delivered[i]
    BY <1>1, <1>2
  <2> QED BY <1>1, <1>3, <2>1 DEF DeliversInOrder
<1>5. \A i \in DOMAIN Delivered' : Delivered'[i] # <<>>
  BY <1>1
<1>6. LastNumbers' \subseteq LastNumbers \cup {m[Len(m)].n}
  BY <1>1 DEF LastNumbers
<1> QED BY <1>4, <1>5, <1>6

LEMMA OrderInit == Init => OrderInv
<1> SUFFICES ASSUME Init PROVE OrderInv
  OBVIOUS
<1>1. Delivered = <<>> /\ cachedFirstPart = NoLine /\ rpc = "unborn" /\ conns = <<>> /\ sent = 0
  BY DEF Init, ClientInit, Delivered
<1>2. Taken = {0}
  BY <1>1 DEF LastNumbers, Kept, Taken
<1>3. 0 \in Past
  BY <1>1 DEF Past
<1> QED BY <1>1, <1>2, <1>3 DEF OrderInv, DeliversInOrder

\* A message that is offered starts after all that was delivered, ends with the
\* line, and has its parts in order.
LEMMA OfferIsNewer ==
  ASSUME TypeInv, OrderInv, OfferMessage
  PROVE  /\ Parts \in Message /\ Parts # <<>> /\ Parts[Len(Parts)] = line
         /\ \A t \in LastNumbers : t < Parts[1].n
         /\ Parts[1].n \in Nat /\ Parts[1].n <= line.n /\ line.n \in 0..sent
<1>1. rpc = "got" /\ line # NoLine /\ line.of # KeepAlive
  BY DEF OfferMessage, WorksOnLine, Readable, Supported, TypeInv, Published
<1>2. line \in Received /\ KeptFirstPart \in Received \cup {NoLine}
  BY <1>1 DEF TypeInv, TypeOK, ClientTypeOK, KeptFirstPart
<1>3. /\ Parts \in Message /\ Parts # <<>> /\ Parts[Len(Parts)] = line
      /\ Parts[1] = IF KeptFirstPart = NoLine THEN line ELSE KeptFirstPart
  BY <1>2 DEF Parts, Message
<1>4. /\ cachedFirstPart # NoLine => \A t \in LastNumbers : t < cachedFirstPart.n
      /\ \A t \in Kept : t < line.n
      /\ line.n \in Past
  BY <1>1 DEF OrderInv, Taken
<1>5. CASE KeptFirstPart = NoLine
  <2>1. \A t \in LastNumbers : t < line.n
    BY <1>4 DEF Kept
  <2>2. line.n \in Nat
    BY <1>2 DEF Received
  <2> QED BY <1>3, <1>4, <1>5, <2>1, <2>2 DEF Past
<1>6. CASE KeptFirstPart # NoLine
  <2>1. KeptFirstPart = cachedFirstPart
    BY <1>6 DEF KeptFirstPart
  <2>2. cachedFirstPart.n < line.n
    BY <1>4, <1>6, <2>1 DEF Kept
  <2>3. line.n \in Nat /\ cachedFirstPart.n \in Nat
    BY <1>2, <1>6, <2>1 DEF Received
  <2> QED BY <1>3, <1>4, <1>6, <2>1, <2>2, <2>3 DEF Past
<1> QED BY <1>5, <1>6

\* What run() does with the line of a living reader: the line, or nothing,
\* takes the place of the cached first part.
LEMMA LineWorkedOn ==
  ASSUME TypeInv, OrderInv, WorkOnLine, [Next]_vars, rpc' # "dead"
  PROVE  /\ DeliversInOrder' /\ \A i \in DOMAIN Delivered' : Delivered'[i] # <<>>
         /\ cachedFirstPart' # NoLine => \A t \in LastNumbers' : t < cachedFirstPart'.n
         /\ rpc' = "loop" /\ Taken' \subseteq Taken
<1>0. /\ rpc = "got" /\ rpc' = "loop" /\ line # NoLine
      /\ (OfferMessage \/ CacheFirstPart => line.of # KeepAlive)
  BY DEF WorkOnLine, WorksOnLine, SkipUnsupported, CountersThrow, ChecksumThrows, ParseThrows,
         ParseGivesNull, OfferMessage, CacheFirstPart, IgnorePart, Readable, Supported,
         TypeInv, Published
<1>1. /\ DeliversInOrder /\ \A i \in DOMAIN Delivered : Delivered[i] # <<>>
      /\ cachedFirstPart # NoLine => \A t \in LastNumbers : t < cachedFirstPart.n
      /\ line.of # KeepAlive => \A t \in Kept : t < line.n
      /\ Taken = Kept \cup {line.n} /\ LastNumbers \subseteq Kept
  BY <1>0 DEF OrderInv, Taken, Kept
<1>2. CASE Delivered' = Delivered
  <2>1. /\ DeliversInOrder' /\ LastNumbers' = LastNumbers
        /\ \A i \in DOMAIN Delivered' : Delivered'[i] # <<>>
    BY <1>1, <1>2 DEF DeliversInOrder, LastNumbers
  <2>2. \/ cachedFirstPart' = NoLine \/ cachedFirstPart' = cachedFirstPart
        \/ CacheFirstPart /\ cachedFirstPart' = line
    BY <1>0 DEF WorkOnLine, WorksOnLine, SkipUnsupported, CountersThrow, ChecksumThrows,
         ParseThrows, ParseGivesNull, OfferMessage, CacheFirstPart, IgnorePart, KeptFirstPart
  <2>3. cachedFirstPart' # NoLine => \A t \in LastNumbers' : t < cachedFirstPart'.n
    BY <1>0, <1>1, <2>1, <2>2
  <2>4. Taken' = Kept'
    BY <1>0 DEF Taken
  <2>5. Kept' \subseteq Kept \cup {line.n}
    BY <2>1, <2>2 DEF Kept
  <2> QED BY <1>0, <1>1, <2>1, <2>3, <2>4, <2>5
<1>3. CASE OfferMessage /\ Delivered' = Append(Delivered, Parts)
  <2>1. Delivered \in Seq(Message)
    BY DeliveredChanges
  <2>2. cachedFirstPart' = NoLine
    BY <1>3 DEF OfferMessage
  <2>3. /\ Parts \in Message /\ Parts # <<>> /\ Parts[Len(Parts)] = line
        /\ \A t \in LastNumbers : t < Parts[1].n
    BY <1>3, OfferIsNewer
  <2>4. /\ DeliversInOrder' /\ \A i \in DOMAIN Delivered' : Delivered'[i] # <<>>
        /\ LastNumbers' \subseteq LastNumbers \cup {line.n}
    <3> HIDE DEF Parts
    <3> QED BY <1>1, <1>3, <2>1, <2>3, DeliveredAppends
  <2>5. Taken' = LastNumbers'
    BY <1>0, <2>2 DEF Taken, Kept
  <2> QED BY <1>0, <1>1, <2>2, <2>4, <2>5
<1> QED BY <1>2, <1>3, DeliveredChanges

\* A line that is read is newer than what was taken before.
LEMMA LineIsNewer ==
  ASSUME TypeInv, TypeInv', WireInv, OrderInv, ReadReceived, [Next]_vars, rpc' = "got"
  PROVE  /\ line'.of # KeepAlive => \A t \in Kept : t < line'.n
         /\ line'.n \in Past'
<1>1. /\ reading \in DOMAIN conns /\ DOMAIN conns' = DOMAIN conns /\ sent' = sent
      /\ 1 \in DOMAIN conns[reading].wire
      /\ Head(conns[reading].wire) = conns[reading].wire[1]
      /\ \A c \in DOMAIN conns : c # reading => conns'[c].wire = conns[c].wire
      /\ \A i \in DOMAIN conns'[reading].wire :
           /\ i + 1 \in DOMAIN conns[reading].wire /\ i \in Nat /\ 1 < i + 1
           /\ conns'[reading].wire[i] = conns[reading].wire[i + 1]
  BY LineTaken
<1> DEFINE l == conns[reading].wire[1]
<1>2. l \in Received /\ l.n \in Nat /\ reading \in Nat /\ sent \in Nat
  <2>1. sent \in Nat
    BY ClientAssumption DEF TypeInv, TypeOK, ClientTypeOK
  <2> QED BY <1>1, <2>1, WireType
<1>3. line'.n = l.n /\ line'.of = l.of
  <2>1. line' \in {Head(conns[reading].wire), trimFirstLine(Head(conns[reading].wire))}
    BY DEF ReadReceived
  <2>2. trimFirstLine(l).n = l.n /\ trimFirstLine(l).of = l.of
    BY <1>2 DEF trimFirstLine, Received
  <2> QED BY <1>1, <2>1, <2>2
<1>4. l.n <= sent /\ (l.n = 0 <=> l.of = KeepAlive)
  BY <1>1, WireFacts
<1> HIDE DEF l
<1>5. rpc = "blocked" /\ Source = reading /\ Source' = aisReader' /\ reading <= aisReader' /\ aisReader' \in Nat
  <2>1. rpc = "blocked" /\ aisReader' = aisReader
    BY DEF ReadReceived
  <2>2. aisReader \in Nat
    BY DEF TypeInv, TypeOK, ClientTypeOK
  <2> QED BY <2>1, <2>2 DEF Source, WireInv
<1>6. line'.of # KeepAlive => \A t \in Kept : t < line'.n
  <2>1. Kept \subseteq Past
    BY <1>5 DEF OrderInv, Taken
  <2> QED BY <1>1, <1>2, <1>3, <1>5, <2>1 DEF Past, l
<1>7. ASSUME NEW c \in DOMAIN conns', Source' <= c, NEW i \in DOMAIN conns'[c].wire,
             conns'[c].wire[i].of # KeepAlive
      PROVE  l.n < conns'[c].wire[i].n
  <2>1. PICK k \in DOMAIN conns[c].wire :
               /\ conns'[c].wire[i] = conns[c].wire[k]
               /\ reading < c \/ (reading = c /\ 1 < k)
    <3>1. CASE c = reading
      BY <1>1, <3>1
    <3>2. CASE c # reading
      <4>1. c \in Nat
        BY <1>1, <1>7, <3>2, WireType
      <4> QED BY <1>1, <1>2, <1>5, <1>7, <3>2, <4>1
    <3> QED BY <3>1, <3>2
  <2>2. CASE l.of = KeepAlive
    <3>1. conns[c].wire[k].n \in Nat /\ conns[c].wire[k].n # 0
      BY <1>1, <1>7, <2>1, WireType, WireFacts
    <3> QED BY <1>4, <2>1, <2>2, <3>1
  <2>3. CASE l.of # KeepAlive
    <3>1. c \in DOMAIN conns /\ conns[c].wire[k].of # KeepAlive
      BY <1>1, <1>7, <2>1
    <3> QED BY <1>1, <2>1, <2>3, <3>1, WireFacts DEF l
  <2> QED BY <2>2, <2>3
<1>8. l.n \in 0..sent'
  BY <1>1, <1>2, <1>4
<1>9. line'.n \in Past'
  BY <1>3, <1>7, <1>8 DEF Past
<1> QED BY <1>6, <1>9

LEMMA OrderStep ==
  ASSUME TypeInv, TypeInv', WireInv, OrderInv, [Next]_vars
  PROVE  OrderInv'
<1>1. CASE WorkOnLine /\ rpc' # "dead"
  <2>1. rpc # "dead"
    BY <1>1, DeadStays
  <2>2. Taken' \subseteq Past'
    BY <1>1, <2>1, LineWorkedOn, PastKept DEF OrderInv
  <2>3. rpc' # "got"
    BY <1>1, LineWorkedOn
  <2> QED BY <1>1, <2>2, <2>3, LineWorkedOn DEF OrderInv
<1>2. CASE ~WorkOnLine \/ rpc' = "dead"
  <2>1. Delivered' = Delivered
    <3>1. OfferMessage => WorkOnLine /\ rpc' # "dead"
      BY DEF OfferMessage, WorksOnLine, WorkOnLine
    <3> QED BY <1>2, <3>1, DeliveredChanges
  <2>2. /\ DeliversInOrder' /\ \A i \in DOMAIN Delivered' : Delivered'[i] # <<>>
        /\ LastNumbers' = LastNumbers
    BY <2>1 DEF OrderInv, DeliversInOrder, LastNumbers
  <2>3. CASE rpc' = "dead"
    BY <2>2, <2>3 DEF OrderInv
  <2>4. CASE ~WorkOnLine /\ rpc' # "dead"
    <3>1. UNCHANGED cachedFirstPart
      BY <2>4 DEF Next, SetUp, Destroy, DestroyClose, HealthRuns, Reader, LoopChecks, LoopEnds,
                  Sleep, ReadTimesOut, ReadsClient, ControllerTakes, EnvironmentActs, vars, readerVars
    <3>2. /\ rpc # "dead" /\ Kept' = Kept /\ Kept \subseteq Past' /\ Past \subseteq Past'
          /\ cachedFirstPart' # NoLine => \A t \in LastNumbers' : t < cachedFirstPart'.n
      <4>1. rpc # "dead"
        BY <2>4, DeadStays
      <4>2. Kept' = Kept
        BY <2>2, <3>1 DEF Kept
      <4>3. Kept \subseteq Past
        BY <4>1 DEF OrderInv, Taken
      <4> QED BY <2>2, <3>1, <4>1, <4>2, <4>3, PastKept DEF OrderInv
    <3>3. CASE rpc' # "got"
      BY <2>2, <3>2, <3>3 DEF OrderInv, Taken
    <3>4. CASE rpc' = "got" /\ ReadReceived
      BY <2>2, <3>2, <3>4, LineIsNewer DEF OrderInv, Taken
    <3>5. CASE rpc' = "got" /\ ~ReadReceived
      <4>1. rpc = "got" /\ line' = line
        BY <2>4, <3>5 DEF Next, SetUp, Destroy, DestroyClose, CloseSocket, HealthRuns, Health,
             ProbeConnected, ProbeDisconnected, CloseForReconnect, CreateSocket, CreateAisReader,
             Login, SetConnected, ResetReply, Reader, LoopChecks, CheckUsable, LoopEnds, Sleep,
             ReadsClient, CheckReply, ReadLine, BeginRead, ReadEndOfStream, ReadFails, FailedRead,
             ReadTimesOut, TriggerReconnect, ControllerTakes, EnvironmentActs, Environment,
             ServerSends, ServerReplies, PeerFails, ReplyExpires, readingState, clientVars, vars
      <4>2. /\ line.of # KeepAlive => \A t \in Kept : t < line.n
            /\ Kept \cup {line.n} \subseteq Past
        BY <4>1 DEF OrderInv, Taken
      <4>3. /\ line'.of # KeepAlive => \A t \in Kept' : t < line'.n
            /\ Taken' \subseteq Past'
        BY <3>2, <3>5, <4>1, <4>2 DEF Taken
      <4> QED BY <2>2, <3>2, <4>3 DEF OrderInv
    <3> QED BY <3>3, <3>4, <3>5
  <2> QED BY <1>2, <2>3, <2>4
<1> QED BY <1>1, <1>2

\* DeliversInOrder holds always: no message overtakes another and none is built
\* from a sentence used before, over any number of connections and faults.
THEOREM DeliveredInOrder == Spec => []DeliversInOrder
<1>1. OrderInv => DeliversInOrder
  BY DEF OrderInv
<1>2. TypeInv /\ TypeInv' /\ WireInv /\ [Next]_vars => WireInv'
  BY WireStep
<1>3. TypeInv /\ TypeInv' /\ WireInv /\ OrderInv /\ [Next]_vars => OrderInv'
  BY OrderStep
<1>4. QED
  BY <1>1, <1>2, <1>3, TypeInvariant, WireInit, OrderInit, PTL DEF Spec

-----------------------------------------------------------------------------
(* The abstract feed.                                                       *)

LEMMA FeedInit == Init => Ordered!Init
<1> SUFFICES ASSUME Init PROVE Ordered!Init
  OBVIOUS
<1>1. Delivered = <<>> /\ sent = 0
  BY DEF Init, ClientInit, Delivered
<1> QED BY <1>1 DEF Ordered!Init, Spans

\* An offer delivers, a sentence that is sent is sent, and all else stutters.
LEMMA FeedStep ==
  ASSUME TypeInv, OrderInv, [Next]_vars
  PROVE  [Ordered!Next]_<<sent, Spans>>
<1>1. Delivered \in Seq(Message)
  BY DeliveredChanges
<1>2. CASE Delivered' = Delivered
  <2>1. Spans' = Spans
    BY <1>2 DEF Spans
  <2>2. sent' \in {sent, sent + 1}
    BY DEF Next, SetUp, Destroy, DestroyClose, HealthRuns, Health, ProbeConnected,
         ProbeDisconnected, CloseForReconnect, CreateSocket, CreateAisReader, Login, SetConnected,
         ResetReply, Reader, LoopChecks, CheckUsable, LoopEnds, Sleep, ReadsClient, CheckReply,
         ReadLine, BeginRead, ReadReceived, ReadEndOfStream, ReadFails, FailedRead, ReadTimesOut,
         TriggerReconnect, WorkOnLine, WorksOnLine, SkipUnsupported, CountersThrow,
         ChecksumThrows, ParseThrows, ParseGivesNull, OfferMessage, CacheFirstPart, IgnorePart,
         ControllerTakes, EnvironmentActs, Environment, ServerSends, ServerReplies, PeerFails,
         ReplyExpires, vars, clientVars
  <2> QED BY <2>1, <2>2 DEF Ordered!Next, Ordered!Send
<1>3. CASE OfferMessage /\ Delivered' = Append(Delivered, Parts)
  <2>1. /\ Parts \in Message /\ Parts # <<>> /\ Parts[Len(Parts)] = line
        /\ \A t \in LastNumbers : t < Parts[1].n
        /\ Parts[1].n \in Nat /\ Parts[1].n <= line.n /\ line.n \in 0..sent
    BY <1>3, OfferIsNewer
  <2>2. sent' = sent
    BY <1>3 DEF OfferMessage, WorksOnLine
  <2> HIDE DEF Parts
  <2>3. Spans' = Append(Spans, <<Parts[1].n, line.n>>)
    <3> DEFINE Span(m) == <<m[1].n, m[Len(m)].n>>
               S(d) == [i \in DOMAIN d |-> Span(d[i])]
    <3>1. S(Append(Delivered, Parts)) = Append(S(Delivered), Span(Parts))
      <4> HIDE DEF Span
      <4> DEFINE T == {Span(Delivered[i]) : i \in DOMAIN Delivered} \cup {Span(Parts)}
      <4>1. S(Delivered) \in Seq(T) /\ Len(S(Delivered)) = Len(Delivered) /\ Span(Parts) \in T
        BY <1>1
      <4> HIDE DEF T
      <4>2. Append(S(Delivered), Span(Parts))
              = [i \in 1..(Len(Delivered) + 1) |->
                   IF i = Len(Delivered) + 1 THEN Span(Parts) ELSE S(Delivered)[i]]
        BY <4>1
      <4> QED BY <1>1, <2>1, <4>2
    <3> QED BY <1>3, <2>1, <3>1 DEF Spans
  <2>4. Ordered!Newest \in LastNumbers
    <3>1. CASE Delivered = <<>>
      BY <3>1 DEF Spans, Ordered!Newest, LastNumbers
    <3>2. CASE Delivered # <<>>
      <4>1. Len(Delivered) \in DOMAIN Delivered /\ Len(Spans) = Len(Delivered) /\ Spans # <<>>
        BY <1>1, <3>2 DEF Spans
      <4>2. Ordered!Newest = Delivered[Len(Delivered)][Len(Delivered[Len(Delivered)])].n
        BY <4>1 DEF Spans, Ordered!Newest
      <4> QED BY <4>1, <4>2 DEF LastNumbers
    <3> QED BY <3>1, <3>2
  <2>5. LastNumbers \subseteq Nat
    <3>1. rpc # "dead"
      BY <1>3 DEF OfferMessage, WorksOnLine
    <3> QED BY <3>1 DEF OrderInv, Taken, Kept, Past
  <2>6. Parts[1].n \in (Ordered!Newest + 1)..sent /\ line.n \in Parts[1].n..sent
    <3>1. sent \in Nat
      BY ClientAssumption DEF TypeInv, TypeOK, ClientTypeOK
    <3> QED BY <2>1, <2>4, <2>5, <3>1
  <2>7. \E first \in (Ordered!Newest + 1)..sent : \E last \in first..sent :
          Spans' = Append(Spans, <<first, last>>)
    BY <2>3, <2>6
  <2> QED BY <2>2, <2>7 DEF Ordered!Next, Ordered!Deliver
<1> QED BY <1>2, <1>3, DeliveredChanges

\* The reader implements OrderedFeed: each of its steps delivers a message newer
\* than all before, sends a sentence, or does not show.
THEOREM ImplementsFeed == Spec => KeepsFeed
<1>1. TypeInv /\ TypeInv' /\ WireInv /\ [Next]_vars => WireInv'
  BY WireStep
<1>2. TypeInv /\ TypeInv' /\ WireInv /\ OrderInv /\ [Next]_vars => OrderInv'
  BY OrderStep
<1>3. TypeInv /\ OrderInv /\ [Next]_vars => [Ordered!Next]_<<sent, Spans>>
  BY FeedStep
<1>4. QED
  BY <1>1, <1>2, <1>3, TypeInvariant, WireInit, OrderInit, FeedInit, PTL
     DEF Spec, KeepsFeed, Ordered!Spec

=============================================================================

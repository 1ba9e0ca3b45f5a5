--------------------------- MODULE GatewayProofs ---------------------------
(***************************************************************************)
(* The books of a gateway's descriptors, for any number of peers, streams  *)
(* and descriptors: what holds each of them, and that nothing but the lack *)
(* of one ends the process.                                                *)
(***************************************************************************)
EXTENDS Gateway, FiniteSetTheorems, TLAPS

AllFds == Descriptors \X Conns \X (0..MaxStreams)

\* The types, the flags apart.
Types ==
  /\ backlog \in Seq(Conns)
  /\ conn \in [Conns -> ConnState]
  /\ req \in [Conns -> [Streams -> ReqState]]
  /\ fds \in SUBSET AllFds
  /\ leaving \in SUBSET Descriptors

\* The descriptor table by itself: nothing has two descriptors, no descriptor
\* has two uses.
Table ==
  /\ \A fd \in fds : fd[1] \notin leaving
  /\ \A f, g \in fds : f # g => f[1] # g[1] /\ <<f[2], f[3]>> # <<g[2], g[3]>>

\* What is in the table is in use, and every accepted peer is in the table.
Used == \A fd \in fds : InUse(fd)
Own  == \A c \in Conns : Accepted(c) => \E fd \in fds : fd[2] = c /\ fd[3] = 0

\* Without a backend nothing is forwarded.
Echo ==
  ~backend => /\ leaving = {}
              /\ \A c \in Conns, s \in Streams : req[c][s] \in {"none", "local"}

\* The kernel's queue holds a peer once, and only while it is not accepted.
Queue ==
  /\ \A i \in 1..Len(backlog) : conn[backlog[i]] = "queued"
  /\ \A i, j \in 1..Len(backlog) : backlog[i] = backlog[j] => i = j

\* The parts without the flags, and with them.
Books == Types /\ Table /\ Used /\ Own /\ Echo /\ Queue
Flags == backend \in BOOLEAN /\ up \in BOOLEAN /\ ready \in BOOLEAN
IInv  == Books /\ Flags /\ EchoStaysUp

-----------------------------------------------------------------------------
(* The table.                                                              *)

\* Letting go of some sockets keeps the table: what is left to its own task has
\* left it.
LEMMA ReleaseTable ==
  ASSUME Types, Table, NEW S \in SUBSET fds, Release(S)
  PROVE  /\ Table'
         /\ fds' = fds \ S
         /\ leaving' \in SUBSET Descriptors
         /\ (\A fd \in S : fd[3] = 0) => leaving' = leaving
<1>1. PICK told \in SUBSET {fd \in S : fd[3] # 0} :
        leaving' = leaving \cup {fd[1] : fd \in told}
  BY DEF Release
<1>2. fds' = fds \ S
  BY DEF Release
<1>3. ASSUME NEW fd \in fds' PROVE fd[1] \notin leaving'
  <2>1. fd \in fds /\ \A f \in told : f \in fds /\ f # fd
    BY <1>1, <1>2
  <2> QED
    BY <2>1, <1>1 DEF Table
<1>4. \A fd \in told : fd[1] \in Descriptors
  BY <1>1 DEF Types, AllFds
<1>5. leaving' \in SUBSET Descriptors
  BY <1>1, <1>4 DEF Types
<1>6. (\A fd \in S : fd[3] = 0) => told = {}
  BY <1>1
<1>7. (\A fd \in S : fd[3] = 0) => leaving' = leaving
  BY <1>1, <1>6
<1> QED
  BY <1>2, <1>3, <1>5, <1>7 DEF Table

\* A free descriptor for something that has none keeps it too.
LEMMA OpenTable ==
  ASSUME Types, Table, NEW d \in Descriptors, Lowest(d),
         NEW c \in Conns, NEW s \in 0..MaxStreams,
         \A fd \in fds : ~(fd[2] = c /\ fd[3] = s),
         fds' = fds \cup {<<d, c, s>>}, leaving' = leaving
  PROVE  Table' /\ fds' \in SUBSET AllFds
<1>1. d \notin leaving /\ \A fd \in fds : fd[1] # d
  BY DEF Lowest, Free
<1>2. \A fd \in fds' : fd[1] \notin leaving'
  BY <1>1 DEF Table
<1>3. ASSUME NEW f \in fds', NEW g \in fds', f # g
      PROVE  f[1] # g[1] /\ <<f[2], f[3]>> # <<g[2], g[3]>>
  <2>1. CASE f \in fds /\ g \in fds
    BY <1>3, <2>1 DEF Table
  <2>2. CASE f = <<d, c, s>> /\ g \in fds
    BY <1>1, <2>2
  <2>3. CASE g = <<d, c, s>> /\ f \in fds
    BY <1>1, <2>3
  <2> QED
    BY <1>3, <2>1, <2>2, <2>3
<1>4. <<d, c, s>> \in AllFds
  BY DEF AllFds
<1> QED
  BY <1>2, <1>3, <1>4 DEF Table, Types

-----------------------------------------------------------------------------
(* The queue.                                                              *)

\* The queue stays in order when one peer's state changes that is not in it.
LEMMA QueueFrame ==
  ASSUME Types, Queue, NEW c \in Conns, conn[c] # "queued",
         NEW st, conn' = [conn EXCEPT ![c] = st], backlog' = backlog
  PROVE  Queue'
BY DEF Types, Queue

\* Connect puts a peer that is not in the queue at its end.
LEMMA QueueAppend ==
  ASSUME Types, Queue, NEW c \in Conns, conn[c] # "queued",
         conn' = [conn EXCEPT ![c] = "queued"], backlog' = Append(backlog, c)
  PROVE  Queue'
<1>1. /\ Len(backlog') = Len(backlog) + 1 /\ Len(backlog) \in Nat
      /\ \A i \in 1..Len(backlog) : backlog'[i] = backlog[i]
      /\ backlog'[Len(backlog) + 1] = c
  BY DEF Types
<1>2. \A i \in 1..Len(backlog) : backlog[i] \in Conns /\ backlog[i] # c
  BY DEF Types, Queue
<1>3. \A i \in 1..Len(backlog') : conn'[backlog'[i]] = "queued"
  <2> SUFFICES ASSUME NEW i \in 1..Len(backlog') PROVE conn'[backlog'[i]] = "queued"
    OBVIOUS
  <2>1. CASE i = Len(backlog) + 1
    BY <2>1, <1>1 DEF Types
  <2>2. CASE i \in 1..Len(backlog)
    BY <2>2, <1>1, <1>2 DEF Types, Queue
  <2> QED
    BY <2>1, <2>2, <1>1
<1>4. ASSUME NEW i \in 1..Len(backlog'), NEW j \in 1..Len(backlog'),
             backlog'[i] = backlog'[j]
      PROVE  i = j
  <2>1. CASE i \in 1..Len(backlog) /\ j \in 1..Len(backlog)
    BY <2>1, <1>1, <1>4 DEF Queue
  <2>2. CASE i = Len(backlog) + 1 \/ j = Len(backlog) + 1
    BY <2>2, <1>1, <1>2, <1>4
  <2> QED
    BY <2>1, <2>2, <1>1
<1> QED
  BY <1>3, <1>4 DEF Queue

\* Accept takes the oldest peer out of it.
LEMMA QueueTail ==
  ASSUME Types, Queue, backlog # <<>>,
         conn' = [conn EXCEPT ![Head(backlog)] = "handshake"],
         backlog' = Tail(backlog)
  PROVE  Queue'
<1>1. /\ Head(backlog) = backlog[1] /\ Len(backlog) \in Nat \ {0}
      /\ Len(backlog') = Len(backlog) - 1
      /\ \A i \in 1..Len(backlog') : backlog'[i] = backlog[i + 1]
  BY DEF Types
<1>2. \A i \in 1..Len(backlog') :
        /\ i + 1 \in 1..Len(backlog) /\ 1 \in 1..Len(backlog)
        /\ backlog[i + 1] \in Conns /\ backlog[i + 1] # backlog[1]
  BY <1>1 DEF Types, Queue
<1>3. \A i \in 1..Len(backlog') : conn'[backlog'[i]] = "queued"
  BY <1>1, <1>2 DEF Types, Queue
<1>4. \A i, j \in 1..Len(backlog') : backlog'[i] = backlog'[j] => i = j
  BY <1>1, <1>2 DEF Queue
<1> QED
  BY <1>3, <1>4 DEF Queue

-----------------------------------------------------------------------------
(* What every step preserves.                                              *)

\* A stream's request takes another state: the peers' sockets stay, and what is
\* new in the table serves this stream, which is then forwarded.
LEMMA SetStream ==
  ASSUME Types, Used, Own, NEW c \in Conns, NEW s \in Streams,
         NEW st \in ReqState,
         req' = [req EXCEPT ![c][s] = st], conn' = conn,
         fds' \in SUBSET AllFds,
         \A fd \in fds' : fd \in fds \/ (fd[2] = c /\ fd[3] = s),
         \A fd \in fds' : fd[2] = c /\ fd[3] = s => st = "forwarded",
         \A fd \in fds : fd[3] = 0 => fd \in fds'
  PROVE  Used' /\ Own' /\ req' \in [Conns -> [Streams -> ReqState]]
<1>0. s # 0 /\ s \in Nat
  BY GatewayAssumption DEF Streams
<1>1. req' \in [Conns -> [Streams -> ReqState]]
  BY DEF Types
<1>2. ASSUME NEW fd \in fds' PROVE InUse(fd)'
  <2>0. fd[2] \in Conns /\ fd[3] \in 0..MaxStreams
    BY DEF AllFds
  <2>1. CASE fd[2] = c /\ fd[3] = s
    <3>1. req'[c][s] = st
      BY DEF Types
    <3> QED
      BY <1>0, <2>1, <3>1 DEF InUse
  <2>2. CASE ~(fd[2] = c /\ fd[3] = s)
    <3>1. fd \in fds /\ InUse(fd)
      BY <2>2 DEF Used
    <3>2. CASE fd[3] = 0
      BY <3>1, <3>2 DEF InUse, Accepted
    <3>3. CASE fd[3] # 0
      <4>1. fd[3] \in Streams
        BY <2>0, <3>3, GatewayAssumption DEF Streams
      <4>2. req'[fd[2]][fd[3]] = req[fd[2]][fd[3]]
        BY <2>0, <2>2, <4>1 DEF Types
      <4> QED
        BY <3>1, <3>3, <4>2 DEF InUse
    <3> QED
      BY <3>2, <3>3
  <2> QED
    BY <2>1, <2>2
<1>3. Own'
  BY DEF Own, Accepted
<1> QED
  BY <1>1, <1>2, <1>3 DEF Used

\* Echo survives a stream that takes a state the mode allows.
LEMMA EchoStream ==
  ASSUME Types, Echo, NEW c \in Conns, NEW s \in Streams, NEW st,
         req' = [req EXCEPT ![c][s] = st], backend' = backend,
         ~backend => st \in {"none", "local"},
         ~backend => leaving' = {}
  PROVE  Echo'
BY DEF Types, Echo

\* Books survive a stream's state of its own: nothing is opened or closed.
LEMMA PlainStream ==
  ASSUME Books, NEW c \in Conns, NEW s \in Streams,
         AnswerLocally(c, s) \/ ReadRequest(c, s)
           \/ (Forward(c, s) /\ UNCHANGED fds)
  PROVE  Books'
<1> USE DEF Books
<1>1. PICK st \in {"none", "generate", "local"} :
        /\ req' = [req EXCEPT ![c][s] = st]
        /\ ~backend => st \in {"none", "local"}
  <2>1. CASE AnswerLocally(c, s)
    BY <2>1 DEF AnswerLocally
  <2>2. CASE ReadRequest(c, s)
    BY <2>2 DEF ReadRequest
  <2>3. CASE Forward(c, s) /\ UNCHANGED fds
    <3>1. backend
      BY <2>3 DEF Forward, Echo
    <3>2. ASSUME NEW d \in Descriptors, Lowest(d), fds' = fds \cup {<<d, c, s>>}
          PROVE  FALSE
      <4> DEFINE p == <<d, c, s>>
      <4>1. p \in fds /\ p[1] = d
        BY <2>3, <3>2
      <4> HIDE DEF p
      <4> QED
        BY <3>2, <4>1 DEF Lowest, Free
    <3> QED
      BY <2>3, <3>1, <3>2 DEF Forward
  <2> QED
    BY <2>1, <2>2, <2>3
<1>2. /\ conn' = conn /\ backlog' = backlog /\ fds' = fds /\ leaving' = leaving
      /\ backend' = backend
      /\ req[c][s] # "forwarded"
  BY DEF AnswerLocally, ReadRequest, Forward
<1>3. \A fd \in fds' : ~(fd[2] = c /\ fd[3] = s)
  BY <1>2, GatewayAssumption DEF Used, InUse, Streams
<1>4. /\ st \in ReqState /\ fds' \in SUBSET AllFds
      /\ \A fd \in fds' : fd \in fds \/ (fd[2] = c /\ fd[3] = s)
      /\ \A fd \in fds' : fd[2] = c /\ fd[3] = s => st = "forwarded"
      /\ \A fd \in fds : fd[3] = 0 => fd \in fds'
  BY <1>2, <1>3 DEF ReqState, Types
<1>5. Used' /\ Own' /\ req' \in [Conns -> [Streams -> ReqState]]
  <2>1. Types /\ Used /\ Own
    OBVIOUS
  <2>2. req' = [req EXCEPT ![c][s] = st] /\ conn' = conn
    BY <1>1, <1>2
  <2> HIDE DEF Books
  <2> QED
    BY <1>4, <2>1, <2>2, SetStream, Zenon
<1>6. Echo'
  BY <1>1, <1>2, EchoStream DEF Echo
<1> QED
  BY <1>2, <1>5, <1>6 DEF Types, Table, Queue

\* Books survive the opening of a socket to the backend.
LEMMA ForwardStep ==
  ASSUME Books, NEW c \in Conns, NEW s \in Streams, Forward(c, s),
         NEW d \in Descriptors, Lowest(d), fds' = fds \cup {<<d, c, s>>},
         req' = [req EXCEPT ![c][s] = "forwarded"]
  PROVE  Books'
<1> USE DEF Books
<1>1. /\ conn' = conn /\ backlog' = backlog /\ leaving' = leaving
      /\ backend' = backend /\ req[c][s] = "generate"
  BY DEF Forward
<1>2. s \in 0..MaxStreams /\ s # 0
  BY GatewayAssumption DEF Streams
<1>3. \A fd \in fds : ~(fd[2] = c /\ fd[3] = s)
  BY <1>1, <1>2 DEF Used, InUse
<1>4. Table' /\ fds' \in SUBSET AllFds
  BY <1>1, <1>2, <1>3, OpenTable
<1>5. /\ "forwarded" \in ReqState
      /\ \A fd \in fds' : fd \in fds \/ (fd[2] = c /\ fd[3] = s)
      /\ \A fd \in fds : fd[3] = 0 => fd \in fds'
  BY DEF ReqState
<1>6. Used' /\ Own' /\ req' \in [Conns -> [Streams -> ReqState]]
  BY <1>1, <1>4, <1>5, SetStream
<1>7. Echo'
  BY <1>1 DEF Echo
<1> QED
  BY <1>1, <1>4, <1>6, <1>7 DEF Types, Queue

\* Books survive the end of a request, wherever its handler is.
LEMMA EndRequestStep ==
  ASSUME Books, NEW c \in Conns, NEW s \in Streams, EndRequest(c, s)
  PROVE  Books'
<1> USE DEF Books
<1>1. /\ req' = [req EXCEPT ![c][s] = "none"] /\ conn' = conn
      /\ backlog' = backlog /\ backend' = backend /\ Release(StreamSocket(c, s))
  BY DEF EndRequest
<1>2. StreamSocket(c, s) \in SUBSET fds
  BY DEF StreamSocket
<1>3. /\ Table' /\ fds' = fds \ StreamSocket(c, s)
      /\ leaving' \in SUBSET Descriptors
      /\ (\A fd \in StreamSocket(c, s) : fd[3] = 0) => leaving' = leaving
  BY <1>1, <1>2, ReleaseTable
<1>4. \A fd \in fds' : fd \in fds /\ ~(fd[2] = c /\ fd[3] = s)
  BY <1>3 DEF StreamSocket
<1>5. \A fd \in fds : fd[3] = 0 => fd \in fds'
  BY <1>3, GatewayAssumption DEF StreamSocket, Streams
<1>6. /\ fds' \in SUBSET AllFds /\ "none" \in ReqState
      /\ \A fd \in fds' : fd \in fds \/ (fd[2] = c /\ fd[3] = s)
      /\ \A fd \in fds' : fd[2] = c /\ fd[3] = s => "none" = "forwarded"
  BY <1>3, <1>4 DEF Types, ReqState
<1>7. Used' /\ Own' /\ req' \in [Conns -> [Streams -> ReqState]]
  BY <1>1, <1>5, <1>6, SetStream
<1>8. ~backend => leaving' = {}
  <2> SUFFICES ASSUME ~backend PROVE leaving' = {}
    OBVIOUS
  <2>1. leaving = {} /\ req[c][s] # "forwarded"
    BY DEF Echo
  <2>2. StreamSocket(c, s) = {}
    BY <2>1, GatewayAssumption DEF StreamSocket, Used, InUse, Streams
  <2> QED
    BY <1>3, <2>1, <2>2
<1>9. Echo'
  BY <1>1, <1>8, EchoStream
<1> QED
  BY <1>1, <1>3, <1>6, <1>7, <1>9 DEF Types, Queue

\* Books survive a step of a stream.
LEMMA StreamStep ==
  ASSUME Books, NEW c \in Conns, NEW s \in Streams,
         HandlerStep(c, s) \/ StreamReset(c, s) \/ ReadRequest(c, s)
           \/ BackendReplies(c, s)
  PROVE  Books'
<1>1. CASE AnswerLocally(c, s) \/ ReadRequest(c, s)
  BY <1>1, PlainStream
<1>2. CASE StreamDropped(c, s) \/ StreamReset(c, s) \/ BackendReplies(c, s)
  BY <1>2, EndRequestStep DEF StreamDropped, StreamReset, BackendReplies
<1>3. CASE Forward(c, s)
  <2>1. CASE UNCHANGED fds
    BY <1>3, <2>1, PlainStream
  <2>2. CASE /\ req' = [req EXCEPT ![c][s] = "forwarded"]
             /\ \E d \in Descriptors : Lowest(d) /\ fds' = fds \cup {<<d, c, s>>}
    BY <1>3, <2>2, ForwardStep
  <2> QED
    BY <1>3, <2>1, <2>2 DEF Forward
<1> QED
  BY <1>1, <1>2, <1>3 DEF HandlerStep

\* Books survive the end of a socket to the backend, told or not.
LEMMA BackendStep ==
  ASSUME Books, NEW d \in Descriptors, BackendTaskEnds(d) \/ BackendCloses(d)
  PROVE  Books'
<1> USE DEF Books
<1>1. CASE BackendTaskEnds(d)
  <2>1. /\ leaving' = leaving \ {d} /\ fds' = fds /\ conn' = conn /\ req' = req
        /\ backlog' = backlog /\ backend' = backend
    BY <1>1 DEF BackendTaskEnds
  <2> QED
    BY <2>1 DEF Types, Table, Used, Own, Echo, Queue, InUse, Accepted
<1>2. CASE BackendCloses(d)
  <2>1. /\ fds' = {fd \in fds : fd[1] # d} /\ leaving' = leaving /\ conn' = conn
        /\ req' = req /\ backlog' = backlog /\ backend' = backend
    BY <1>2 DEF BackendCloses
  <2>2. PICK b \in Conns, t \in Streams : <<d, b, t>> \in fds
    BY <1>2 DEF BackendCloses
  <2>3. Types' /\ Table' /\ Used' /\ Echo' /\ Queue'
    BY <2>1 DEF Types, Table, Used, Echo, Queue, InUse, Accepted
  <2>4. \A fd \in fds : fd[3] = 0 => fd[1] # d
    <3> SUFFICES ASSUME NEW fd \in fds, fd[3] = 0 PROVE fd[1] # d
      OBVIOUS
    <3>1. t # 0
      BY GatewayAssumption DEF Streams
    <3>2. fd # <<d, b, t>>
      BY <3>1
    <3> QED
      BY <2>2, <3>2 DEF Table
  <2>5. Own'
    BY <2>1, <2>4 DEF Own, Accepted
  <2> QED
    BY <2>3, <2>5
<1> QED
  BY <1>1, <1>2

\* Books survive the end of a connection's task.
LEMMA EndStep ==
  ASSUME Books, NEW c \in Conns, Accepted(c), EndConnection(c)
  PROVE  Books'
<1> USE DEF Books
<1>0. /\ conn' = [conn EXCEPT ![c] = "none"] /\ backlog' = backlog
      /\ req' = [req EXCEPT ![c] = NoRequests] /\ backend' = backend
      /\ Release(FdsOf(c))
  BY DEF EndConnection
<1>1. FdsOf(c) \in SUBSET fds
  BY DEF FdsOf
<1>2. /\ Table' /\ fds' = fds \ FdsOf(c)
      /\ leaving' \in SUBSET Descriptors
      /\ (\A fd \in FdsOf(c) : fd[3] = 0) => leaving' = leaving
  BY <1>0, <1>1, ReleaseTable
<1>3. NoRequests \in [Streams -> ReqState] /\ "none" \in ConnState
  BY DEF NoRequests, ReqState, ConnState
<1>4. Types'
  BY <1>0, <1>2, <1>3 DEF Types
<1>5. \A fd \in fds' : fd \in fds /\ fd[2] # c /\ fd[2] \in Conns
  BY <1>2 DEF FdsOf, Types, AllFds
<1>6. \A b \in Conns : b # c => conn'[b] = conn[b] /\ req'[b] = req[b]
  BY <1>0 DEF Types
<1>7. Used'
  BY <1>5, <1>6 DEF Used, InUse, Accepted
<1>8. conn'[c] = "none" /\ req'[c] = NoRequests
  BY <1>0 DEF Types
<1>9. Own'
  <2> SUFFICES ASSUME NEW b \in Conns, Accepted(b)'
               PROVE  \E fd \in fds' : fd[2] = b /\ fd[3] = 0
    BY DEF Own
  <2>1. b # c
    BY <1>8 DEF Accepted
  <2>2. Accepted(b)
    BY <1>6, <2>1 DEF Accepted
  <2> QED
    BY <1>2, <2>1, <2>2 DEF Own, FdsOf
<1>10. Echo'
  <2> SUFFICES ASSUME ~backend
               PROVE  /\ leaving' = {}
                      /\ \A b \in Conns, s \in Streams : req'[b][s] \in {"none", "local"}
    BY <1>0 DEF Echo
  <2>1. /\ leaving = {}
        /\ \A b \in Conns, s \in Streams : req[b][s] \in {"none", "local"}
    BY DEF Echo
  <2>2. \A fd \in fds : fd[3] = 0
    <3> SUFFICES ASSUME NEW fd \in fds, fd[3] # 0 PROVE FALSE
      OBVIOUS
    <3>1. fd[2] \in Conns /\ fd[3] \in Streams
      BY GatewayAssumption DEF Types, AllFds, Streams
    <3> QED
      BY <2>1, <3>1 DEF Used, InUse
  <2>3. leaving' = {}
    BY <1>2, <2>1, <2>2 DEF FdsOf
  <2>4. \A b \in Conns, s \in Streams : req'[b][s] \in {"none", "local"}
    BY <1>6, <1>8, <2>1 DEF NoRequests
  <2> QED
    BY <2>3, <2>4
<1>11. Queue'
  BY <1>0, QueueFrame DEF Accepted
<1> QED
  BY <1>2, <1>4, <1>7, <1>9, <1>10, <1>11

\* Books survive a change of a connection's state that keeps its socket's side
\* of the books.
LEMMA ConnStep ==
  ASSUME Types, Used, Own, NEW c \in Conns, NEW st \in ConnState,
         conn' = [conn EXCEPT ![c] = st], req' = req,
         \A fd \in fds' : fd \in fds \/ (fd[2] = c /\ fd[3] = 0),
         \A fd \in fds : ~(fd[2] = c /\ fd[3] = 0) => fd \in fds',
         (\E fd \in fds' : fd[2] = c /\ fd[3] = 0)
           <=> st \in {"handshake", "http1", "http2"}
  PROVE  Used' /\ Own' /\ conn' \in [Conns -> ConnState]
<1>1. conn' \in [Conns -> ConnState] /\ conn'[c] = st
      /\ \A b \in Conns : b # c => conn'[b] = conn[b]
  BY DEF Types
<1>2. ASSUME NEW fd \in fds' PROVE InUse(fd)'
  <2>1. CASE fd[2] = c /\ fd[3] = 0
    BY <1>1, <2>1 DEF InUse, Accepted
  <2>2. CASE ~(fd[2] = c /\ fd[3] = 0)
    <3>1. fd \in fds /\ InUse(fd) /\ fd[2] \in Conns
      BY <2>2 DEF Used, Types, AllFds
    <3> QED
      BY <1>1, <2>2, <3>1 DEF InUse, Accepted
  <2> QED
    BY <2>1, <2>2
<1>3. ASSUME NEW b \in Conns, Accepted(b)'
      PROVE  \E fd \in fds' : fd[2] = b /\ fd[3] = 0
  <2>1. CASE b = c
    BY <1>1, <1>3, <2>1 DEF Accepted
  <2>2. CASE b # c
    <3>1. Accepted(b)
      BY <1>1, <1>3, <2>2 DEF Accepted
    <3>2. PICK fd \in fds : fd[2] = b /\ fd[3] = 0
      BY <3>1 DEF Own
    <3> QED
      BY <2>2, <3>2
  <2> QED
    BY <2>1, <2>2
<1> QED
  BY <1>1, <1>2, <1>3 DEF Used, Own

\* Books survive a new connection in the kernel's queue.
LEMMA ConnectStep ==
  ASSUME Books, NEW c \in Conns, Connect(c)
  PROVE  Books'
<1> USE DEF Books
<1>1. /\ conn[c] \in {"none", "closing"} /\ req' = req /\ fds' = fds
      /\ leaving' = leaving /\ backend' = backend
      /\ conn' = [conn EXCEPT ![c] = "queued"]
      /\ backlog' = Append(backlog, c)
  BY DEF Connect, Closed
<1>2. \A fd \in fds' : ~(fd[2] = c /\ fd[3] = 0)
  BY <1>1 DEF Used, InUse, Accepted
<1>3. backlog' \in Seq(Conns) /\ "queued" \in ConnState
  BY <1>1 DEF Types, ConnState
<1>4. Used' /\ Own' /\ conn' \in [Conns -> ConnState]
  BY <1>1, <1>2, <1>3, ConnStep
<1>5. Queue'
  BY <1>1, QueueAppend
<1> QED
  BY <1>1, <1>3, <1>4, <1>5 DEF Types, Table, Echo

\* Books survive the accept of the oldest one.
LEMMA AcceptStep ==
  ASSUME Books, Accept
  PROVE  Books'
<1> USE DEF Books
<1> DEFINE c == Head(backlog)
<1>1. /\ backlog # <<>> /\ req' = req /\ leaving' = leaving /\ backend' = backend
      /\ conn' = [conn EXCEPT ![c] = "handshake"]
      /\ backlog' = Tail(backlog)
  BY DEF Accept
<1>2. c \in Conns /\ backlog' \in Seq(Conns) /\ conn[c] = "queued"
  BY <1>1 DEF Types, Queue
<1>3. Queue'
  BY <1>1, QueueTail
<1>4. PICK d \in Descriptors : Lowest(d) /\ fds' = fds \cup {<<d, c, 0>>}
  BY DEF Accept
<1> HIDE DEF c
<1>5. \A fd \in fds : ~(fd[2] = c /\ fd[3] = 0)
  BY <1>2 DEF Used, InUse, Accepted
<1>6. 0 \in 0..MaxStreams
  BY GatewayAssumption
<1>7. Table' /\ fds' \in SUBSET AllFds
  BY <1>1, <1>2, <1>4, <1>5, <1>6, OpenTable
<1>8. Used' /\ Own' /\ conn' \in [Conns -> ConnState]
  <2>1. "handshake" \in ConnState
    BY DEF ConnState
  <2> DEFINE p == <<d, c, 0>>
  <2>2. p \in fds' /\ p[2] = c /\ p[3] = 0
    BY <1>4
  <2> HIDE DEF p
  <2>3. \E fd \in fds' : fd[2] = c /\ fd[3] = 0
    BY <2>2
  <2>4. /\ \A fd \in fds' : fd \in fds \/ (fd[2] = c /\ fd[3] = 0)
        /\ \A fd \in fds : ~(fd[2] = c /\ fd[3] = 0) => fd \in fds'
    BY <1>4
  <2> QED
    BY <1>1, <1>2, <2>1, <2>3, <2>4, ConnStep
<1> QED
  BY <1>1, <1>2, <1>3, <1>7, <1>8 DEF Types, Echo

\* Books survive the end of a handshake and of a connection.
LEMMA PeerStep ==
  ASSUME Books, NEW c \in Conns,
         HandshakeDone(c) \/ HandshakeFails(c) \/ PeerGone(c)
  PROVE  Books'
<1> USE DEF Books
<1>1. CASE HandshakeDone(c)
  <2>1. /\ conn[c] = "handshake" /\ backlog' = backlog /\ req' = req /\ fds' = fds
        /\ leaving' = leaving /\ backend' = backend
    BY <1>1 DEF HandshakeDone
  <2>2. PICK st \in {"http1", "http2"} : conn' = [conn EXCEPT ![c] = st]
    BY <1>1 DEF HandshakeDone
  <2>3. st \in ConnState /\ \E fd \in fds' : fd[2] = c /\ fd[3] = 0
    BY <2>1, <2>2 DEF ConnState, Own, Accepted
  <2>4. Used' /\ Own' /\ conn' \in [Conns -> ConnState]
    BY <2>1, <2>2, <2>3, ConnStep
  <2>5. Queue'
    BY <2>1, <2>2, QueueFrame
  <2> QED
    BY <2>1, <2>4, <2>5 DEF Types, Table, Echo
<1>2. CASE HandshakeFails(c) \/ (PeerGone(c) /\ conn[c] # "http2")
  BY <1>2, EndStep DEF HandshakeFails, PeerGone, Accepted
<1>3. CASE PeerGone(c) /\ conn[c] = "http2"
  <2>1. /\ conn' = [conn EXCEPT ![c] = "closing"] /\ backlog' = backlog
        /\ req' = req /\ backend' = backend /\ Release(PeerSocket(c))
    BY <1>3 DEF PeerGone
  <2>2. PeerSocket(c) \in SUBSET fds /\ \A fd \in PeerSocket(c) : fd[3] = 0
    BY DEF PeerSocket
  <2>3. /\ Table' /\ fds' = fds \ PeerSocket(c)
        /\ leaving' \in SUBSET Descriptors
        /\ leaving' = leaving
    BY <2>1, <2>2, ReleaseTable
  <2>4. /\ \A fd \in fds' : fd \in fds /\ ~(fd[2] = c /\ fd[3] = 0)
        /\ \A fd \in fds : ~(fd[2] = c /\ fd[3] = 0) => fd \in fds'
        /\ "closing" \in ConnState
    BY <2>3 DEF PeerSocket, ConnState
  <2>5. Used' /\ Own' /\ conn' \in [Conns -> ConnState]
    BY <2>1, <2>4, ConnStep
  <2>6. Queue'
    BY <1>3, <2>1, QueueFrame
  <2> QED
    BY <2>1, <2>3, <2>5, <2>6 DEF Types, Echo
<1> QED
  BY <1>1, <1>2, <1>3

\* A process that starts has empty books.
LEMMA EmptyBooks ==
  ASSUME backlog = <<>>, conn = [c \in Conns |-> "none"],
         req = [c \in Conns |-> NoRequests], fds = {}, leaving = {}
  PROVE  Books
<1>1. Types
  BY DEF Types, ConnState, ReqState, NoRequests, AllFds
<1>2. Table /\ Used
  BY DEF Table, Used
<1>3. Own /\ Echo
  BY DEF Own, Accepted, Echo, NoRequests
<1>4. Queue
  BY DEF Queue
<1> QED
  BY <1>1, <1>2, <1>3, <1>4 DEF Books

\* The end of main leaves empty books.
LEMMA ExitStep ==
  ASSUME ExitProcess
  PROVE  Books'
<1>0. /\ backlog' = <<>> /\ conn' = [c \in Conns |-> "none"]
      /\ req' = [c \in Conns |-> NoRequests] /\ fds' = {} /\ leaving' = {}
  BY DEF ExitProcess
<1>1. Types'
  BY <1>0 DEF Types, ConnState, ReqState, NoRequests, AllFds
<1>2. Table' /\ Used'
  BY <1>0 DEF Table, Used
<1>3. Own' /\ Echo'
  BY <1>0 DEF Own, Accepted, Echo, NoRequests
<1>4. Queue'
  BY <1>0 DEF Queue
<1> QED
  BY <1>1, <1>2, <1>3, <1>4 DEF Books

\* Without a backend, a full table means that there are no more descriptors than
\* peers: each of them is the socket of a peer, and no peer has two.
LEMMA FullOfPeers ==
  ASSUME Books, ~backend, ~Room
  PROVE  ~(Cardinality(Conns) < MaxFds)
<1> USE DEF Books
<1>1. ASSUME NEW d \in Descriptors PROVE \E c \in Conns : <<d, c, 0>> \in fds
  <2>1. PICK fd \in fds : fd[1] = d
    BY DEF Room, Free, Echo
  <2>2. fd[2] \in Conns /\ fd[3] \in 0..MaxStreams /\ fd = <<d, fd[2], fd[3]>>
    BY <2>1 DEF Types, AllFds
  <2>3. fd[3] = 0
    <3> SUFFICES ASSUME fd[3] # 0 PROVE FALSE
      OBVIOUS
    <3>1. fd[3] \in Streams
      BY <2>2, GatewayAssumption DEF Streams
    <3> QED
      BY <2>2, <3>1 DEF Used, InUse, Echo
  <2> QED
    BY <2>2, <2>3
<1> DEFINE f == [d \in Descriptors |-> CHOOSE c \in Conns : <<d, c, 0>> \in fds]
<1>2. \A d \in Descriptors : f[d] \in Conns /\ <<d, f[d], 0>> \in fds
  BY <1>1
<1> HIDE DEF f
<1>3. \A d, e \in Descriptors : f[d] = f[e] => d = e
  <2> SUFFICES ASSUME NEW d \in Descriptors, NEW e \in Descriptors,
                      f[d] = f[e], d # e
               PROVE  FALSE
    OBVIOUS
  <2> DEFINE p == <<d, f[d], 0>>
             q == <<e, f[e], 0>>
  <2>1. p \in fds /\ q \in fds /\ p # q
    BY <1>2
  <2>2. <<p[2], p[3]>> = <<q[2], q[3]>>
    OBVIOUS
  <2> QED
    BY <2>1, <2>2 DEF Table
<1>4. f \in Injection(Descriptors, Conns)
  <2>1. f \in [Descriptors -> Conns]
    BY <1>2 DEF f
  <2> QED
    BY <1>3, <2>1 DEF Injection, IsInjective
<1>5. IsFiniteSet(Descriptors) /\ Cardinality(Descriptors) = MaxFds
  BY FS_Interval, GatewayAssumption DEF Descriptors
<1>6. Cardinality(Descriptors) <= Cardinality(Conns)
  BY <1>4, FS_Injection, GatewayAssumption
<1>7. Cardinality(Conns) \in Nat
  BY FS_CardinalityType, GatewayAssumption
<1> QED
  BY <1>5, <1>6, <1>7, GatewayAssumption

-----------------------------------------------------------------------------
(* Theorems.                                                               *)

\* Every step of the gateway keeps the books and, without a backend and with one
\* descriptor to spare, the process.
LEMMA Inductive == IInv /\ [Next]_vars => IInv'
<1> SUFFICES ASSUME IInv, [Next]_vars PROVE IInv'
  OBVIOUS
<1>0. Books
  BY DEF IInv
<1>1. CASE AcceptFails
  <2>1. Books'
    BY <1>1, ExitStep DEF AcceptFails
  <2>2. ~(~backend /\ Cardinality(Conns) < MaxFds)
    BY <1>0, <1>1, FullOfPeers DEF AcceptFails
  <2>3. up' = FALSE /\ ready' = FALSE /\ backend' = backend
    BY <1>1 DEF AcceptFails, ExitProcess
  <2> QED
    BY <2>1, <2>2, <2>3 DEF IInv, Flags, EchoStaysUp
<1>2. ASSUME Books', up' = up, backend' = backend, ready' \in BOOLEAN PROVE IInv'
  BY <1>2 DEF IInv, Flags, EchoStaysUp
<1>3. CASE Accept
  <2>1. up' = up /\ backend' = backend /\ ready' = ready
    BY <1>3 DEF Accept
  <2>2. Books'
    BY <1>0, <1>3, AcceptStep
  <2> QED
    BY <1>2, <2>1, <2>2 DEF IInv, Flags
<1>4. CASE AcceptBlocks
  <2>1. /\ up' = up /\ backend' = backend /\ ready' = FALSE /\ backlog' = backlog
        /\ conn' = conn /\ req' = req /\ fds' = fds /\ leaving' = leaving
    BY <1>4 DEF AcceptBlocks
  <2>2. Books'
    BY <1>0, <2>1 DEF Books, Types, Table, Used, Own, Echo, Queue, InUse, Accepted
  <2> QED
    BY <1>2, <2>1, <2>2
<1>5. ASSUME NEW c \in Conns, Outside(c) PROVE IInv'
  <2>1. Books'
    BY <1>0, <1>5, ConnectStep, PeerStep, StreamStep DEF Outside
  <2>2. up' = up /\ backend' = backend /\ ready' \in {ready, TRUE}
    BY <1>5 DEF Outside, Connect, HandshakeDone, HandshakeFails, PeerGone,
       EndConnection, ReadRequest, BackendReplies, StreamReset, EndRequest
  <2> QED
    BY <1>2, <2>1, <2>2 DEF IInv, Flags
<1>6. ASSUME NEW c \in Conns, NEW s \in Streams, HandlerStep(c, s) PROVE IInv'
  <2>1. Books'
    BY <1>0, <1>6, StreamStep
  <2>2. up' = up /\ backend' = backend /\ ready' = ready
    BY <1>6 DEF HandlerStep, AnswerLocally, Forward, StreamDropped, EndRequest
  <2> QED
    BY <1>2, <2>1, <2>2 DEF IInv, Flags
<1>7. ASSUME NEW d \in Descriptors, BackendTaskEnds(d) \/ BackendCloses(d)
      PROVE  IInv'
  <2>1. Books'
    BY <1>0, <1>7, BackendStep
  <2>2. up' = up /\ backend' = backend /\ ready' = ready
    BY <1>7 DEF BackendTaskEnds, BackendCloses
  <2> QED
    BY <1>2, <2>1, <2>2 DEF IInv, Flags
<1>8. CASE UNCHANGED vars
  <2>1. /\ up' = up /\ backend' = backend /\ ready' = ready /\ backlog' = backlog
        /\ conn' = conn /\ req' = req /\ fds' = fds /\ leaving' = leaving
    BY <1>8 DEF vars
  <2>2. Books'
    BY <1>0, <2>1 DEF Books, Types, Table, Used, Own, Echo, Queue, InUse, Accepted
  <2> QED
    BY <1>2, <2>1, <2>2 DEF IInv, Flags
<1> QED
  BY <1>1, <1>3, <1>4, <1>5, <1>6, <1>7, <1>8 DEF Next, LoopStep

\* The books are right in every reachable state (Gateway!Spec).
THEOREM BooksKept == Spec => []IInv
<1>1. Init => IInv
  <2> SUFFICES ASSUME Init PROVE IInv
    OBVIOUS
  <2>1. Books
    BY EmptyBooks DEF Init
  <2> QED
    BY <2>1 DEF Init, IInv, Flags, EchoStaysUp
<1> QED
  BY <1>1, Inductive, PTL DEF Spec

\* What the invariant says of the descriptors.
LEMMA BooksMatch == Books => DescriptorsMatch
<1> SUFFICES ASSUME Books PROVE DescriptorsMatch
  OBVIOUS
<1>1. \A c \in Conns : Accepted(c) => PeerSocket(c) # {}
  BY DEF Books, Own, PeerSocket
<1> QED
  BY <1>1 DEF Books, Table, Used, DescriptorsMatch

\* What holds a descriptor is a connection in progress, a request that the
\* backend has or the task of a backend connection about to end, each at most
\* one, for any number of peers and streams (main.rs accept loop, proxy.rs).
THEOREM DescriptorsAccounted == Spec => []DescriptorsMatch
<1>1. IInv => DescriptorsMatch
  BY BooksMatch DEF IInv
<1> QED
  BY <1>1, BooksKept, PTL

\* Only accept without a descriptor ends main (main.rs:136), and then every
\* descriptor serves something in progress or is about to be closed: none has
\* been lost on the way.
THEOREM ExitsFull == Spec => ExitsOnlyFull
<1>1. ASSUME IInv, [Next]_vars, up, ~up'
      PROVE  \A d \in Descriptors :
               d \in leaving \/ \E fd \in fds : fd[1] = d /\ InUse(fd)
  <2>1. ~Room
    BY <1>1 DEF Next, LoopStep, HandlerStep, Outside, Connect, Accept,
       AcceptBlocks, AcceptFails, HandshakeDone, HandshakeFails, EndConnection,
       ReadRequest, AnswerLocally, Forward, BackendReplies, BackendTaskEnds,
       BackendCloses, PeerGone, StreamDropped, StreamReset, EndRequest, vars
  <2>2. \A fd \in fds : InUse(fd)
    BY <1>1 DEF IInv, Books, Used
  <2> QED
    BY <2>1, <2>2 DEF Room, Free
<1>2. IInv /\ [Next]_vars =>
        [up /\ ~up' =>
           \A d \in Descriptors :
             d \in leaving \/ \E fd \in fds : fd[1] = d /\ InUse(fd)]_vars
  BY <1>1
<1> QED
  BY <1>2, BooksKept, PTL DEF Spec, ExitsOnlyFull

\* In echo mode a gateway with one descriptor more than its peers can have
\* connections stays up whatever they do: they cannot fill the table.
THEOREM EchoGatewayStaysUp == Spec => []EchoStaysUp
<1>1. IInv => EchoStaysUp
  BY DEF IInv
<1> QED
  BY <1>1, BooksKept, PTL

\* Variables keep their types, as Gateway's actions write them.
THEOREM GatewayTypeCorrect == Spec => []TypeOK
<1>1. IInv => TypeOK
  BY DEF IInv, Books, Types, Flags, TypeOK, AllFds
<1> QED
  BY <1>1, BooksKept, PTL
=============================================================================

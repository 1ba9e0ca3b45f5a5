------------------------------ MODULE Gateway ------------------------------
(***************************************************************************)
(* A listening gateway: the accept loop of main.rs, the task it spawns for *)
(* every connection, the requests that hyper reads from it (one at a time  *)
(* over HTTP/1, several over HTTP/2) and the handler of proxy.rs, which    *)
(* opens a connection of its own to the backend for every request.         *)
(*                                                                         *)
(* Every connection and every forwarded request holds a file descriptor;   *)
(* the process has MaxFds for them.  The code sets neither a limit nor a   *)
(* timeout: what ends a connection is its peer, the backend's answer, or   *)
(* the end of the process.  The socket to the backend belongs to a task of *)
(* its own, spawned by the HTTP client: it outlives the request.           *)
(***************************************************************************)
EXTENDS Naturals, Sequences, FiniteSets

CONSTANTS
  Conns,       \* peers, each with one connection at a time
  MaxStreams,  \* bound: requests in progress on an HTTP/2 connection
  MaxFds       \* descriptors left after the listener and the runtime's own

ASSUME GatewayAssumption ==
  /\ IsFiniteSet(Conns)
  /\ MaxStreams \in Nat \ {0}
  /\ MaxFds \in Nat

Streams     == 1..MaxStreams
Descriptors == 1..MaxFds

VARIABLES
  backend,  \* TRUE if the gateway runs with --backend
  up,       \* FALSE once main has returned
  backlog,  \* connections the kernel holds for accept, oldest first
  ready,    \* tokio's view: the listener may be accepted from
  conn,     \* where the connection of every peer is
  req,      \* req[c][s]: the request in progress on stream s
  fds,      \* <<d, c, 0>>: d is the socket of peer c; <<d, c, s>>: d is the
            \* socket to the backend for its request s
  leaving   \* sockets to the backend whose requests are over, still open

vars == <<backend, up, backlog, ready, conn, req, fds, leaving>>

\* "closing": an HTTP/2 connection is over, tasks of its streams may be left.
\* "local": answered by the gateway itself: /health, an unknown route or method,
\* a body beyond axum's limit and, without --backend, the echo.
ReqState  == {"none", "generate", "local", "forwarded"}
ConnState == {"none", "queued", "handshake", "http1", "http2", "closing"}

NoRequests == [s \in Streams |-> "none"]

Init ==
  /\ backend \in BOOLEAN
  /\ up = TRUE
  /\ backlog = <<>>
  /\ ready = FALSE
  /\ conn = [c \in Conns |-> "none"]
  /\ req = [c \in Conns |-> NoRequests]
  /\ fds = {}
  /\ leaving = {}

-----------------------------------------------------------------------------

Free == {d \in Descriptors : d \notin leaving /\ \A fd \in fds : fd[1] # d}

\* A descriptor can be opened: accept4 and socket fail with EMFILE otherwise.
Room == Free # {}

\* The kernel gives out the lowest one.
Lowest(d) == d \in Free /\ \A e \in Free : d <= e

\* Nothing of an earlier connection of c is left.
Closed(c) == conn[c] = "none" \/ (conn[c] = "closing" /\ req[c] = NoRequests)

\* What is in S is let go of.  A peer's socket is closed with the task that owns
\* it; the backend's too while it connects, later its own task is only told.
Release(S) ==
  /\ fds' = fds \ S
  /\ \E told \in SUBSET {fd \in S : fd[3] # 0} :
       leaving' = leaving \cup {fd[1] : fd \in told}

FdsOf(c)          == {fd \in fds : fd[2] = c}
PeerSocket(c)     == {fd \in fds : fd[2] = c /\ fd[3] = 0}
StreamSocket(c, s) == {fd \in fds : fd[2] = c /\ fd[3] = s}

\* The task of connection c ends, and with it the handler it polls itself.
EndConnection(c) ==
  /\ conn' = [conn EXCEPT ![c] = "none"]
  /\ req' = [req EXCEPT ![c] = NoRequests]
  /\ Release(FdsOf(c))
  /\ UNCHANGED <<backend, up, backlog, ready>>

\* main returns: the runtime drops every task, the kernel resets the rest.
ExitProcess ==
  /\ up' = FALSE
  /\ backlog' = <<>>
  /\ ready' = FALSE
  /\ conn' = [c \in Conns |-> "none"]
  /\ req' = [c \in Conns |-> NoRequests]
  /\ fds' = {}
  /\ leaving' = {}
  /\ UNCHANGED backend

-----------------------------------------------------------------------------

\* A peer connects; the kernel completes it without the process: external.
Connect(c) ==
  /\ up
  /\ Closed(c)
  /\ conn' = [conn EXCEPT ![c] = "queued"]
  /\ backlog' = Append(backlog, c)
  /\ ready' = TRUE
  /\ UNCHANGED <<backend, up, req, fds, leaving>>

\* Mutant: the loop serves the connection itself instead of spawning a task.
Accept_inline ==
  /\ ready /\ backlog # <<>>
  /\ fds = {}
  /\ conn' = [conn EXCEPT ![Head(backlog)] = "handshake"]
  /\ \E d \in Descriptors : Lowest(d) /\ fds' = fds \cup {<<d, Head(backlog), 0>>}
  /\ backlog' = Tail(backlog)
  /\ UNCHANGED <<backend, up, ready, req, leaving>>

\* listener.accept() returns the oldest connection; a task is spawned for it.
\* The loop comes back at once: the listener counts as ready until it blocks.
Accept ==
  /\ ready /\ backlog # <<>>
  /\ conn' = [conn EXCEPT ![Head(backlog)] = "handshake"]
  /\ \E d \in Descriptors : Lowest(d) /\ fds' = fds \cup {<<d, Head(backlog), 0>>}
  /\ backlog' = Tail(backlog)
  /\ UNCHANGED <<backend, up, ready, req, leaving>>

\* Nobody is queued: accept4 would block, the loop waits for the next event.
AcceptBlocks ==
  /\ ready /\ backlog = <<>> /\ Room
  /\ ready' = FALSE
  /\ UNCHANGED <<backend, up, backlog, conn, req, fds, leaving>>

\* accept4 takes a descriptor before it looks at the queue: without one it
\* fails, whether somebody is queued or not, and `?` ends main.
AcceptFails ==
  /\ ready /\ ~Room
  /\ ExitProcess

\* acceptor.accept(stream) succeeds; auto::Builder tells the two protocols
\* apart by the first bytes.
HandshakeDone(c) ==
  /\ conn[c] = "handshake"
  /\ \E proto \in {"http1", "http2"} : conn' = [conn EXCEPT ![c] = proto]
  /\ UNCHANGED <<backend, up, backlog, ready, req, fds, leaving>>

\* Mutant: the error of one handshake is returned from main.
HandshakeFails_fatal(c) ==
  /\ conn[c] = "handshake"
  /\ ExitProcess

\* acceptor.accept(stream) fails: the task logs it and returns.
HandshakeFails(c) ==
  /\ conn[c] = "handshake"
  /\ EndConnection(c)

\* hyper reads a request: over HTTP/1 only after the answer to the last one.
\* Without --backend /v1/generate is answered by the echo.
ReadRequest(c, s) ==
  /\ conn[c] \in {"http1", "http2"}
  /\ req[c][s] = "none"
  /\ conn[c] = "http1" => req[c] = NoRequests
  /\ \E kind \in {"generate", "local"} :
       /\ kind = "generate" => backend
       /\ req' = [req EXCEPT ![c][s] = kind]
  /\ UNCHANGED <<backend, up, backlog, ready, conn, fds, leaving>>

\* The answer is written: the router's own, health_handler's or the echo.
AnswerLocally(c, s) ==
  /\ req[c][s] = "local"
  /\ req' = [req EXCEPT ![c][s] = "none"]
  /\ UNCHANGED <<backend, up, backlog, ready, conn, fds, leaving>>

\* Mutant: the handler waits for a descriptor instead of answering 502.
Forward_waits(c, s) ==
  /\ req[c][s] = "generate"
  /\ req' = [req EXCEPT ![c][s] = "forwarded"]
  /\ \E d \in Descriptors : Lowest(d) /\ fds' = fds \cup {<<d, c, s>>}
  /\ UNCHANGED <<backend, up, backlog, ready, conn, leaving>>

\* handle_generate with a backend: a new reqwest client, hence a new socket;
\* if none can be opened, send() fails and the answer is 502.
Forward(c, s) ==
  /\ req[c][s] = "generate"
  /\ \/ /\ req' = [req EXCEPT ![c][s] = "forwarded"]
        /\ \E d \in Descriptors : Lowest(d) /\ fds' = fds \cup {<<d, c, s>>}
     \/ /\ ~Room
        /\ req' = [req EXCEPT ![c][s] = "none"]
        /\ UNCHANGED fds
  /\ UNCHANGED <<backend, up, backlog, ready, conn, leaving>>

\* The handler of a stream is over or dropped wherever it is, and with it its
\* reqwest client.
EndRequest(c, s) ==
  /\ req' = [req EXCEPT ![c][s] = "none"]
  /\ Release(StreamSocket(c, s))
  /\ UNCHANGED <<backend, up, backlog, ready, conn>>

\* The backend answers or its connection fails: the answer is passed on or is
\* 502.
BackendReplies(c, s) ==
  /\ req[c][s] = "forwarded"
  /\ EndRequest(c, s)

\* The backend closes its side, before its answer has been passed on perhaps:
\* the task of the socket ends.
BackendCloses(d) ==
  /\ \E c \in Conns, s \in Streams : <<d, c, s>> \in fds
  /\ fds' = {fd \in fds : fd[1] # d}
  /\ UNCHANGED <<backend, up, backlog, ready, conn, req, leaving>>

\* The task of a socket whose client is gone is polled, and closes it.
BackendTaskEnds(d) ==
  /\ d \in leaving
  /\ leaving' = leaving \ {d}
  /\ UNCHANGED <<backend, up, backlog, ready, conn, req, fds>>

\* Mutant: an HTTP/2 connection that is over keeps its socket.
PeerGone_leaks(c) ==
  \/ /\ conn[c] \in {"handshake", "http1"}
     /\ EndConnection(c)
  \/ /\ conn[c] = "http2"
     /\ conn' = [conn EXCEPT ![c] = "closing"]
     /\ UNCHANGED <<backend, up, backlog, ready, req, fds, leaving>>

\* The peer closes or resets the connection, at any point.  Over HTTP/2 every
\* stream has a task of its own (TokioExecutor), which outlives it.
PeerGone(c) ==
  \/ /\ conn[c] \in {"handshake", "http1"}
     /\ EndConnection(c)
  \/ /\ conn[c] = "http2"
     /\ conn' = [conn EXCEPT ![c] = "closing"]
     /\ Release(PeerSocket(c))
     /\ UNCHANGED <<backend, up, backlog, ready, req>>

\* Mutant: a handler that awaits the backend does not learn of the end.
StreamDropped_unpolled(c, s) ==
  /\ conn[c] = "closing"
  /\ req[c][s] \in {"generate", "local"}
  /\ EndRequest(c, s)

\* hyper tells the task of a stream that its connection is over.
StreamDropped(c, s) ==
  /\ conn[c] = "closing"
  /\ req[c][s] # "none"
  /\ EndRequest(c, s)

\* The peer resets one stream of an HTTP/2 connection.
StreamReset(c, s) ==
  /\ conn[c] = "http2"
  /\ req[c][s] # "none"
  /\ EndRequest(c, s)

\* Steps the runtime takes by itself.
LoopStep == Accept \/ AcceptBlocks \/ AcceptFails
HandlerStep(c, s) == AnswerLocally(c, s) \/ Forward(c, s) \/ StreamDropped(c, s)

\* Steps of peers and of the backend.
Outside(c) ==
  \/ Connect(c)
  \/ HandshakeDone(c)
  \/ HandshakeFails(c)
  \/ PeerGone(c)
  \/ \E s \in Streams :
       ReadRequest(c, s) \/ BackendReplies(c, s) \/ StreamReset(c, s)

Next ==
  \/ LoopStep
  \/ \E c \in Conns, s \in Streams : HandlerStep(c, s)
  \/ \E d \in Descriptors : BackendTaskEnds(d) \/ BackendCloses(d)
  \/ \E c \in Conns : Outside(c)

Spec == Init /\ [][Next]_vars

\* tokio polls the accept loop, every handler that is ready and every task that
\* its client's end has woken.  A handshake, a request and the backend's answer
\* depend on the other side: not fair.
FairSpec ==
  /\ Spec
  /\ WF_vars(LoopStep)
  /\ \A c \in Conns, s \in Streams : WF_vars(HandlerStep(c, s))
  /\ \A d \in Descriptors : WF_vars(BackendTaskEnds(d))

-----------------------------------------------------------------------------
(* Properties.                                                             *)

\* Variables keep their types.
TypeOK ==
  /\ backend \in BOOLEAN /\ up \in BOOLEAN /\ ready \in BOOLEAN
  /\ backlog \in Seq(Conns)
  /\ conn \in [Conns -> ConnState]
  /\ req \in [Conns -> [Streams -> ReqState]]
  /\ fds \subseteq Descriptors \X Conns \X (0..MaxStreams)
  /\ leaving \subseteq Descriptors

Accepted(c) == conn[c] \in {"handshake", "http1", "http2"}

\* fd serves a connection or a forwarded request that is in progress.
InUse(fd) == IF fd[3] = 0 THEN Accepted(fd[2])
                          ELSE req[fd[2]][fd[3]] = "forwarded"

\* A descriptor is held by what is in progress, or by the task of a backend
\* connection whose request is over, and by nothing else: whatever ends a
\* connection, in the middle of forwarded requests too.  Nothing in progress
\* holds two, no descriptor serves two, and every accepted peer has its own.
DescriptorsMatch ==
  /\ \A fd \in fds : InUse(fd) /\ fd[1] \notin leaving
  /\ \A f, g \in fds : f # g => f[1] # g[1] /\ <<f[2], f[3]>> # <<g[2], g[3]>>
  /\ \A c \in Conns : Accepted(c) => PeerSocket(c) # {}

\* The gateway exits only while every descriptor there is serves a connection or
\* a request in progress or is about to be closed by its task: the failure of
\* one handshake, request or connection ends no other one, now or, through what
\* it leaves open for good, later.
ExitsOnlyFull ==
  [][up /\ ~up' =>
       \A d \in Descriptors :
         d \in leaving \/ \E fd \in fds : fd[1] = d /\ InUse(fd)]_vars

\* A gateway without a backend stays up if it has one descriptor more than its
\* peers can have connections, whatever they do.  One less is not enough: the
\* accept after the last connection fails though nobody is queued.
EchoStaysUp == ~backend /\ Cardinality(Conns) < MaxFds => up

\* No connection waits behind another one: it is accepted, or the process ends,
\* even while others are silent in their handshake or wait on the backend.
QueuedIsAccepted ==
  \A c \in Conns : conn[c] = "queued" ~> conn[c] # "queued"

\* Every request that was read is answered or is with the backend; at the limit
\* of descriptors it gets an answer too.
RequestsResolve ==
  \A c \in Conns, s \in Streams :
    req[c][s] \in {"generate", "local"} ~> req[c][s] \in {"none", "forwarded"}

\* A peer that goes away gives back every descriptor that was open for it: its
\* handlers are dropped and then the tasks of their sockets end, though none of
\* the backend requests made for it has a timeout or an answer.
ClosedIsReleased ==
  \A d \in Descriptors :
    (\E fd \in fds : fd[1] = d /\ conn[fd[2]] = "closing") ~> d \in Free
=============================================================================

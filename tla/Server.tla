------------------------------- MODULE Server -------------------------------
(***************************************************************************)
(* The life of the connections of a server: the accept loop and the        *)
(* shutdown of cmd/minikv (src/cmd/minikv/main.go, run) and ServeConn,     *)
(* serveConn and Shutdown (src/internal/server/server.go).                 *)
(*                                                                         *)
(* Every accepted connection has a goroutine.  pc names the statement of   *)
(* ServeConn it is about to execute, in the order of the code: its defers  *)
(* run backwards, so a handler leaves through closing, deregistering,      *)
(* finishing and releasing.  A counter that only STATS reads is changed in *)
(* one step with the statement next to it.  What a command does to the     *)
(* store is module Store's; here a command is read and answered.           *)
(***************************************************************************)
EXTENDS Integers, FiniteSets

CONSTANTS
  Conn,            \* the connections clients may open
  MaxConnections,  \* the cap; 0 disables it
  IdleTimeout,     \* whether idle-timeout is set
  MaxSent          \* bound on the commands a client sends ahead

ASSUME ServerAssumption ==
  /\ IsFiniteSet(Conn)
  /\ MaxConnections \in Nat
  /\ IdleTimeout \in BOOLEAN
  /\ MaxSent \in Nat

VARIABLES
  pc,        \* where each connection's goroutine is
  sock,      \* each connection: its client, unread commands, deadline
  slots,     \* the number of tokens in Server.semaphore
  wg,        \* Server.wg
  conns,     \* Server.conns
  opened, rejected, active,  \* the connection counters
  main,      \* the main goroutine: where it is, and how Shutdown returned
  signalled, \* SIGTERM came: ctx is cancelled
  listening, \* the listener is open
  done,      \* the channel Shutdown's waiter closes
  swept,     \* history: the connections given the shutdown deadline
  late       \* history: accepted then, but not yet registered

handler == <<pc, slots, wg, conns, opened, rejected, active>>

shutdown == <<main, signalled, listening, done, swept, late>>

vars == <<pc, sock, slots, wg, conns, opened, rejected, active,
          main, signalled, listening, done, swept, late>>

-----------------------------------------------------------------------------
(***************************************************************************)
(* A connection as the server's net.Conn and bufio.Reader show it.  sent   *)
(* counts the commands in the socket, buffered those the reader already    *)
(* took from it.  The read deadline is none, ahead or past.                *)
(***************************************************************************)
NewSock == [client |-> "up", sent |-> 0, buffered |-> 0, deadline |-> "none", closed |-> FALSE]

Init ==
  /\ pc = [c \in Conn |-> "none"]
  /\ sock = [c \in Conn |-> NewSock]
  /\ slots = 0 /\ wg = 0 /\ conns = {}
  /\ opened = 0 /\ rejected = 0 /\ active = 0
  /\ main = "accepting" /\ signalled = FALSE /\ listening = TRUE /\ done = FALSE
  /\ swept = {} /\ late = {}

\* The process ends when run returns.
Running == main \notin {"failed", "clean", "forced"}

Step(c, from, to) ==
  /\ Running
  /\ pc[c] = from
  /\ pc' = [pc EXCEPT ![c] = to]

-----------------------------------------------------------------------------
(***************************************************************************)
(* Clients, from accept to close.  One that stalls no longer takes what    *)
(* the server writes.                                                      *)
(***************************************************************************)
Connected(c) == pc[c] # "none" /\ ~ sock[c].closed

Client(c, from, to) ==
  /\ Running
  /\ Connected(c) /\ sock[c].client \in from
  /\ sock' = [sock EXCEPT ![c].client = to]
  /\ UNCHANGED <<handler, shutdown>>

Stall(c) == Client(c, {"up"}, "stalled")

Hangup(c) == Client(c, {"up", "stalled"}, "gone")

Send(c) ==
  /\ Running
  /\ Connected(c) /\ sock[c].client = "up"
  /\ sock[c].sent < MaxSent
  /\ sock' = [sock EXCEPT ![c].sent = @ + 1]
  /\ UNCHANGED <<handler, shutdown>>

-----------------------------------------------------------------------------
(***************************************************************************)
(* ServeConn up to serveConn.                                              *)
(***************************************************************************)
\* Mutant: one slot too many.
HasRoom_OneMore == MaxConnections = 0 \/ slots <= MaxConnections

\* acquireSlot does not wait.
HasRoom == MaxConnections = 0 \/ slots < MaxConnections

Acquire(c) ==
  /\ HasRoom
  /\ Step(c, "opening", "adding")
  /\ opened' = opened + 1
  /\ slots' = IF MaxConnections = 0 THEN slots ELSE slots + 1
  /\ UNCHANGED <<sock, wg, conns, rejected, active, shutdown>>

\* What is left in a connection the server closes is lost.
ClosedSock(c) == [NewSock EXCEPT !.client = sock[c].client, !.closed = TRUE]

\* Mutant: a rejected connection is not counted as opened.
Reject_NotOpened(c) ==
  /\ ~ HasRoom
  /\ Step(c, "opening", "returned")
  /\ rejected' = rejected + 1
  /\ sock' = [sock EXCEPT ![c] = ClosedSock(c)]
  /\ UNCHANGED <<slots, wg, conns, opened, active, shutdown>>

Reject(c) ==
  /\ ~ HasRoom
  /\ Step(c, "opening", "returned")
  /\ opened' = opened + 1
  /\ rejected' = rejected + 1
  /\ sock' = [sock EXCEPT ![c] = ClosedSock(c)]
  /\ UNCHANGED <<slots, wg, conns, active, shutdown>>

WgAdd(c) ==
  /\ Step(c, "adding", "registering")
  /\ wg' = wg + 1
  /\ UNCHANGED <<sock, slots, conns, opened, rejected, active, shutdown>>

registerConn(c) ==
  /\ Step(c, "registering", "arming")
  /\ conns' = conns \cup {c}
  /\ active' = active + 1
  /\ UNCHANGED <<sock, slots, wg, opened, rejected, shutdown>>

-----------------------------------------------------------------------------
(***************************************************************************)
(* The loop of serveConn.                                                  *)
(***************************************************************************)
\* Mutant: the idle deadline is not set.
Arm_NoDeadline(c) ==
  /\ Step(c, "arming", "reading")
  /\ UNCHANGED <<sock, slots, wg, conns, opened, rejected, active, shutdown>>

\* The idle deadline replaces whatever deadline the connection had.
Arm(c) ==
  /\ Step(c, "arming", "reading")
  /\ sock' = IF IdleTimeout THEN [sock EXCEPT ![c].deadline = "ahead"] ELSE sock
  /\ UNCHANGED <<slots, wg, conns, opened, rejected, active, shutdown>>

\* ReadCommand finds a command in its buffer and does not look at the socket.
ReadBuffered(c) ==
  /\ sock[c].buffered > 0
  /\ Step(c, "reading", "answering")
  /\ sock' = [sock EXCEPT ![c].buffered = @ - 1]
  /\ UNCHANGED <<slots, wg, conns, opened, rejected, active, shutdown>>

\* ReadCommand takes all there is from the socket.
ReadSocket(c) ==
  /\ sock[c].buffered = 0 /\ sock[c].sent > 0
  /\ sock[c].deadline # "past" /\ ~ sock[c].closed
  /\ Step(c, "reading", "answering")
  /\ sock' = [sock EXCEPT ![c].buffered = sock[c].sent - 1, ![c].sent = 0]
  /\ UNCHANGED <<slots, wg, conns, opened, rejected, active, shutdown>>

\* Mutant: a read that fails is tried again.
ReadFails_TriesAgain(c) ==
  /\ sock[c].buffered = 0
  /\ \/ sock[c].deadline = "past"
     \/ sock[c].closed
     \/ sock[c].client = "gone" /\ sock[c].sent = 0
  /\ Step(c, "reading", IF sock[c].closed THEN "closing" ELSE "arming")
  /\ UNCHANGED <<sock, slots, wg, conns, opened, rejected, active, shutdown>>

\* The read fails, even with commands in the socket, once the deadline is past
\* or the connection closed; at the end of the input it returns EOF.
ReadFails(c) ==
  /\ sock[c].buffered = 0
  /\ \/ sock[c].deadline = "past"
     \/ sock[c].closed
     \/ sock[c].client = "gone" /\ sock[c].sent = 0
  /\ Step(c, "reading", "closing")
  /\ UNCHANGED <<sock, slots, wg, conns, opened, rejected, active, shutdown>>

\* The command is executed and the reply flushed, which waits for a stalled
\* client: there is no write deadline.  The loop goes on, or ends after a
\* failed write or a reply that closes the connection.
Answer(c) ==
  /\ sock[c].client # "stalled" \/ sock[c].closed
  /\ \/ ~ sock[c].closed /\ Step(c, "answering", "arming")
     \/ Step(c, "answering", "closing")
  /\ UNCHANGED <<sock, slots, wg, conns, opened, rejected, active, shutdown>>

\* Time passes: the idle deadline is reached.  Only a read notices.
IdleExpires(c) ==
  /\ Running
  /\ pc[c] = "reading" /\ sock[c].deadline = "ahead"
  /\ sock' = [sock EXCEPT ![c].deadline = "past"]
  /\ UNCHANGED <<handler, shutdown>>

-----------------------------------------------------------------------------
(***************************************************************************)
(* The defers of ServeConn.                                                *)
(***************************************************************************)
Close(c) ==
  /\ Step(c, "closing", "deregistering")
  /\ sock' = [sock EXCEPT ![c] = ClosedSock(c)]
  /\ active' = active - 1
  /\ UNCHANGED <<slots, wg, conns, opened, rejected, shutdown>>

deregisterConn(c) ==
  /\ Step(c, "deregistering", "finishing")
  /\ conns' = conns \ {c}
  /\ UNCHANGED <<sock, slots, wg, opened, rejected, active, shutdown>>

WgDone(c) ==
  /\ Step(c, "finishing", "releasing")
  /\ wg' = wg - 1
  /\ UNCHANGED <<sock, slots, conns, opened, rejected, active, shutdown>>

\* Mutant: the slot is lost.
releaseSlot_Lost(c) ==
  /\ Step(c, "releasing", "returned")
  /\ UNCHANGED <<sock, slots, wg, conns, opened, rejected, active, shutdown>>

releaseSlot(c) ==
  /\ Step(c, "releasing", "returned")
  /\ slots' = IF MaxConnections = 0 THEN slots ELSE slots - 1
  /\ UNCHANGED <<sock, wg, conns, opened, rejected, active, shutdown>>

-----------------------------------------------------------------------------
(***************************************************************************)
(* run: the accept loop, then Shutdown.                                    *)
(***************************************************************************)
\* Accept returns a connection, also after the signal while the listener is
\* still open, and its goroutine is started.
Accept(c) ==
  /\ main = "accepting" /\ listening
  /\ Step(c, "none", "opening")
  /\ UNCHANGED <<sock, slots, wg, conns, opened, rejected, active, shutdown>>

Signal ==
  /\ Running
  /\ ~ signalled
  /\ signalled' = TRUE
  /\ UNCHANGED <<handler, sock, main, listening, done, swept, late>>

\* The goroutine that waits for ctx closes the listener.
CloseListener ==
  /\ Running
  /\ signalled /\ listening
  /\ listening' = FALSE
  /\ UNCHANGED <<handler, sock, main, signalled, done, swept, late>>

\* Accept returns an error: net.ErrClosed, or another one at any time, which
\* ends the process unless ctx is cancelled.
AcceptFails ==
  /\ main = "accepting"
  /\ main' = IF signalled \/ ~ listening THEN "sweeping" ELSE "failed"
  /\ UNCHANGED <<handler, sock, signalled, listening, done, swept, late>>

\* What the goroutines that already run ServeConn but did not reach
\* registerConn are about to execute.
Unregistered == {"opening", "adding", "registering"}

\* Mutant: no deadline is set.
Sweep_NoDeadline ==
  /\ main = "sweeping"
  /\ main' = "waiting"
  /\ swept' = conns
  /\ late' = {c \in Conn : pc[c] \in Unregistered}
  /\ UNCHANGED <<handler, sock, signalled, listening, done>>

\* Shutdown sets an immediate read deadline on the registered connections and
\* starts the goroutine that waits for wg.
Sweep ==
  /\ main = "sweeping"
  /\ main' = "waiting"
  /\ sock' = [c \in Conn |-> IF c \in conns THEN [sock[c] EXCEPT !.deadline = "past"] ELSE sock[c]]
  /\ swept' = conns
  /\ late' = {c \in Conn : pc[c] \in Unregistered}
  /\ UNCHANGED <<handler, signalled, listening, done>>

WaitReturns ==
  /\ main \in {"waiting", "draining"}
  /\ ~ done
  /\ wg = 0
  /\ done' = TRUE
  /\ UNCHANGED <<handler, sock, main, signalled, listening, swept, late>>

ShutdownClean ==
  /\ main = "waiting" /\ done
  /\ main' = "clean"
  /\ UNCHANGED <<handler, sock, signalled, listening, done, swept, late>>

\* Mutant: no connection is closed.
ForceClose_Nothing ==
  /\ main = "waiting"
  /\ main' = "draining"
  /\ UNCHANGED <<handler, sock, signalled, listening, done, swept, late>>

\* The shutdown timeout expires: the registered connections are closed.
ForceClose ==
  /\ main = "waiting"
  /\ main' = "draining"
  /\ sock' = [c \in Conn |-> IF c \in conns THEN [sock[c] EXCEPT !.closed = TRUE] ELSE sock[c]]
  /\ UNCHANGED <<handler, signalled, listening, done, swept, late>>

\* Mutant: Shutdown does not wait for the handlers it closed.
ShutdownForced_AtOnce ==
  /\ main = "draining"
  /\ main' = "forced"
  /\ UNCHANGED <<handler, sock, signalled, listening, done, swept, late>>

ShutdownForced ==
  /\ main = "draining" /\ done
  /\ main' = "forced"
  /\ UNCHANGED <<handler, sock, signalled, listening, done, swept, late>>

Terminated == ~ Running /\ UNCHANGED vars

-----------------------------------------------------------------------------
Handle(c) ==
  \/ Acquire(c) \/ Reject(c) \/ WgAdd(c) \/ registerConn(c)
  \/ Arm(c) \/ ReadBuffered(c) \/ ReadSocket(c) \/ ReadFails(c) \/ Answer(c)
  \/ Close(c) \/ deregisterConn(c) \/ WgDone(c) \/ releaseSlot(c)

ShutDown ==
  \/ CloseListener \/ Sweep \/ WaitReturns \/ ShutdownClean \/ ForceClose \/ ShutdownForced

Next ==
  \/ \E c \in Conn :
       Send(c) \/ Stall(c) \/ Hangup(c) \/ IdleExpires(c) \/ Accept(c) \/ Handle(c)
  \/ Signal
  \/ AcceptFails
  \/ ShutDown
  \/ Terminated

Spec == Init /\ [][Next]_vars

\* Goroutines run, timers fire, and Accept returns once the listener is
\* closed; clients, the signal and errors are free to come or not.
Fairness ==
  /\ \A c \in Conn : WF_vars(Handle(c)) /\ WF_vars(IdleExpires(c))
  /\ WF_vars(ShutDown)
  /\ WF_vars(AcceptFails /\ ~ listening)

FairSpec == Spec /\ Fairness
-----------------------------------------------------------------------------
(***************************************************************************)
(* Where a handler is when it counts in slots, in wg, in conns, in active. *)
(***************************************************************************)
Serving == {"arming", "reading", "answering", "closing"}

Registered == Serving \cup {"deregistering"}

Counted == Registered \cup {"registering", "finishing"}

Holding == Counted \cup {"adding", "releasing"}

At(places) == {c \in Conn : pc[c] \in places}

Place == {"none", "opening", "returned"} \cup Holding

Sock == [client : {"up", "stalled", "gone"}, sent : Nat, buffered : Nat,
         deadline : {"none", "ahead", "past"}, closed : BOOLEAN]

\* Every variable has its type.
TypeOK ==
  /\ pc \in [Conn -> Place]
  /\ sock \in [Conn -> Sock]
  /\ slots \in Int /\ wg \in Int /\ opened \in Nat /\ rejected \in Nat /\ active \in Int
  /\ conns \subseteq Conn /\ swept \subseteq Conn /\ late \subseteq Conn
  /\ main \in {"accepting", "sweeping", "waiting", "draining", "failed", "clean", "forced"}
  /\ signalled \in BOOLEAN /\ listening \in BOOLEAN /\ done \in BOOLEAN

\* max-connections caps the connections served at any moment, however opening
\* and closing handlers interleave, and STATS never reports more active ones.
CapHolds ==
  MaxConnections > 0 => Cardinality(conns) <= MaxConnections /\ active <= MaxConnections

\* A connection is turned away only while the cap is really used up: no slot
\* is lost on any way out of ServeConn.
RejectedOnlyWhenFull ==
  [][rejected' # rejected => Cardinality(At(Holding)) = MaxConnections]_vars

\* At every moment the connection counters are consistent: active is never
\* negative, and with the rejected connections never exceeds the opened ones.
CountersConsistent == 0 <= active /\ active + rejected <= opened

\* When Shutdown returns, cleanly or by force, every connection it gave the
\* shutdown deadline has been closed and has left the registry.
ShutdownDrainsSwept ==
  main \in {"clean", "forced"} =>
    \A c \in swept : sock[c].closed /\ c \notin conns /\ pc[c] \notin Counted

\* A connection that was given the shutdown deadline takes no further command
\* from its socket.
SweptReadsNoMore ==
  [][\A c \in swept : ~ ReadSocket(c)]_vars

-----------------------------------------------------------------------------
(***************************************************************************)
(* Liveness, under FairSpec.                                               *)
(***************************************************************************)
\* After the signal the process exits, whatever the clients do.
ShutdownReturns == signalled ~> ~ Running

\* After the signal the process exits, with clients that keep sending, stall
\* or stay silent, unless some connection was accepted and not yet registered
\* when Shutdown looked.
ShutdownReturnsUnlessLate == signalled ~> (~ Running \/ late # {})

\* A client that hangs up gives its slot back, and its pipelined commands are
\* not in the way.
HangupFreesSlot ==
  \A c \in Conn : (sock[c].client = "gone" /\ pc[c] # "none") ~> (~ Running \/ pc[c] = "returned")

\* With idle-timeout set no handler waits for its client's next command for ever.
NoReadWaitsForever ==
  \A c \in Conn : (pc[c] = "reading") ~> (~ Running \/ pc[c] # "reading")
=============================================================================

-------------------------------- MODULE Wire --------------------------------
(***************************************************************************)
(* One connection, byte by byte: how the loop of serveConn and ReadCommand *)
(* cut the client's stream into commands, and what handleReadError makes   *)
(* of a read that fails (src/internal/server/server.go, src/internal/      *)
(* protocol/protocol.go), in a process that main started with a            *)
(* configuration file (src/cmd/minikv/main.go).                            *)
(*                                                                         *)
(* What a command does is module Session's: here it is recorded, and the   *)
(* session goes on or ends after it.  The client sends its frames in       *)
(* pieces, may stop anywhere, and may send frames that are no commands.    *)
(***************************************************************************)
EXTENDS Protocol, Config

CONSTANTS
  ConfigFile,  \* the files main may be started with
  Frame,       \* what clients send: [command, symbols]
  NoCommand,   \* the command of a frame that is malformed
  MaxFrames,   \* bound on the frames a client sends
  SocketSize,  \* bound on the symbols under way
  BufferSize,  \* the size of the bufio.Reader
  MaxAlloc     \* the longest slice make can return

ASSUME WireAssumption ==
  /\ {MaxFrames, SocketSize, BufferSize} \subseteq Nat \ {0}
  /\ MaxAlloc \in 0 .. MaxInt
  /\ ConfigFile \subseteq Seq(ConfigLine)

\* The headers ReadCommand may make of a line.
headersOf(line) ==
  IF Len(line) < 2 \/ line[Len(line) - 1] # CR THEN {} ELSE parseLine(Fields(line))

\* make can return a buffer for the value.
Allocates(size) == AddInt(size, 2) \in 0 .. MaxAlloc

\* The first line of s ends at n.
LineEnds(s, n) == s[n] = LF /\ \A j \in 1 .. n - 1 : s[j] # LF

EndsAt(s, n) == s[n + 1] = CR /\ s[n + 2] = LF

\* The first line of the frame f ends at n, and the buffer holds it.
LineOf(f, n) == n \in 1 .. Len(f.symbols) /\ n <= BufferSize /\ LineEnds(f.symbols, n)

\* It is the line of the command, and the value it announces follows.
CommandAt(f, n) ==
  LET s == f.symbols
      c == f.command
      size == c.header.size
  IN  /\ c = [header |-> c.header, value |-> c.value]
      /\ headersOf(SubSeq(s, 1, n)) = {c.header}
      /\ IF size = NoValue THEN Len(s) = n /\ c.value = <<>>
         ELSE /\ Allocates(size) /\ Len(s) = n + size + 2 /\ EndsAt(s, n + size)
              /\ c.value = SubSeq(s, n + 1, n + size)

WellFormed(f) == f.command # NoCommand /\ \E n \in DOMAIN f.symbols : LineOf(f, n) /\ CommandAt(f, n)

\* It does not parse, or announces a value that does not end where it should.
RefusedAt(f, n) ==
  LET s == f.symbols
  IN  \A h \in headersOf(SubSeq(s, 1, n)) :
        /\ h.size # NoValue
        /\ Allocates(h.size) => Len(s) >= n + h.size + 2 /\ ~ EndsAt(s, n + h.size)

Overlong(f) == Len(f.symbols) >= BufferSize /\ \A j \in 1 .. BufferSize : f.symbols[j] # LF

Refused(f) ==
  /\ f.command = NoCommand
  /\ Overlong(f) \/ \E n \in DOMAIN f.symbols : LineOf(f, n) /\ RefusedAt(f, n)

ASSUME FrameAssumption ==
  \A f \in Frame : f.symbols \in Seq(Symbol) \ {<<>>} /\ (WellFormed(f) \/ Refused(f))

VARIABLES
  pc,           \* where main, then the connection's goroutine is
  cfg,          \* the configuration main loaded
  frames,       \* the frames the client began to send
  out,          \* what is left to send of the last one
  link,         \* up; the client hung up or reset it; the server closed it
  socket,       \* the symbols under way
  deadline,     \* the seconds left to the read deadline
  elapsed,      \* history: the seconds the command is being read
  buffer,       \* the symbols in the bufio.Reader
  header,       \* the command whose value is being read, or that is read
  value,        \* the value as far as it is read
  executed,     \* history: the commands executed
  clientErrors  \* Server.clientErrors, of this connection

client == <<frames, out>>
parser == <<buffer, header, value>>
vars == <<pc, cfg, client, link, socket, deadline, elapsed, parser, executed, clientErrors>>

NoDeadline == -1

NoHeader == Header("none", <<>>, 0, 0, NoValue)

Reading == pc \in {"line", "value"}

Ended == pc \in {"exited", "closed", "panicked"}

\* Every further read fails, with an error that is neither io.EOF nor a timeout.
Broken == link \in {"reset", "closed"}

Init ==
  /\ pc = "starting"
  /\ cfg = Default
  /\ frames = <<>> /\ out = <<>>
  /\ link = "up" /\ socket = <<>> /\ deadline = NoDeadline /\ elapsed = 0
  /\ buffer = <<>> /\ header = NoHeader /\ value = <<>>
  /\ executed = <<>> /\ clientErrors = 0

-----------------------------------------------------------------------------
(***************************************************************************)
(* main: an error of Load or of listen ends the process.                   *)
(***************************************************************************)
Start(file) ==
  /\ pc = "starting"
  /\ \/ /\ cfg' \in Load(file)
        /\ pc' = "arm"
     \/ /\ pc' = "exited"
        /\ UNCHANGED cfg
  /\ UNCHANGED <<client, link, socket, deadline, elapsed, parser, executed, clientErrors>>

-----------------------------------------------------------------------------
(***************************************************************************)
(* The client and the network.                                             *)
(***************************************************************************)
Begin(frame) ==
  /\ pc # "starting" /\ ~ Ended /\ link = "up"
  /\ out = <<>> /\ Len(frames) < MaxFrames
  /\ frames' = Append(frames, frame)
  /\ out' = frame.symbols
  /\ UNCHANGED <<pc, cfg, link, socket, deadline, elapsed, parser, executed, clientErrors>>

Send(n) ==
  /\ ~ Ended /\ link = "up" /\ Len(socket) + n <= SocketSize
  /\ socket' = socket \o SubSeq(out, 1, n)
  /\ out' = SubSeq(out, n + 1, Len(out))
  /\ UNCHANGED <<pc, cfg, frames, link, deadline, elapsed, parser, executed, clientErrors>>

\* An orderly end, after which what was sent still arrives; or a reset.
Leave(how) ==
  /\ pc # "starting" /\ ~ Ended /\ link = "up"
  /\ link' = how
  /\ socket' = IF how = "reset" THEN <<>> ELSE socket
  /\ UNCHANGED <<pc, cfg, client, deadline, elapsed, parser, executed, clientErrors>>

-----------------------------------------------------------------------------
(***************************************************************************)
(* Deadlines: the idle timeout, and what Shutdown does to a connection.    *)
(***************************************************************************)
\* A second passes; what depends on it is a read with a deadline ahead.
Tick ==
  /\ Reading /\ ~ Broken /\ deadline > 0
  /\ deadline' = deadline - 1
  /\ elapsed' = elapsed + 1
  /\ UNCHANGED <<pc, cfg, client, link, socket, parser, executed, clientErrors>>

Sweep ==
  /\ pc # "starting" /\ ~ Ended /\ ~ Broken
  /\ deadline' = 0
  /\ UNCHANGED <<pc, cfg, client, link, socket, elapsed, parser, executed, clientErrors>>

ForceClose ==
  /\ pc # "starting" /\ ~ Ended /\ ~ Broken
  /\ link' = "closed" /\ socket' = <<>>
  /\ UNCHANGED <<pc, cfg, client, deadline, elapsed, parser, executed, clientErrors>>

-----------------------------------------------------------------------------
(***************************************************************************)
(* The loop of serveConn, ReadCommand and handleReadError.                 *)
(***************************************************************************)
\* The top of the loop.
Arm ==
  /\ pc = "arm"
  /\ pc' = "line"
  /\ deadline' = IF cfg.IdleTimeout > 0 THEN cfg.IdleTimeout ELSE deadline
  /\ elapsed' = 0
  /\ UNCHANGED <<cfg, client, link, socket, parser, executed, clientErrors>>

HasLine == \E i \in DOMAIN buffer : buffer[i] = LF

\* The bytes io.ReadFull still has to read.
Missing == header.size + 2 - Len(value)

\* A read of the connection is needed.
Starved == IF pc = "line" THEN ~ HasLine /\ Len(buffer) < BufferSize ELSE Len(buffer) < Missing

\* The next read of the connection fails.
ReadFails == Broken \/ deadline = 0 \/ (link = "hungup" /\ socket = <<>>)

\* Mutant: the deadline is set for each read of the connection.
Fill_Rearms ==
  /\ Reading /\ Starved /\ ~ ReadFails /\ socket # <<>>
  /\ LET kept == IF pc = "value" THEN <<>> ELSE buffer
         room == BufferSize - Len(kept)
         n == IF Len(socket) < room THEN Len(socket) ELSE room
     IN  /\ value' = IF pc = "value" THEN value \o buffer ELSE value
         /\ buffer' = kept \o SubSeq(socket, 1, n)
         /\ socket' = SubSeq(socket, n + 1, Len(socket))
  /\ deadline' = IF cfg.IdleTimeout > 0 THEN cfg.IdleTimeout ELSE deadline
  /\ UNCHANGED <<pc, cfg, client, link, elapsed, header, executed, clientErrors>>

\* Mutant: the keys are still the view of the buffer that ReadSlice returned,
\* which reading the value overwrites from its start.
Fill_UnderView ==
  /\ Reading /\ Starved /\ ~ ReadFails /\ socket # <<>>
  /\ LET kept == IF pc = "value" THEN <<>> ELSE buffer
         room == BufferSize - Len(kept)
         n == IF Len(socket) < room THEN Len(socket) ELSE room
     IN  /\ value' = IF pc = "value" THEN value \o buffer ELSE value
         /\ buffer' = kept \o SubSeq(socket, 1, n)
         /\ socket' = SubSeq(socket, n + 1, Len(socket))
         /\ header' = IF pc # "value" THEN header
                      ELSE [header EXCEPT !.keys =
                              [i \in DOMAIN @ |-> IF i < n THEN socket[i + 1] ELSE @[i]]]
  /\ UNCHANGED <<pc, cfg, client, link, deadline, elapsed, executed, clientErrors>>

\* The bufio.Reader reads what arrived and fits; a value takes what it holds.
\* The header stays what it is: ReadCommand copied the line before.
Fill ==
  /\ Reading /\ Starved /\ ~ ReadFails /\ socket # <<>>
  /\ LET kept == IF pc = "value" THEN <<>> ELSE buffer
         room == BufferSize - Len(kept)
         n == IF Len(socket) < room THEN Len(socket) ELSE room
     IN  /\ value' = IF pc = "value" THEN value \o buffer ELSE value
         /\ buffer' = kept \o SubSeq(socket, 1, n)
         /\ socket' = SubSeq(socket, n + 1, Len(socket))
  /\ UNCHANGED <<pc, cfg, client, link, deadline, elapsed, header, executed, clientErrors>>

\* handleReadError counts and answers the error, and the session ends.
protocolError ==
  /\ pc' = "closed"
  /\ clientErrors' = clientErrors + 1

ReadLine ==
  /\ pc = "line" /\ HasLine
  /\ LET end == CHOOSE i \in DOMAIN buffer : LineEnds(buffer, i)
         headers == headersOf(SubSeq(buffer, 1, end))
     IN  /\ buffer' = SubSeq(buffer, end + 1, Len(buffer))
         /\ IF headers = {} THEN protocolError /\ UNCHANGED header
            ELSE /\ header' \in headers
                 /\ pc' = IF header'.size = NoValue THEN "execute"
                          ELSE IF Allocates(header'.size) THEN "value"
                          ELSE "panicked"
                 /\ UNCHANGED clientErrors
  /\ UNCHANGED <<cfg, client, link, socket, deadline, elapsed, value, executed>>

\* ErrBufferFull.
LineTooLong ==
  /\ pc = "line" /\ ~ HasLine /\ Len(buffer) = BufferSize
  /\ protocolError
  /\ UNCHANGED <<cfg, client, link, socket, deadline, elapsed, parser, executed>>

\* The value and its CRLF are read.
ReadValue ==
  /\ pc = "value" /\ ~ Starved
  /\ LET read == value \o SubSeq(buffer, 1, Missing)
     IN  /\ buffer' = SubSeq(buffer, Missing + 1, Len(buffer))
         /\ value' = SubSeq(read, 1, header.size)
         /\ IF EndsAt(read, header.size)
            THEN pc' = "execute" /\ UNCHANGED clientErrors
            ELSE protocolError
  /\ UNCHANGED <<cfg, client, link, socket, deadline, elapsed, header, executed>>

\* Mutant: a deadline is treated like an error of the client.
ReadError_NotQuiet ==
  /\ Reading /\ Starved /\ ReadFails
  /\ IF pc = "value" \/ Broken \/ deadline = 0 THEN protocolError
     ELSE pc' = "closed" /\ UNCHANGED clientErrors
  /\ UNCHANGED <<cfg, client, link, socket, deadline, elapsed, parser, executed>>

\* The connection has nothing more to read: inside a value that is a protocol
\* error whatever the cause; inside a line the end of the stream and a deadline
\* end the session quietly.
ReadError ==
  /\ Reading /\ Starved /\ ReadFails
  /\ IF pc = "value" \/ Broken THEN protocolError
     ELSE pc' = "closed" /\ UNCHANGED clientErrors
  /\ UNCHANGED <<cfg, client, link, socket, deadline, elapsed, parser, executed>>

\* handleAuthGate or execute, and the flush of the answer.
Execute ==
  /\ pc = "execute"
  /\ executed' = Append(executed, [header |-> header, value |-> value])
  /\ header' = NoHeader /\ value' = <<>>
  /\ pc' \in {"arm", "closed"}
  /\ UNCHANGED <<cfg, client, link, socket, deadline, elapsed, buffer, clientErrors>>

Terminated == Ended /\ UNCHANGED vars

Serve == Arm \/ Fill \/ ReadLine \/ LineTooLong \/ ReadValue \/ ReadError \/ Execute

Next ==
  \/ \E file \in ConfigFile : Start(file)
  \/ \E frame \in Frame : Begin(frame)
  \/ \E n \in 1 .. Len(out) : Send(n)
  \/ \E how \in {"hungup", "reset"} : Leave(how)
  \/ Tick
  \/ Sweep
  \/ ForceClose
  \/ Serve
  \/ Terminated

Spec == Init /\ [][Next]_vars

\* The scheduler runs the goroutine and time passes; the client owes nothing.
FairSpec == Spec /\ WF_vars(Serve) /\ WF_vars(Tick)

-----------------------------------------------------------------------------
(***************************************************************************)
(* Properties.                                                             *)
(***************************************************************************)
\* The type of the state.
TypeOK ==
  /\ pc \in {"starting", "exited", "arm", "line", "value", "execute", "closed", "panicked"}
  /\ DOMAIN cfg = DOMAIN Default
  /\ Len(frames) <= MaxFrames
  /\ link \in {"up", "hungup", "reset", "closed"}
  /\ deadline \in Nat \cup {NoDeadline} /\ elapsed \in Nat
  /\ Len(buffer) <= BufferSize
  /\ pc = "value" => Missing > 0
  /\ clientErrors \in 0 .. 1

\* How many frames the client sent to the end.
WholeFrames == IF out = <<>> THEN Len(frames) ELSE Len(frames) - 1

\* How many of them come before the first malformed one.
GoodFrames ==
  CHOOSE n \in 0 .. WholeFrames :
    /\ \A i \in 1 .. n : frames[i].command # NoCommand
    /\ n < WholeFrames => frames[n + 1].command = NoCommand

SentCommands == [i \in 1 .. GoodFrames |-> frames[i].command]

Framed == INSTANCE Framing WITH
  Command <- {f.command : f \in Frame} \ {NoCommand}, sent <- SentCommands, open <- ~ Ended

\* serveConn and ReadCommand implement Framing: wherever the stream is cut, and
\* whatever a value contains, exactly the client's commands are executed, in
\* order, with the keys, numbers and values it gave them; no part of a value or
\* of an unfinished command is, and nothing after a malformed frame.
ImplementsFraming == Framed!Spec

\* A client that sent well-formed commands, and hung up or was idle between two
\* of them or inside a line, is not counted in clientErrors: handleReadError
\* closes its session quietly.
QuietEnds ==
  [][ clientErrors' > clientErrors =>
        \/ \E i \in DOMAIN frames : frames[i].command = NoCommand
        \/ pc = "value" /\ ReadFails
        \/ Broken ]_vars

\* A command is being read for the idle timeout, and its next read may still wait.
Overdue == cfg.IdleTimeout > 0 /\ Reading /\ elapsed >= cfg.IdleTimeout /\ ~ ReadFails

\* With an idle timeout, every ReadCommand returns, and within the timeout: the
\* deadline is set once for a command and no byte that arrives postpones it, so
\* a client cannot hold a session by sending a command little by little.
ReadsEnd ==
  /\ (cfg.IdleTimeout > 0 /\ Reading) ~> ~ Reading
  /\ ~ <>Overdue

\* What Load accepts is what the store and the server run with: normalizeConfig
\* replaces nothing of it, the limits are natural numbers, and a certificate has
\* its key.
AcceptedConfigIsUsed ==
  pc \notin {"starting", "exited"} =>
    /\ \A f \in DOMAIN normalizeConfig(cfg) : normalizeConfig(cfg)[f] = cfg[f]
    /\ {cfg.IdleTimeout, cfg.ShutdownTimeout, cfg.CleanupInterval, cfg.MaxConnections} \subseteq Nat
    /\ TLSEnabled(cfg) \/ (cfg.TLSCert = "" /\ cfg.TLSKey = "")

\* "Larger values get rejected with `SERVER_ERROR value too large`" (README.md):
\* a byte count above max-value-bytes is refused, also one so large that size+2
\* is not a length make accepts; ReadCommand never ends the process.
LargeByteCountsAreRefused == pc # "panicked"
=============================================================================

---------------------------- MODULE ServerProofs ----------------------------
(***************************************************************************)
(* Proofs about the connections of a server, for any number of them and    *)
(* any cap: the cap holds, the counters are consistent, and Shutdown       *)
(* returns only when the connections it swept are closed.                  *)
(***************************************************************************)
EXTENDS Server, FiniteSetTheorems, TLAPS

(***************************************************************************)
(* The inductive invariant.  Each count is the number of handlers between  *)
(* the statement that raises it and the one that lowers it; a handler past *)
(* its Close has closed its connection; and a swept connection stays       *)
(* counted in wg until it is closed, so once the waiter saw wg at 0 none   *)
(* is left.                                                                *)
(***************************************************************************)
Admitted == Holding \cup {"returned"}

Counts ==
  /\ MaxConnections > 0 => slots = Cardinality(At(Holding)) /\ slots <= MaxConnections
  /\ wg = Cardinality(At(Counted))
  /\ conns = At(Registered)
  /\ active = Cardinality(At(Serving))
  /\ opened = Cardinality(At(Admitted))
  /\ rejected <= Cardinality(At({"returned"}))

Closed == \A c \in At({"deregistering", "finishing", "releasing", "returned"}) : sock[c].closed

Drained ==
  /\ \A c \in swept : pc[c] \in Registered \cup {"finishing", "releasing", "returned"}
  /\ done => \A c \in swept : pc[c] \in {"releasing", "returned"}
  /\ main \in {"accepting", "sweeping"} => swept = {} /\ ~ done
  /\ main \in {"clean", "forced"} => done

IInv == TypeOK /\ Counts /\ Closed /\ Drained

\* How many handlers are in a set of places when one of them moves.
LEMMA Moves ==
  ASSUME TypeOK, NEW c \in Conn, NEW to, pc' = [pc EXCEPT ![c] = to], NEW S
  PROVE  /\ Cardinality(At(S)) \in Nat
         /\ (pc[c] \in S <=> to \in S) => At(S)' = At(S)
         /\ (pc[c] \in S <=> to \in S) => Cardinality(At(S)') = Cardinality(At(S))
         /\ pc[c] \notin S /\ to \in S =>
              At(S)' = At(S) \cup {c} /\ Cardinality(At(S)') = Cardinality(At(S)) + 1
         /\ pc[c] \in S /\ to \notin S =>
              At(S)' = At(S) \ {c} /\ Cardinality(At(S)') = Cardinality(At(S)) - 1
<1>1. At(S) \subseteq Conn /\ At(S)' \subseteq Conn
  BY DEF At
<1>2. IsFiniteSet(At(S)) /\ IsFiniteSet(At(S)')
  BY Zenon, <1>1, ServerAssumption, FS_Subset
<1>3. Cardinality(At(S)) \in Nat
  BY Zenon, <1>2, FS_CardinalityType
<1>4. \A d \in Conn : pc'[d] = IF d = c THEN to ELSE pc[d]
  BY DEF TypeOK
<1>5. (pc[c] \in S <=> to \in S) => At(S)' = At(S)
  BY Zenon, <1>4 DEF At
<1>6. pc[c] \notin S /\ to \in S => At(S)' = At(S) \cup {c} /\ c \notin At(S)
  BY <1>4 DEF At
<1>7. pc[c] \in S /\ to \notin S => At(S)' = At(S) \ {c} /\ c \in At(S)
  BY <1>4 DEF At
<1>8. c \notin At(S) => Cardinality(At(S) \cup {c}) = Cardinality(At(S)) + 1
  BY Zenon, <1>2, FS_AddElement
<1>9. c \in At(S) => Cardinality(At(S) \ {c}) = Cardinality(At(S)) - 1
  BY Zenon, <1>2, FS_RemoveElement
<1>10. (pc[c] \in S <=> to \in S) => Cardinality(At(S)') = Cardinality(At(S))
  BY <1>5, Zenon
<1>11. pc[c] \notin S /\ to \in S => Cardinality(At(S)') = Cardinality(At(S)) + 1
  BY <1>6, <1>8, Zenon
<1>12. pc[c] \in S /\ to \notin S => Cardinality(At(S)') = Cardinality(At(S)) - 1
  BY <1>7, <1>9, Zenon
<1> QED
  BY Zenon, <1>3, <1>5, <1>6, <1>7, <1>10, <1>11, <1>12

\* Initially nothing is counted.
LEMMA InitIInv == Init => IInv
<1> SUFFICES ASSUME Init PROVE IInv
  OBVIOUS
<1>1. TypeOK
  <2>1. sock \in [Conn -> Sock]
    BY DEF Init, NewSock, Sock
  <2>2. pc \in [Conn -> Place]
    BY DEF Init, Place
  <2>3. signalled \in BOOLEAN /\ listening \in BOOLEAN /\ done \in BOOLEAN
    BY Zenon DEF Init
  <2>4. /\ slots \in Int /\ wg \in Int /\ opened \in Nat /\ rejected \in Nat /\ active \in Int
        /\ conns \subseteq Conn /\ swept \subseteq Conn /\ late \subseteq Conn
    BY DEF Init
  <2>5. main \in {"accepting", "sweeping", "waiting", "draining", "failed", "clean", "forced"}
    BY DEF Init
  <2> QED
    BY <2>1, <2>2, <2>3, <2>4, <2>5, Zenon DEF TypeOK
<1>2. \A c \in Conn : pc[c] = "none"
  BY Zenon DEF Init
<1>3. /\ At(Holding) = {} /\ At(Counted) = {} /\ At(Registered) = {} /\ At(Serving) = {}
      /\ At(Admitted) = {} /\ At({"returned"}) = {}
  BY Zenon, <1>2 DEF At, Holding, Counted, Registered, Serving, Admitted
<1>4. Cardinality({}) = 0
  BY Zenon, FS_EmptySet
<1>5. Counts
  BY <1>3, <1>4, ServerAssumption DEF Init, Counts
<1>6. Closed /\ Drained
  BY Zenon, <1>2 DEF Init, Closed, Drained, At
<1> QED
  BY Zenon, <1>1, <1>5, <1>6 DEF IInv

\* A step that moves no handler and changes no count keeps Counts.
LEMMA CountsSame ==
  ASSUME Counts, UNCHANGED handler
  PROVE  Counts'
<1>1. \A S : At(S)' = At(S)
  BY Zenon DEF handler, At
<1> QED
  BY Zenon, <1>1 DEF handler, Counts

\* 1 when the place x is one of S.
In(x, S) == IF x \in S THEN 1 ELSE 0

\* What the move of one handler does to the number of handlers in each range.
LEMMA MoveCounts ==
  ASSUME TypeOK, NEW c \in Conn, NEW from, NEW to, pc[c] = from, pc' = [pc EXCEPT ![c] = to],
         NEW S
  PROVE  /\ Cardinality(At(S)) \in Nat
         /\ Cardinality(At(S)') = Cardinality(At(S)) + In(to, S) - In(from, S)
<1>1. Cardinality(At(S)) \in Nat
  BY Zenon, Moves
<1>2. CASE from \in S <=> to \in S
  <2>1. Cardinality(At(S)') = Cardinality(At(S))
    BY Zenon, <1>2, Moves
  <2> QED
    BY <1>1, <1>2, <2>1 DEF In
<1>3. CASE from \notin S /\ to \in S
  <2>1. Cardinality(At(S)') = Cardinality(At(S)) + 1
    BY Zenon, <1>3, Moves
  <2> QED
    BY <1>1, <1>3, <2>1 DEF In
<1>4. CASE from \in S /\ to \notin S
  <2>1. Cardinality(At(S)') = Cardinality(At(S)) - 1
    BY Zenon, <1>4, Moves
  <2> QED
    BY <1>1, <1>4, <2>1 DEF In
<1> QED
  BY Zenon, <1>2, <1>3, <1>4

\* A handler's step keeps Counts when it changes each count as its move asks.
LEMMA StepCounts ==
  ASSUME IInv, NEW c \in Conn, NEW from, NEW to, Step(c, from, to),
         MaxConnections > 0 => slots' = slots + In(to, Holding) - In(from, Holding)
                               /\ slots' <= MaxConnections,
         wg' = wg + In(to, Counted) - In(from, Counted),
         conns' = IF to \in Registered THEN conns \cup {c} ELSE conns \ {c},
         active' = active + In(to, Serving) - In(from, Serving),
         opened' = opened + In(to, Admitted) - In(from, Admitted),
         \/ rejected' = rejected
         \/ rejected' = rejected + 1 /\ to = "returned",
         from # "returned"
  PROVE  Counts'
<1>1. TypeOK /\ pc[c] = from /\ pc' = [pc EXCEPT ![c] = to]
  BY Zenon DEF IInv, Step
<1>2. /\ Cardinality(At(Holding)) \in Nat
      /\ Cardinality(At(Holding)') = Cardinality(At(Holding)) + In(to, Holding) - In(from, Holding)
      /\ Cardinality(At(Counted)) \in Nat
      /\ Cardinality(At(Counted)') = Cardinality(At(Counted)) + In(to, Counted) - In(from, Counted)
      /\ Cardinality(At(Serving)) \in Nat
      /\ Cardinality(At(Serving)') = Cardinality(At(Serving)) + In(to, Serving) - In(from, Serving)
      /\ Cardinality(At(Admitted)) \in Nat
      /\ Cardinality(At(Admitted)') = Cardinality(At(Admitted)) + In(to, Admitted) - In(from, Admitted)
  <2>1. /\ Cardinality(At(Holding)) \in Nat
        /\ Cardinality(At(Holding)') = Cardinality(At(Holding)) + In(to, Holding) - In(from, Holding)
    BY ZenonT(60), <1>1, MoveCounts
  <2>2. /\ Cardinality(At(Counted)) \in Nat
        /\ Cardinality(At(Counted)') = Cardinality(At(Counted)) + In(to, Counted) - In(from, Counted)
    BY ZenonT(60), <1>1, MoveCounts
  <2>3. /\ Cardinality(At(Serving)) \in Nat
        /\ Cardinality(At(Serving)') = Cardinality(At(Serving)) + In(to, Serving) - In(from, Serving)
    BY ZenonT(60), <1>1, MoveCounts
  <2>4. /\ Cardinality(At(Admitted)) \in Nat
        /\ Cardinality(At(Admitted)') = Cardinality(At(Admitted)) + In(to, Admitted) - In(from, Admitted)
    BY ZenonT(60), <1>1, MoveCounts
  <2> QED
    BY Zenon, <2>1, <2>2, <2>3, <2>4
<1>3. conns' = At(Registered)'
  <2>1. \A d \in Conn : pc'[d] = IF d = c THEN to ELSE pc[d]
    BY <1>1 DEF TypeOK
  <2> QED
    BY <2>1 DEF At, IInv, Counts
<1>4. MaxConnections > 0 => slots' = Cardinality(At(Holding)') /\ slots' <= MaxConnections
  BY <1>2 DEF IInv, Counts
<1>5. /\ wg' = Cardinality(At(Counted)')
      /\ active' = Cardinality(At(Serving)')
      /\ opened' = Cardinality(At(Admitted)')
  BY <1>2 DEF IInv, Counts
<1>6. rejected' <= Cardinality(At({"returned"})')
  <2>1. rejected \in Nat /\ rejected <= Cardinality(At({"returned"}))
    BY <1>1 DEF IInv, Counts, TypeOK
  <2>2. /\ Cardinality(At({"returned"})) \in Nat
        /\ Cardinality(At({"returned"})')
             = Cardinality(At({"returned"})) + In(to, {"returned"}) - In(from, {"returned"})
    BY ZenonT(60), <1>1, MoveCounts
  <2>3. In(from, {"returned"}) = 0 /\ In(to, {"returned"}) = (IF to = "returned" THEN 1 ELSE 0)
    BY DEF In
  <2> QED
    BY <2>1, <2>2, <2>3
<1> QED
  BY Zenon, <1>3, <1>4, <1>5, <1>6 DEF Counts

\* Where a handler can be after its connection was swept.
Tail == Registered \cup {"finishing", "releasing", "returned"}

\* A handler's step keeps the invariant when it keeps the counts, goes forward
\* and has closed its connection once it is past its Close.
LEMMA MoveIInv ==
  ASSUME IInv, NEW c \in Conn, NEW from, NEW to \in Place, Step(c, from, to),
         UNCHANGED shutdown, Counts',
         slots' \in Int, wg' \in Int, opened' \in Nat, rejected' \in Nat, active' \in Int,
         sock' \in [Conn -> Sock],
         \A d \in Conn : d # c => sock'[d] = sock[d],
         to \in {"deregistering", "finishing", "releasing", "returned"} => sock'[c].closed,
         from \in Tail => to \in Tail,
         from \in {"releasing", "returned"} => to \in {"releasing", "returned"}
  PROVE  IInv'
<1>1. /\ TypeOK /\ pc[c] = from
      /\ \A d \in Conn : pc'[d] = IF d = c THEN to ELSE pc[d]
      /\ pc' \in [Conn -> Place]
  BY DEF IInv, Step, TypeOK
<1>2. conns' \subseteq Conn
  BY DEF Counts, At
<1>3. /\ main' = main /\ signalled' = signalled /\ listening' = listening /\ done' = done
      /\ swept' = swept /\ late' = late
  BY DEF shutdown
<1>4. TypeOK'
  BY <1>1, <1>2, <1>3 DEF TypeOK
<1>5. Closed'
  BY <1>1 DEF IInv, Closed, At
<1>6. Drained'
  BY <1>1, <1>3 DEF IInv, Drained, Tail, TypeOK
<1> QED
  BY <1>4, <1>5, <1>6 DEF IInv

\* The places, spelled out.
LEMMA Places ==
  /\ Serving = {"arming", "reading", "answering", "closing"}
  /\ Registered = {"arming", "reading", "answering", "closing", "deregistering"}
  /\ Counted = {"arming", "reading", "answering", "closing", "deregistering", "registering",
                "finishing"}
  /\ Holding = {"arming", "reading", "answering", "closing", "deregistering", "registering",
                "finishing", "adding", "releasing"}
  /\ Admitted = {"arming", "reading", "answering", "closing", "deregistering", "registering",
                 "finishing", "adding", "releasing", "returned"}
  /\ Tail = {"arming", "reading", "answering", "closing", "deregistering", "finishing",
             "releasing", "returned"}
  /\ Place = {"arming", "reading", "answering", "closing", "deregistering", "registering",
              "finishing", "adding", "releasing", "returned", "none", "opening"}
BY DEF Serving, Registered, Counted, Holding, Admitted, Tail, Place

\* The entry of ServeConn keeps the invariant.
LEMMA EntryIInv ==
  ASSUME IInv, NEW c \in Conn,
         Accept(c) \/ Acquire(c) \/ Reject(c) \/ WgAdd(c) \/ registerConn(c)
  PROVE  IInv'
<1> USE Places
<1>1. /\ TypeOK /\ sock \in [Conn -> Sock] /\ conns = At(Registered) /\ Closed
      /\ slots \in Int /\ wg \in Int /\ opened \in Nat /\ rejected \in Nat /\ active \in Int
      /\ MaxConnections > 0 => slots <= MaxConnections
  BY DEF IInv, TypeOK, Counts
<1>2. c \in conns <=> pc[c] \in Registered
  BY <1>1 DEF At
<1>3. CASE Accept(c)
  <2>1. Step(c, "none", "opening")
    BY Zenon, <1>3 DEF Accept
  <2>2. /\ In("opening", Holding) = 0 /\ In("none", Holding) = 0
        /\ In("opening", Counted) = 0 /\ In("none", Counted) = 0
        /\ In("opening", Serving) = 0 /\ In("none", Serving) = 0
        /\ In("opening", Admitted) = 0 /\ In("none", Admitted) = 0
    BY Zenon DEF In
  <2>3. /\ MaxConnections > 0 => slots' = slots /\ slots' <= MaxConnections
        /\ slots' \in Int /\ wg' = wg /\ active' = active /\ opened' = opened
    BY Zenon, <1>1, <1>3 DEF Accept
  <2>4. conns' = conns \ {c}
    BY Zenon, <1>2, <1>3 DEF Accept, Step
  <2>5. rejected' = rejected /\ UNCHANGED shutdown
    BY Zenon, <1>3 DEF Accept
  <2>6. Counts'
    BY <1>1, <2>1, <2>2, <2>3, <2>4, <2>5, StepCounts
  <2>7. /\ sock' \in [Conn -> Sock]
        /\ \A d \in Conn : d # c => sock'[d] = sock[d]
    BY Zenon, <1>1, <1>3 DEF Accept
  <2> QED
    BY Zenon, <1>1, <2>1, <2>3, <2>5, <2>6, <2>7, MoveIInv
<1>4. CASE Acquire(c)
  <2>1. Step(c, "opening", "adding")
    BY Zenon, <1>4 DEF Acquire
  <2>2. /\ In("adding", Holding) = 1 /\ In("opening", Holding) = 0
        /\ In("adding", Counted) = 0 /\ In("opening", Counted) = 0
        /\ In("adding", Serving) = 0 /\ In("opening", Serving) = 0
        /\ In("adding", Admitted) = 1 /\ In("opening", Admitted) = 0
    BY Zenon DEF In
  <2>3. /\ MaxConnections > 0 => slots' = slots + 1 /\ slots' <= MaxConnections
        /\ slots' \in Int /\ wg' = wg /\ active' = active /\ opened' = opened + 1
    BY <1>1, <1>4, ServerAssumption DEF Acquire, HasRoom
  <2>4. conns' = conns \ {c}
    BY Zenon, <1>2, <1>4 DEF Acquire, Step
  <2>5. rejected' = rejected /\ UNCHANGED shutdown
    BY Zenon, <1>4 DEF Acquire
  <2>6. Counts'
    BY <1>1, <2>1, <2>2, <2>3, <2>4, <2>5, StepCounts
  <2>7. /\ sock' \in [Conn -> Sock]
        /\ \A d \in Conn : d # c => sock'[d] = sock[d]
    BY Zenon, <1>1, <1>4 DEF Acquire
  <2> QED
    BY <1>1, <2>1, <2>3, <2>5, <2>6, <2>7, MoveIInv
<1>5. CASE Reject(c)
  <2>1. Step(c, "opening", "returned")
    BY Zenon, <1>5 DEF Reject
  <2>2. /\ In("returned", Holding) = 0 /\ In("opening", Holding) = 0
        /\ In("returned", Counted) = 0 /\ In("opening", Counted) = 0
        /\ In("returned", Serving) = 0 /\ In("opening", Serving) = 0
        /\ In("returned", Admitted) = 1 /\ In("opening", Admitted) = 0
    BY Zenon DEF In
  <2>3. /\ MaxConnections > 0 => slots' = slots /\ slots' <= MaxConnections
        /\ slots' \in Int /\ wg' = wg /\ active' = active /\ opened' = opened + 1
    BY Zenon, <1>1, <1>5 DEF Reject
  <2>4. conns' = conns \ {c}
    BY Zenon, <1>2, <1>5 DEF Reject, Step
  <2>5. rejected' = rejected + 1 /\ UNCHANGED shutdown
    BY Zenon, <1>5 DEF Reject
  <2>6. Counts'
    BY <1>1, <2>1, <2>2, <2>3, <2>4, <2>5, StepCounts
  <2>7. /\ sock' \in [Conn -> Sock] /\ sock'[c].closed
        /\ \A d \in Conn : d # c => sock'[d] = sock[d]
    BY Zenon, <1>1, <1>5 DEF Reject, ClosedSock, NewSock, Sock
  <2> QED
    BY <1>1, <2>1, <2>3, <2>5, <2>6, <2>7, MoveIInv
<1>6. CASE WgAdd(c)
  <2>1. Step(c, "adding", "registering")
    BY Zenon, <1>6 DEF WgAdd
  <2>2. /\ In("registering", Holding) = 1 /\ In("adding", Holding) = 1
        /\ In("registering", Counted) = 1 /\ In("adding", Counted) = 0
        /\ In("registering", Serving) = 0 /\ In("adding", Serving) = 0
        /\ In("registering", Admitted) = 1 /\ In("adding", Admitted) = 1
    BY Zenon DEF In
  <2>3. /\ MaxConnections > 0 => slots' = slots /\ slots' <= MaxConnections
        /\ slots' \in Int /\ wg' = wg + 1 /\ active' = active /\ opened' = opened
    BY Zenon, <1>1, <1>6 DEF WgAdd
  <2>4. conns' = conns \ {c}
    BY Zenon, <1>2, <1>6 DEF WgAdd, Step
  <2>5. rejected' = rejected /\ UNCHANGED shutdown
    BY Zenon, <1>6 DEF WgAdd
  <2>6. Counts'
    BY <1>1, <2>1, <2>2, <2>3, <2>4, <2>5, StepCounts
  <2>7. /\ sock' \in [Conn -> Sock]
        /\ \A d \in Conn : d # c => sock'[d] = sock[d]
    BY Zenon, <1>1, <1>6 DEF WgAdd
  <2> QED
    BY <1>1, <2>1, <2>3, <2>5, <2>6, <2>7, MoveIInv
<1>7. CASE registerConn(c)
  <2>1. Step(c, "registering", "arming")
    BY Zenon, <1>7 DEF registerConn
  <2>2. /\ In("arming", Holding) = 1 /\ In("registering", Holding) = 1
        /\ In("arming", Counted) = 1 /\ In("registering", Counted) = 1
        /\ In("arming", Serving) = 1 /\ In("registering", Serving) = 0
        /\ In("arming", Admitted) = 1 /\ In("registering", Admitted) = 1
    BY Zenon DEF In
  <2>3. /\ MaxConnections > 0 => slots' = slots /\ slots' <= MaxConnections
        /\ slots' \in Int /\ wg' = wg /\ active' = active + 1 /\ opened' = opened
    BY Zenon, <1>1, <1>7 DEF registerConn
  <2>4. conns' = conns \cup {c}
    BY Zenon, <1>2, <1>7 DEF registerConn, Step
  <2>5. rejected' = rejected /\ UNCHANGED shutdown
    BY Zenon, <1>7 DEF registerConn
  <2>6. Counts'
    BY <1>1, <2>1, <2>2, <2>3, <2>4, <2>5, StepCounts
  <2>7. /\ sock' \in [Conn -> Sock]
        /\ \A d \in Conn : d # c => sock'[d] = sock[d]
    BY Zenon, <1>1, <1>7 DEF registerConn
  <2> QED
    BY <1>1, <2>1, <2>3, <2>5, <2>6, <2>7, MoveIInv
<1> QED
  BY <1>3, <1>4, <1>5, <1>6, <1>7

\* A read, or the deadline set before it, keeps the invariant.
LEMMA LoopIInv ==
  ASSUME IInv, NEW c \in Conn,
         Arm(c) \/ ReadBuffered(c) \/ ReadSocket(c) \/ ReadFails(c)
  PROVE  IInv'
<1> USE Places
<1>1. /\ TypeOK /\ sock \in [Conn -> Sock] /\ conns = At(Registered) /\ Closed
      /\ slots \in Int /\ wg \in Int /\ opened \in Nat /\ rejected \in Nat /\ active \in Int
      /\ MaxConnections > 0 => slots <= MaxConnections
  BY Zenon DEF IInv, TypeOK, Counts
<1>2. c \in conns <=> pc[c] \in Registered
  BY Zenon, <1>1 DEF At
<1>3. CASE Arm(c)
  <2>1. Step(c, "arming", "reading")
    BY Zenon, <1>3 DEF Arm
  <2>2. /\ In("reading", Holding) = 1 /\ In("arming", Holding) = 1
        /\ In("reading", Counted) = 1 /\ In("arming", Counted) = 1
        /\ In("reading", Serving) = 1 /\ In("arming", Serving) = 1
        /\ In("reading", Admitted) = 1 /\ In("arming", Admitted) = 1
    BY Zenon DEF In
  <2>3. /\ MaxConnections > 0 => slots' = slots /\ slots' <= MaxConnections
        /\ slots' \in Int /\ wg' = wg /\ active' = active /\ opened' = opened
    BY Zenon, <1>1, <1>3 DEF Arm
  <2>4. conns' = conns \cup {c}
    BY Zenon, <1>2, <1>3 DEF Arm, Step
  <2>5. rejected' = rejected /\ UNCHANGED shutdown
    BY Zenon, <1>3 DEF Arm
  <2>6. Counts'
    BY <1>1, <2>1, <2>2, <2>3, <2>4, <2>5, StepCounts
  <2>7. /\ sock' \in [Conn -> Sock]
        /\ \A d \in Conn : d # c => sock'[d] = sock[d]
    BY <1>1, <1>3 DEF Arm, Sock
  <2> QED
    BY Zenon, <1>1, <2>1, <2>3, <2>5, <2>6, <2>7, MoveIInv
<1>4. CASE ReadBuffered(c)
  <2>1. Step(c, "reading", "answering")
    BY Zenon, <1>4 DEF ReadBuffered
  <2>2. /\ In("answering", Holding) = 1 /\ In("reading", Holding) = 1
        /\ In("answering", Counted) = 1 /\ In("reading", Counted) = 1
        /\ In("answering", Serving) = 1 /\ In("reading", Serving) = 1
        /\ In("answering", Admitted) = 1 /\ In("reading", Admitted) = 1
    BY Zenon DEF In
  <2>3. /\ MaxConnections > 0 => slots' = slots /\ slots' <= MaxConnections
        /\ slots' \in Int /\ wg' = wg /\ active' = active /\ opened' = opened
    BY Zenon, <1>1, <1>4 DEF ReadBuffered
  <2>4. conns' = conns \cup {c}
    BY Zenon, <1>2, <1>4 DEF ReadBuffered, Step
  <2>5. rejected' = rejected /\ UNCHANGED shutdown
    BY Zenon, <1>4 DEF ReadBuffered
  <2>6. Counts'
    BY <1>1, <2>1, <2>2, <2>3, <2>4, <2>5, StepCounts
  <2>7. /\ sock' \in [Conn -> Sock]
        /\ \A d \in Conn : d # c => sock'[d] = sock[d]
    BY <1>1, <1>4 DEF ReadBuffered, Sock
  <2> QED
    BY Zenon, <1>1, <2>1, <2>3, <2>5, <2>6, <2>7, MoveIInv
<1>5. CASE ReadSocket(c)
  <2>1. Step(c, "reading", "answering")
    BY Zenon, <1>5 DEF ReadSocket
  <2>2. /\ In("answering", Holding) = 1 /\ In("reading", Holding) = 1
        /\ In("answering", Counted) = 1 /\ In("reading", Counted) = 1
        /\ In("answering", Serving) = 1 /\ In("reading", Serving) = 1
        /\ In("answering", Admitted) = 1 /\ In("reading", Admitted) = 1
    BY DEF In
  <2>3. /\ MaxConnections > 0 => slots' = slots /\ slots' <= MaxConnections
        /\ slots' \in Int /\ wg' = wg /\ active' = active /\ opened' = opened
    BY Zenon, <1>1, <1>5 DEF ReadSocket
  <2>4. conns' = conns \cup {c}
    BY Zenon, <1>2, <1>5 DEF ReadSocket, Step
  <2>5. rejected' = rejected /\ UNCHANGED shutdown
    BY Zenon, <1>5 DEF ReadSocket
  <2>6. Counts'
    BY <1>1, <2>1, <2>2, <2>3, <2>4, <2>5, StepCounts
  <2>7. /\ sock' \in [Conn -> Sock]
        /\ \A d \in Conn : d # c => sock'[d] = sock[d]
    BY <1>1, <1>5 DEF ReadSocket, Sock
  <2> QED
    BY <1>1, <2>1, <2>3, <2>5, <2>6, <2>7, MoveIInv
<1>6. CASE ReadFails(c)
  <2>1. Step(c, "reading", "closing")
    BY Zenon, <1>6 DEF ReadFails
  <2>2. /\ In("closing", Holding) = 1 /\ In("reading", Holding) = 1
        /\ In("closing", Counted) = 1 /\ In("reading", Counted) = 1
        /\ In("closing", Serving) = 1 /\ In("reading", Serving) = 1
        /\ In("closing", Admitted) = 1 /\ In("reading", Admitted) = 1
    BY Zenon DEF In
  <2>3. /\ MaxConnections > 0 => slots' = slots /\ slots' <= MaxConnections
        /\ slots' \in Int /\ wg' = wg /\ active' = active /\ opened' = opened
    BY Zenon, <1>1, <1>6 DEF ReadFails
  <2>4. conns' = conns \cup {c}
    BY Zenon, <1>2, <1>6 DEF ReadFails, Step
  <2>5. rejected' = rejected /\ UNCHANGED shutdown
    BY Zenon, <1>6 DEF ReadFails
  <2>6. Counts'
    BY <1>1, <2>1, <2>2, <2>3, <2>4, <2>5, StepCounts
  <2>7. /\ sock' \in [Conn -> Sock]
        /\ \A d \in Conn : d # c => sock'[d] = sock[d]
    BY ZenonT(30), <1>1, <1>6 DEF ReadFails
  <2> QED
    BY Zenon, <1>1, <2>1, <2>3, <2>5, <2>6, <2>7, MoveIInv
<1> QED
  BY Zenon, <1>3, <1>4, <1>5, <1>6

\* The defers of ServeConn keep the invariant.
LEMMA ExitIInv ==
  ASSUME IInv, NEW c \in Conn,
         Close(c) \/ deregisterConn(c) \/ WgDone(c) \/ releaseSlot(c)
  PROVE  IInv'
<1> USE Places
<1>1. /\ TypeOK /\ sock \in [Conn -> Sock] /\ conns = At(Registered) /\ Closed
      /\ slots \in Int /\ wg \in Int /\ opened \in Nat /\ rejected \in Nat /\ active \in Int
      /\ MaxConnections > 0 => slots <= MaxConnections
  BY DEF IInv, TypeOK, Counts
<1>2. c \in conns <=> pc[c] \in Registered
  BY <1>1 DEF At
<1>3. CASE Close(c)
  <2>1. Step(c, "closing", "deregistering")
    BY Zenon, <1>3 DEF Close
  <2>2. /\ In("deregistering", Holding) = 1 /\ In("closing", Holding) = 1
        /\ In("deregistering", Counted) = 1 /\ In("closing", Counted) = 1
        /\ In("deregistering", Serving) = 0 /\ In("closing", Serving) = 1
        /\ In("deregistering", Admitted) = 1 /\ In("closing", Admitted) = 1
    BY Zenon DEF In
  <2>3. /\ MaxConnections > 0 => slots' = slots /\ slots' <= MaxConnections
        /\ slots' \in Int /\ wg' = wg /\ active' = active - 1 /\ opened' = opened
    BY Zenon, <1>1, <1>3 DEF Close
  <2>4. conns' = conns \cup {c}
    BY Zenon, <1>2, <1>3 DEF Close, Step
  <2>5. rejected' = rejected /\ UNCHANGED shutdown
    BY Zenon, <1>3 DEF Close
  <2>6. Counts'
    BY <1>1, <2>1, <2>2, <2>3, <2>4, <2>5, StepCounts
  <2>7. /\ sock' \in [Conn -> Sock] /\ sock'[c].closed
        /\ \A d \in Conn : d # c => sock'[d] = sock[d]
    BY Zenon, <1>1, <1>3 DEF Close, ClosedSock, NewSock, Sock
  <2> QED
    BY <1>1, <2>1, <2>3, <2>5, <2>6, <2>7, MoveIInv
<1>4. CASE deregisterConn(c)
  <2>1. Step(c, "deregistering", "finishing")
    BY Zenon, <1>4 DEF deregisterConn
  <2>2. /\ In("finishing", Holding) = 1 /\ In("deregistering", Holding) = 1
        /\ In("finishing", Counted) = 1 /\ In("deregistering", Counted) = 1
        /\ In("finishing", Serving) = 0 /\ In("deregistering", Serving) = 0
        /\ In("finishing", Admitted) = 1 /\ In("deregistering", Admitted) = 1
    BY Zenon DEF In
  <2>3. /\ MaxConnections > 0 => slots' = slots /\ slots' <= MaxConnections
        /\ slots' \in Int /\ wg' = wg /\ active' = active /\ opened' = opened
    BY Zenon, <1>1, <1>4 DEF deregisterConn
  <2>4. conns' = conns \ {c}
    BY Zenon, <1>2, <1>4 DEF deregisterConn, Step
  <2>5. rejected' = rejected /\ UNCHANGED shutdown
    BY Zenon, <1>4 DEF deregisterConn
  <2>6. Counts'
    BY <1>1, <2>1, <2>2, <2>3, <2>4, <2>5, StepCounts
  <2>7. /\ sock' \in [Conn -> Sock] /\ sock'[c].closed
        /\ \A d \in Conn : d # c => sock'[d] = sock[d]
    BY Zenon, <1>1, <1>4 DEF deregisterConn, Step, Closed, At
  <2> QED
    BY ZenonT(30), <1>1, <2>1, <2>3, <2>5, <2>6, <2>7, MoveIInv
<1>5. CASE WgDone(c)
  <2>1. Step(c, "finishing", "releasing")
    BY Zenon, <1>5 DEF WgDone
  <2>2. /\ In("releasing", Holding) = 1 /\ In("finishing", Holding) = 1
        /\ In("releasing", Counted) = 0 /\ In("finishing", Counted) = 1
        /\ In("releasing", Serving) = 0 /\ In("finishing", Serving) = 0
        /\ In("releasing", Admitted) = 1 /\ In("finishing", Admitted) = 1
    BY Zenon DEF In
  <2>3. /\ MaxConnections > 0 => slots' = slots /\ slots' <= MaxConnections
        /\ slots' \in Int /\ wg' = wg - 1 /\ active' = active /\ opened' = opened
    BY Zenon, <1>1, <1>5 DEF WgDone
  <2>4. conns' = conns \ {c}
    BY Zenon, <1>2, <1>5 DEF WgDone, Step
  <2>5. rejected' = rejected /\ UNCHANGED shutdown
    BY Zenon, <1>5 DEF WgDone
  <2>6. Counts'
    BY <1>1, <2>1, <2>2, <2>3, <2>4, <2>5, StepCounts
  <2>7. /\ sock' \in [Conn -> Sock] /\ sock'[c].closed
        /\ \A d \in Conn : d # c => sock'[d] = sock[d]
    BY Zenon, <1>1, <1>5 DEF WgDone, Step, Closed, At
  <2> QED
    BY <1>1, <2>1, <2>3, <2>5, <2>6, <2>7, MoveIInv
<1>6. CASE releaseSlot(c)
  <2>1. Step(c, "releasing", "returned")
    BY Zenon, <1>6 DEF releaseSlot
  <2>2. /\ In("returned", Holding) = 0 /\ In("releasing", Holding) = 1
        /\ In("returned", Counted) = 0 /\ In("releasing", Counted) = 0
        /\ In("returned", Serving) = 0 /\ In("releasing", Serving) = 0
        /\ In("returned", Admitted) = 1 /\ In("releasing", Admitted) = 1
    BY Zenon DEF In
  <2>3. /\ MaxConnections > 0 => slots' = slots - 1 /\ slots' <= MaxConnections
        /\ slots' \in Int /\ wg' = wg /\ active' = active /\ opened' = opened
    BY <1>1, <1>6, ServerAssumption DEF releaseSlot
  <2>4. conns' = conns \ {c}
    BY Zenon, <1>2, <1>6 DEF releaseSlot, Step
  <2>5. rejected' = rejected /\ UNCHANGED shutdown
    BY Zenon, <1>6 DEF releaseSlot
  <2>6. Counts'
    BY <1>1, <2>1, <2>2, <2>3, <2>4, <2>5, StepCounts
  <2>7. /\ sock' \in [Conn -> Sock] /\ sock'[c].closed
        /\ \A d \in Conn : d # c => sock'[d] = sock[d]
    BY Zenon, <1>1, <1>6 DEF releaseSlot, Step, Closed, At
  <2> QED
    BY Zenon, <1>1, <2>1, <2>3, <2>5, <2>6, <2>7, MoveIInv
<1> QED
  BY <1>3, <1>4, <1>5, <1>6

\* The answer to a command, after which the loop goes on or ends, keeps the
\* invariant.
LEMMA AnswerIInv ==
  ASSUME IInv, NEW c \in Conn, Answer(c)
  PROVE  IInv'
<1> USE Places
<1>1. /\ TypeOK /\ sock \in [Conn -> Sock] /\ conns = At(Registered)
      /\ slots \in Int /\ wg \in Int /\ opened \in Nat /\ rejected \in Nat /\ active \in Int
      /\ MaxConnections > 0 => slots <= MaxConnections
  BY Zenon DEF IInv, TypeOK, Counts
<1>2. PICK to \in {"arming", "closing"} : Step(c, "answering", to)
  BY Zenon DEF Answer
<1>3. /\ In(to, Holding) = 1 /\ In("answering", Holding) = 1
      /\ In(to, Counted) = 1 /\ In("answering", Counted) = 1
      /\ In(to, Serving) = 1 /\ In("answering", Serving) = 1
      /\ In(to, Admitted) = 1 /\ In("answering", Admitted) = 1
  BY Zenon DEF In
<1>4. /\ slots' = slots /\ wg' = wg /\ active' = active /\ opened' = opened
      /\ rejected' = rejected /\ conns' = conns /\ sock' = sock /\ UNCHANGED shutdown
  BY Zenon DEF Answer
<1>5. conns' = conns \cup {c}
  BY Zenon, <1>1, <1>2, <1>4 DEF At, Step
<1>6. MaxConnections > 0 => slots' = slots + In(to, Holding) - In("answering", Holding)
                            /\ slots' <= MaxConnections
  BY <1>1, <1>3, <1>4
<1>7. /\ wg' = wg + In(to, Counted) - In("answering", Counted)
      /\ active' = active + In(to, Serving) - In("answering", Serving)
      /\ opened' = opened + In(to, Admitted) - In("answering", Admitted)
      /\ to \in Registered
  BY <1>1, <1>3, <1>4
<1>8. Counts'
  <2> HIDE Places
  <2> QED
    BY Zenon, <1>2, <1>4, <1>5, <1>6, <1>7, StepCounts
<1> QED
  BY Zenon, <1>1, <1>2, <1>4, <1>8, MoveIInv

\* What clients and the clock do keeps the invariant.
LEMMA OutsideIInv ==
  ASSUME IInv, NEW c \in Conn,
         Send(c) \/ Stall(c) \/ Hangup(c) \/ IdleExpires(c)
  PROVE  IInv'
<1>1. TypeOK /\ Counts /\ Closed /\ Drained /\ sock \in [Conn -> Sock]
  BY Zenon DEF IInv, TypeOK
<1>2. UNCHANGED handler /\ UNCHANGED shutdown
  BY Zenon DEF Send, Stall, Hangup, Client, IdleExpires
<1>3. sock' \in [Conn -> Sock]
  <2>1. CASE Send(c)
    BY <1>1, <2>1 DEF Send, Sock
  <2>2. CASE Stall(c) \/ Hangup(c)
    BY <1>1, <2>2 DEF Stall, Hangup, Client, Sock
  <2>3. CASE IdleExpires(c)
    BY <1>1, <2>3 DEF IdleExpires, Sock
  <2> QED
    BY Zenon, <2>1, <2>2, <2>3
<1>4. \A d \in Conn : sock'[d].closed = sock[d].closed
  BY <1>1 DEF Send, Stall, Hangup, Client, IdleExpires, Sock
<1>5. TypeOK'
  BY Zenon, <1>1, <1>2, <1>3 DEF TypeOK, handler, shutdown
<1>6. Counts'
  BY Zenon, <1>1, <1>2, CountsSame
<1>7. Closed' /\ Drained'
  BY Zenon, <1>1, <1>2, <1>4 DEF Closed, Drained, handler, shutdown, At
<1> QED
  BY Zenon, <1>5, <1>6, <1>7 DEF IInv

\* The steps of the main goroutine, of the one that closes the listener and of
\* the one that waits for the handlers keep the invariant.  The waiter is the
\* heart of it: at wg = 0 no handler is counted, so none of the swept ones is.
LEMMA ShutdownIInv ==
  ASSUME IInv, Signal \/ AcceptFails \/ ShutDown
  PROVE  IInv'
<1>1. /\ TypeOK /\ Counts /\ Closed /\ Drained /\ sock \in [Conn -> Sock]
      /\ pc \in [Conn -> Place] /\ conns = At(Registered) /\ conns \subseteq Conn
  BY Zenon DEF IInv, TypeOK, Counts
<1>2. UNCHANGED handler
  BY Zenon DEF Signal, AcceptFails, ShutDown, CloseListener, Sweep, WaitReturns, ShutdownClean,
         ForceClose, ShutdownForced
<1>3. /\ sock' \in [Conn -> Sock]
      /\ \A c \in Conn : sock[c].closed => sock'[c].closed
  <2>1. CASE Sweep
    BY <1>1, <2>1 DEF Sweep, Sock
  <2>2. CASE ForceClose
    BY ZenonT(60), <1>1, <2>2 DEF ForceClose, Sock
  <2>3. CASE ~ Sweep /\ ~ ForceClose
    BY <1>1, <2>3 DEF Signal, AcceptFails, ShutDown, CloseListener, WaitReturns, ShutdownClean,
                      ShutdownForced
  <2> QED
    BY Zenon, <2>1, <2>2, <2>3
<1>4. /\ main' \in {"accepting", "sweeping", "waiting", "draining", "failed", "clean", "forced"}
      /\ swept' \subseteq Conn /\ late' \subseteq Conn
  BY <1>1 DEF TypeOK, Signal, AcceptFails, ShutDown, CloseListener, Sweep, WaitReturns,
              ShutdownClean, ForceClose, ShutdownForced
<1>5. signalled' \in BOOLEAN /\ listening' \in BOOLEAN /\ done' \in BOOLEAN
  BY <1>1, Zenon DEF TypeOK, Signal, AcceptFails, ShutDown, CloseListener, Sweep, WaitReturns,
                     ShutdownClean, ForceClose, ShutdownForced
<1>6. TypeOK'
  BY <1>1, <1>2, <1>3, <1>4, <1>5, Zenon DEF TypeOK, handler
<1>7. Counts'
  BY Zenon, <1>1, <1>2, CountsSame
<1>8. Closed'
  BY Zenon, <1>1, <1>2, <1>3 DEF Closed, handler, At
<1>9. Drained'
  <2>1. pc' = pc
    BY Zenon, <1>2 DEF handler
  <2>2. CASE Sweep
    BY Zenon, <1>1, <2>1, <2>2 DEF Sweep, Drained, At
  <2>3. CASE WaitReturns
    <3>1. Cardinality(At(Counted)) = 0
      BY Zenon, <1>1, <2>3 DEF Counts, WaitReturns
    <3>2. IsFiniteSet(At(Counted))
      BY Zenon, ServerAssumption, FS_Subset DEF At
    <3>3. At(Counted) = {}
      BY Zenon, <3>1, <3>2, FS_EmptySet
    <3>4. \A c \in swept : pc[c] \in {"releasing", "returned"}
      BY Zenon, <1>1, <3>3 DEF Drained, TypeOK, At, Counted
    <3> QED
      BY Zenon, <1>1, <2>1, <2>3, <3>4 DEF WaitReturns, Drained
  <2>4. CASE Signal \/ AcceptFails \/ CloseListener \/ ShutdownClean \/ ForceClose \/ ShutdownForced
    BY <1>1, <2>1, <2>4 DEF Drained, Signal, AcceptFails, CloseListener, ShutdownClean, ForceClose,
                            ShutdownForced
  <2> QED
    BY Zenon, <2>2, <2>3, <2>4 DEF ShutDown
<1> QED
  BY Zenon, <1>6, <1>7, <1>8, <1>9 DEF IInv

\* Every step keeps the invariant.
LEMMA NextIInv == IInv /\ [Next]_vars => IInv'
<1> SUFFICES ASSUME IInv, [Next]_vars PROVE IInv'
  OBVIOUS
<1>1. ASSUME NEW c \in Conn,
             Send(c) \/ Stall(c) \/ Hangup(c) \/ IdleExpires(c) \/ Accept(c) \/ Handle(c)
      PROVE  IInv'
  BY <1>1, OutsideIInv, EntryIInv, LoopIInv, AnswerIInv, ExitIInv, Zenon DEF Handle
<1>2. CASE Signal \/ AcceptFails \/ ShutDown
  BY <1>2, ShutdownIInv, ZenonT(60)
<1>3. CASE UNCHANGED vars
  BY Zenon, <1>3 DEF vars, IInv, TypeOK, Counts, Closed, Drained, At
<1> QED
  BY <1>1, <1>2, <1>3, Zenon DEF Next, Terminated

-----------------------------------------------------------------------------
\* The invariant holds in every reachable state.
THEOREM Invariance == Spec => []IInv
  BY InitIInv, NextIInv, PTL DEF Spec

\* Every variable keeps its type, for any connections and any cap.
THEOREM TypeCorrect == Spec => []TypeOK
<1>1. IInv => TypeOK
  BY Zenon DEF IInv
<1> QED
  BY <1>1, Invariance, PTL

\* Never more than max-connections connections are registered, or counted as
\* active: a handler holds its slot from before it registers until after it has
\* deregistered.
THEOREM Cap == Spec => []CapHolds
<1>1. IInv => CapHolds
  <2> SUFFICES ASSUME IInv, MaxConnections > 0
               PROVE  Cardinality(conns) <= MaxConnections /\ active <= MaxConnections
    BY Zenon DEF CapHolds
  <2>1. /\ Cardinality(At(Holding)) <= MaxConnections
        /\ conns = At(Registered) /\ active = Cardinality(At(Serving))
    BY Zenon DEF IInv, Counts
  <2>2. At(Registered) \subseteq At(Holding) /\ At(Serving) \subseteq At(Holding)
    BY Zenon, Places DEF At
  <2>3. IsFiniteSet(At(Holding))
    BY Zenon, ServerAssumption, FS_Subset DEF At
  <2>4. /\ Cardinality(At(Registered)) <= Cardinality(At(Holding))
        /\ Cardinality(At(Serving)) <= Cardinality(At(Holding))
    BY Zenon, <2>2, <2>3, FS_Subset
  <2>5. /\ Cardinality(At(Registered)) \in Nat /\ Cardinality(At(Serving)) \in Nat
        /\ Cardinality(At(Holding)) \in Nat
    BY Zenon, <2>2, <2>3, FS_Subset, FS_CardinalityType
  <2> QED
    BY <2>1, <2>4, <2>5, ServerAssumption
<1> QED
  BY <1>1, Invariance, PTL

\* STATS never reports a negative number of active connections, nor more active
\* and rejected ones than were opened: a handler that is active and one that was
\* rejected are different handlers that were both opened.
THEOREM Consistent == Spec => []CountersConsistent
<1>1. IInv => CountersConsistent
  <2> SUFFICES ASSUME IInv PROVE CountersConsistent
    BY Zenon
  <2> DEFINE A == At(Serving)
             R == At({"returned"})
             O == At(Admitted)
  <2>1. /\ active = Cardinality(A) /\ rejected <= Cardinality(R) /\ opened = Cardinality(O)
        /\ rejected \in Nat
    BY Zenon DEF IInv, Counts, TypeOK
  <2>2. A \cup R \subseteq O /\ A \cap R = {}
    BY Zenon, Places DEF At
  <2>3. IsFiniteSet(A) /\ IsFiniteSet(R) /\ IsFiniteSet(O)
    BY Zenon, ServerAssumption, FS_Subset DEF At
  <2>4. Cardinality(A) \in Nat /\ Cardinality(R) \in Nat /\ Cardinality(O) \in Nat
    BY Zenon, <2>3, FS_CardinalityType
  <2> HIDE DEF A, R, O
  <2>5. Cardinality(A \cup R) = Cardinality(A) + Cardinality(R) - Cardinality(A \cap R)
    BY Zenon, <2>3, FS_Union
  <2>6. Cardinality(A \cap R) = 0
    BY <2>2, FS_EmptySet, Zenon
  <2>7. Cardinality(A \cup R) <= Cardinality(O)
    BY Zenon, <2>2, <2>3, FS_Subset
  <2> QED
    BY <2>1, <2>4, <2>5, <2>6, <2>7 DEF CountersConsistent
<1> QED
  BY <1>1, Invariance, PTL

\* When Shutdown has returned, each connection it gave the shutdown deadline is
\* closed and deregistered, whether the drain ended by itself or by force.
THEOREM Drain == Spec => []ShutdownDrainsSwept
<1>1. IInv => ShutdownDrainsSwept
  <2> SUFFICES ASSUME IInv, main \in {"clean", "forced"}, NEW c \in swept
               PROVE  sock[c].closed /\ c \notin conns /\ pc[c] \notin Counted
    BY Zenon DEF ShutdownDrainsSwept
  <2>1. pc[c] \in {"releasing", "returned"} /\ c \in Conn
    BY DEF IInv, Drained, TypeOK
  <2> QED
    BY Zenon, <2>1, Places DEF IInv, Counts, Closed, At
<1> QED
  BY <1>1, Invariance, PTL

\* A connection is turned away only when max-connections handlers are between
\* acquireSlot and releaseSlot.
THEOREM RejectionJustified == Spec => RejectedOnlyWhenFull
<1>1. IInv /\ [Next]_vars =>
        [rejected' # rejected => Cardinality(At(Holding)) = MaxConnections]_vars
  <2> SUFFICES ASSUME IInv, Next, rejected' # rejected
               PROVE  Cardinality(At(Holding)) = MaxConnections
    BY Zenon DEF vars
  <2>1. PICK c \in Conn : Reject(c)
    BY Zenon DEF Next, Send, Stall, Hangup, Client, IdleExpires, Accept, Handle, Acquire, WgAdd,
           registerConn, Arm, ReadBuffered, ReadSocket, ReadFails, Answer, Close, deregisterConn,
           WgDone, releaseSlot, Signal, AcceptFails, ShutDown, CloseListener, Sweep, WaitReturns,
           ShutdownClean, ForceClose, ShutdownForced, Terminated, vars, handler
  <2>2. MaxConnections # 0 /\ ~ (slots < MaxConnections)
    BY <2>1 DEF Reject, HasRoom
  <2> QED
    BY <2>2, ServerAssumption DEF IInv, Counts, TypeOK
<1> QED
  BY <1>1, Invariance, PTL DEF Spec, RejectedOnlyWhenFull

-----------------------------------------------------------------------------
(***************************************************************************)
(* The shutdown deadline, without idle-timeout: Arm, which sets a new one, *)
(* then leaves it alone.  With idle-timeout the property is false, as a    *)
(* run shows.                                                              *)
(***************************************************************************)
SweptInv == \A c \in swept : sock[c].deadline = "past" \/ sock[c].closed

\* Without idle-timeout no step moves the deadline of a swept connection.
LEMMA SweptKept ==
  ASSUME ~ IdleTimeout, IInv, SweptInv, [Next]_vars
  PROVE  SweptInv'
<1>1. sock \in [Conn -> Sock] /\ swept \subseteq Conn /\ conns \subseteq Conn
  BY Zenon DEF IInv, TypeOK
<1>2. ASSUME swept' = swept,
             \A c \in Conn : sock[c].deadline = "past" \/ sock[c].closed =>
                               sock'[c].deadline = "past" \/ sock'[c].closed
      PROVE  SweptInv'
  BY Zenon, <1>1, <1>2 DEF SweptInv
<1>3. ASSUME NEW c \in Conn, NEW s, sock' = [sock EXCEPT ![c] = s], swept' = swept,
             sock[c].deadline = "past" \/ sock[c].closed => s.deadline = "past" \/ s.closed
      PROVE  SweptInv'
  BY Zenon, <1>1, <1>2, <1>3
<1>4. ASSUME NEW c \in Conn, Send(c) \/ Stall(c) \/ Hangup(c) \/ IdleExpires(c) PROVE SweptInv'
  <2>1. sock[c] \in Sock /\ swept' = swept
    BY Zenon, <1>1, <1>4 DEF Send, Stall, Hangup, IdleExpires, Client, shutdown
  <2>2. CASE Send(c)
    BY Zenon, <1>1, <1>3, <2>1, <2>2 DEF Send, Sock
  <2>3. CASE Stall(c) \/ Hangup(c)
    BY <1>1, <1>3, <2>1, <2>3 DEF Stall, Hangup, Client, Sock
  <2>4. CASE IdleExpires(c)
    BY Zenon, <1>1, <1>3, <2>1, <2>4 DEF IdleExpires, Sock
  <2> QED
    BY Zenon, <1>4, <2>2, <2>3, <2>4
<1>5. ASSUME NEW c \in Conn, Accept(c) \/ Acquire(c) \/ WgAdd(c) \/ registerConn(c) \/ Arm(c)
                               \/ ReadFails(c) \/ Answer(c) \/ deregisterConn(c) \/ WgDone(c)
                               \/ releaseSlot(c)
      PROVE  SweptInv'
  <2>1. sock' = sock /\ swept' = swept
    BY Zenon, <1>5 DEF Accept, Acquire, WgAdd, registerConn, Arm, ReadFails, Answer, deregisterConn,
                WgDone, releaseSlot, shutdown
  <2> QED
    BY Zenon, <2>1 DEF SweptInv
<1>6. ASSUME NEW c \in Conn, ReadBuffered(c) \/ ReadSocket(c) PROVE SweptInv'
  <2>1. sock[c] \in Sock /\ swept' = swept
    BY Zenon, <1>1, <1>6 DEF ReadBuffered, ReadSocket, shutdown
  <2>2. CASE ReadBuffered(c)
    BY Zenon, <1>1, <1>3, <2>1, <2>2 DEF ReadBuffered, Sock
  <2>3. CASE ReadSocket(c)
    BY <1>1, <1>2, <2>1, <2>3 DEF ReadSocket, Sock
  <2> QED
    BY Zenon, <1>6, <2>2, <2>3
<1>7. ASSUME NEW c \in Conn, Reject(c) \/ Close(c) PROVE SweptInv'
  <2>1. swept' = swept /\ sock' = [sock EXCEPT ![c] = ClosedSock(c)]
    BY <1>7 DEF Reject, Close, shutdown
  <2>2. ClosedSock(c).closed
    BY Zenon DEF ClosedSock, NewSock
  <2> QED
    BY Zenon, <1>3, <2>1, <2>2
<1>8. CASE Sweep
  BY ZenonT(30), <1>1, <1>8 DEF Sweep, SweptInv, Sock
<1>9. CASE ForceClose
  <2>1. swept' = swept
    BY Zenon, <1>9 DEF ForceClose
  <2>2. ASSUME NEW c \in Conn, sock[c].deadline = "past" \/ sock[c].closed
        PROVE  sock'[c].deadline = "past" \/ sock'[c].closed
    BY Zenon, <1>1, <1>9, <2>2 DEF ForceClose, Sock
  <2> QED
    BY Zenon, <1>2, <2>1, <2>2
<1>10. CASE Signal \/ AcceptFails \/ CloseListener \/ WaitReturns \/ ShutdownClean
             \/ ShutdownForced \/ UNCHANGED vars
  BY Zenon, <1>10 DEF Signal, AcceptFails, CloseListener, WaitReturns, ShutdownClean, ShutdownForced,
               vars, SweptInv
<1> QED
  BY Zenon, <1>4, <1>5, <1>6, <1>7, <1>8, <1>9, <1>10 DEF Next, Handle, ShutDown, Terminated

\* Without idle-timeout a connection that Shutdown gave its deadline takes no
\* further command from its socket, however its handler is interleaved with
\* Shutdown.
THEOREM SweptReadNothing ==
  ASSUME ~ IdleTimeout
  PROVE  Spec => SweptReadsNoMore
<1>1. Init => SweptInv
  BY Zenon DEF Init, SweptInv
<1>2. IInv /\ SweptInv /\ [Next]_vars => SweptInv'
  BY Zenon, SweptKept
<1>3. SweptInv => [\A c \in swept : ~ ReadSocket(c)]_vars
  BY DEF SweptInv, ReadSocket
<1> QED
  BY <1>1, <1>2, <1>3, Invariance, PTL DEF Spec, SweptReadsNoMore
=============================================================================

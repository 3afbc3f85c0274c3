------------------------------ MODULE Protocol ------------------------------
(***************************************************************************)
(* The command parser's work on one line (src/internal/protocol/           *)
(* protocol.go).                                                           *)
(*                                                                         *)
(* The stream is a sequence of symbols: CR, LF, and tokens between blanks, *)
(* which are left out.  A token has its lower-case text and, when it is    *)
(* made of digits, its number.  Any symbol may be part of a value, and     *)
(* counts there for one byte.                                              *)
(***************************************************************************)
EXTENDS Integers, Sequences

CONSTANTS
  MaxUint64,  \* the largest uint64
  MaxInt      \* the largest int

ASSUME WidthAssumption == MaxInt \in Nat /\ MaxUint64 \in Nat /\ MaxInt <= MaxUint64

Symbol == [text : STRING, num : Int]

Word(text) == [text |-> text, num |-> -1]
Number(n) == [text |-> "number", num |-> n]

CR == Word("CR")
LF == Word("LF")

\* Keys with a control character, and keys longer than MaxKeyBytes.
validKey(t) == t.text \notin {"control", "overlong"}

\* The results of the conversions; none when they return an error.
parseUintToken(t) == {t.num} \cap 0 .. MaxUint64

parseByteCount(t) == {n \in parseUintToken(t) : n <= MaxInt}

\* strings.Fields, of the line without its CRLF: a CR left in it is a blank.
Fields(line) == SelectSeq(SubSeq(line, 1, Len(line) - 2), LAMBDA s : s # CR)

\* A command whose value, if it has one, is still to be read: size is its byte
\* count.  arg is the version of CAS and the delta of INCR.
Header(op, keys, ttl, arg, size) ==
  [op |-> op, keys |-> keys, ttl |-> ttl, arg |-> arg, size |-> size]

NoValue == -1

When(guard, results) == IF guard THEN results ELSE {}

\* cas <key> [<ttl-seconds>] <cas-version> <bytes>
casLine(f, n) ==
  {Header("cas", <<f[2]>>, t, v, s) : t \in IF n = 5 THEN parseUintToken(f[3]) ELSE {0},
     v \in parseUintToken(f[n - 1]), s \in parseByteCount(f[n])}

\* set <key> [ttl-seconds] <bytes>
setLine(f, n) ==
  {Header("set", <<f[2]>>, t, 0, s) : t \in IF n = 4 THEN parseUintToken(f[3]) ELSE {0},
     s \in parseByteCount(f[n])}

\* The switch of ReadCommand, up to the value; no result is a protocol error.
parseLine(f) ==
  LET n == Len(f)
      op == f[1].text
      plain == {Header(op, Tail(f), 0, 0, NoValue)}
      keyed == n > 1 /\ validKey(f[2])
  IN  IF n = 0 THEN {}
      ELSE UNION {
        When(op \in {"ping", "stats"} /\ n = 1, plain),
        When(op \in {"auth", "get", "delete"} /\ n = 2 /\ keyed, plain),
        When(op \in {"mget", "gets"} /\ n > 1 /\ \A i \in 2 .. n : validKey(f[i]), plain),
        When(op = "incr" /\ n = 3 /\ keyed,
             {Header(op, <<f[2]>>, 0, d, NoValue) : d \in parseUintToken(f[3])}),
        When(op = "set" /\ n \in {3, 4} /\ keyed, setLine(f, n)),
        When(op = "cas" /\ n \in {4, 5} /\ keyed, casLine(f, n))}

\* a + b in the int of the build.
AddInt(a, b) == ((a + b + MaxInt + 1) % (2 * (MaxInt + 1))) - (MaxInt + 1)
=============================================================================

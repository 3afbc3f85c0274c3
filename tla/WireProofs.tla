----------------------------- MODULE WireProofs -----------------------------
(***************************************************************************)
(* Proofs about a connection: serveConn and ReadCommand implement Framing  *)
(* and end sessions quietly, for all frames that are well-formed or        *)
(* refused, any size of the buffer, and wherever the stream is cut; and    *)
(* main hands on every configuration it accepts as the file states it.     *)
(***************************************************************************)
EXTENDS Wire, WellFoundedInduction, TLAPS

-----------------------------------------------------------------------------
(***************************************************************************)
(* Headers, and the first line of a stream.                                *)
(***************************************************************************)
\* A header announces a natural number of bytes, or no value.
LEMMA HeaderSizes ==
  ASSUME NEW line, NEW h \in headersOf(line)
  PROVE  h.size \in Nat \cup {NoValue}
<1>1. PICK f : h \in parseLine(f)
  BY DEF headersOf
<1>2. \A t : parseByteCount(t) \subseteq Nat
  BY WidthAssumption DEF parseByteCount, parseUintToken
<1>4. ASSUME NEW n, NEW x \in setLine(f, n) \cup casLine(f, n) PROVE x.size \in Nat
  <2>1. ASSUME x \in setLine(f, n) PROVE x.size \in Nat
    <3>1. PICK z \in parseByteCount(f[n]) : \E t : x = Header("set", <<f[2]>>, t, 0, z)
      BY <2>1 DEF setLine
    <3> QED
      BY <1>2, <3>1 DEF Header
  <2>2. ASSUME x \in casLine(f, n) PROVE x.size \in Nat
    <3>1. PICK z \in parseByteCount(f[n]) : \E t, v : x = Header("cas", <<f[2]>>, t, v, z)
      BY <2>2 DEF casLine
    <3> QED
      BY <1>2, <3>1 DEF Header
  <2> QED
    BY <2>1, <2>2
<1>5. \/ h \in setLine(f, Len(f)) \cup casLine(f, Len(f))
      \/ \E op, keys, ttl, arg : h = Header(op, keys, ttl, arg, NoValue)
  <2>1. \A guard, results : When(guard, results) \subseteq results
    BY Zenon DEF When
  <2>2. \/ h \in {Header(f[1].text, Tail(f), 0, 0, NoValue)}
        \/ h \in {Header(f[1].text, <<f[2]>>, 0, d, NoValue) : d \in parseUintToken(f[3])}
        \/ h \in setLine(f, Len(f)) \/ h \in casLine(f, Len(f))
    BY <1>1, <2>1 DEF parseLine
  <2> QED
    BY <2>2
<1>6. (\E op, keys, ttl, arg : h = Header(op, keys, ttl, arg, NoValue)) => h.size = NoValue
  BY DEF Header
<1>7. h \in setLine(f, Len(f)) \cup casLine(f, Len(f)) => h.size \in Nat
  BY <1>4
<1> QED
  BY Zenon, <1>5, <1>6, <1>7

\* A line has one first end.
LEMMA LineEndsOnce ==
  ASSUME NEW s, NEW m \in Nat \ {0}, NEW n \in Nat \ {0}, LineEnds(s, m), LineEnds(s, n)
  PROVE  m = n
BY DEF LineEnds

\* A prefix that contains an end of line contains the first one.
LEMMA LineOfPrefix ==
  ASSUME NEW s \in Seq(Symbol), NEW b \in Seq(Symbol),
         NEW n \in 1 .. Len(s), LineEnds(s, n),
         \A j \in 1 .. Len(b) : j <= Len(s) => b[j] = s[j],
         NEW i \in DOMAIN b, b[i] = LF
  PROVE  /\ n \in DOMAIN b /\ LineEnds(b, n) /\ SubSeq(b, 1, n) = SubSeq(s, 1, n)
         /\ (CHOOSE e \in DOMAIN b : LineEnds(b, e)) = n
<1>1. n <= i
  BY DEF LineEnds
<1>2. n \in DOMAIN b /\ LineEnds(b, n)
  <2>1. n \in Nat /\ n \in 1 .. Len(b) /\ Len(b) \in Nat
    BY <1>1
  <2>2. ASSUME NEW j \in 1 .. n PROVE b[j] = s[j]
    <3>1. j \in 1 .. Len(b) /\ j <= Len(s)
      BY <2>1
    <3> QED
      BY Zenon, <3>1
  <2>3. n \in 1 .. n /\ \A j \in 1 .. n - 1 : j \in 1 .. n
    BY <2>1
  <2>4. n \in DOMAIN b
    BY <2>1
  <2> QED
    BY Zenon, <2>2, <2>3, <2>4 DEF LineEnds
<1>3. SubSeq(b, 1, n) = SubSeq(s, 1, n)
  <2>1. SubSeq(b, 1, n) = [j \in 1 .. n |-> b[j]] /\ SubSeq(s, 1, n) = [j \in 1 .. n |-> s[j]]
    BY <1>2
  <2>2. \A j \in 1 .. n : b[j] = s[j]
    BY <1>2
  <2> QED
    BY <2>1, <2>2
<1>4. \A e \in DOMAIN b : LineEnds(b, e) => e = n
  <2>1. DOMAIN b \subseteq Nat \ {0}
    OBVIOUS
  <2> QED
    BY Zenon, <1>2, <2>1, LineEndsOnce
<1> QED
  BY <1>2, <1>3, <1>4

\* There is a least element.
LEMMA Least ==
  ASSUME NEW T \in SUBSET Nat, T # {}
  PROVE  \E x \in T : \A y \in T : x <= y
<1> DEFINE R == OpToRel(<, Nat)
<1>1. PICK x \in T : \A y \in T : ~ (<<y, x>> \in R)
  BY NatLessThanWellFounded, WFMin, Zenon
<1>2. \A y, z \in Nat : y < z => <<y, z>> \in R
  BY DEF OpToRel
<1> HIDE DEF R
<1>3. \A y \in T : ~ (y < x)
  BY Zenon, <1>1, <1>2
<1> QED
  BY <1>3

-----------------------------------------------------------------------------
(***************************************************************************)
(* The inductive invariant.  The frames are laid end to end in a stream    *)
(* st; frame i ends at en[i].  The parser is at position c of it.          *)
(***************************************************************************)
Typed ==
  /\ pc \in {"starting", "exited", "arm", "line", "value", "execute", "closed", "panicked"}
  /\ frames \in Seq(Frame)
  /\ out \in Seq(Symbol) /\ socket \in Seq(Symbol) /\ buffer \in Seq(Symbol) /\ value \in Seq(Symbol)
  /\ Len(buffer) <= BufferSize
  /\ executed \in Seq({f.command : f \in Frame})
  /\ clientErrors \in Nat

\* The symbols of s follow position c of st.
Follow(s, st, c) == \A j \in 1 .. Len(s) : st[c + j] = s[j]

\* The frames fs lie end to end in st; frame i ends at en[i].
Laid(fs, st, en) ==
  /\ en \in [Nat -> Nat] /\ en[0] = 0
  /\ \A i \in 1 .. Len(fs) :
       /\ en[i] = en[i - 1] + Len(fs[i].symbols)
       /\ Follow(fs[i].symbols, st, en[i - 1])
  /\ \A i, j \in 0 .. Len(fs) : i <= j => en[i] <= en[j]

\* What is buffered (b), under way (s) and still to be sent (o) follows c in st.
Window(b, s, o, lost, st, end, c) ==
  /\ c \in Nat
  /\ c + Len(b) + Len(o) <= end
  /\ Follow(b, st, c)
  /\ ~ lost => /\ c + Len(b) + Len(s) + Len(o) = end
               /\ Follow(s, st, c + Len(b))
               /\ Follow(o, st, c + Len(b) + Len(s))

\* The parser is at c, inside the value that h announces; v of it is read.  The
\* frame with the symbols s begins after p.
InValue(h, v, s, st, p, c) ==
  \E n \in 1 .. Len(s) :
    /\ n <= BufferSize /\ LineEnds(s, n)
    /\ h \in headersOf(SubSeq(s, 1, n))
    /\ h.size \in Nat /\ Allocates(h.size)
    /\ Len(v) < h.size + 2
    /\ c = p + n + Len(v)
    /\ Follow(v, st, p + n)

\* Where the parser is when k frames are executed.
Place(at, h, v, k, fs, st, en, c) ==
  /\ at \in {"starting", "arm", "line"} => c = en[k] /\ v = <<>>
  /\ at = "value" => k < Len(fs) /\ InValue(h, v, fs[k + 1].symbols, st, en[k], c)
  /\ at = "execute" => /\ k < Len(fs) /\ c = en[k + 1]
                       /\ WellFormed(fs[k + 1])
                       /\ fs[k + 1].command = [header |-> h, value |-> v]

\* The frames are executed in order.
Done(ex, fs) ==
  /\ Len(ex) <= Len(fs)
  /\ \A i \in 1 .. Len(ex) : WellFormed(fs[i]) /\ ex[i] = fs[i].command

Cut == \E st, en, c : /\ Laid(frames, st, en)
                      /\ Window(buffer, socket, out, Broken, st, en[Len(frames)], c)
                      /\ Place(pc, header, value, Len(executed), frames, st, en, c)

WInv == Typed /\ Done(executed, frames) /\ (frames = <<>> => out = <<>>) /\ (~ Ended => Cut)

\* A frame has symbols, and a command or none.
LEMMA Frames ==
  ASSUME NEW f \in Frame
  PROVE  f.symbols \in Seq(Symbol) /\ Len(f.symbols) \in Nat \ {0} /\ (WellFormed(f) \/ Refused(f))
<1>1. f.symbols \in Seq(Symbol) /\ f.symbols # <<>>
  BY Zenon, FrameAssumption
<1>2. Len(f.symbols) \in Nat /\ Len(f.symbols) # 0
  BY <1>1
<1> QED
  BY Zenon, <1>1, <1>2, FrameAssumption

\* What is buffered at the end of frame k begins with the next frame.
LEMMA AtFrame ==
  ASSUME NEW fs \in Seq(Frame), NEW b \in Seq(Symbol), NEW st, NEW en, NEW k \in 0 .. Len(fs),
         b # <<>>, Laid(fs, st, en), en[k] + Len(b) <= en[Len(fs)], Follow(b, st, en[k])
  PROVE  /\ k < Len(fs)
         /\ \A j \in 1 .. Len(b) : j <= Len(fs[k + 1].symbols) => b[j] = fs[k + 1].symbols[j]
<1>1. k \in Nat /\ Len(fs) \in Nat /\ Len(b) \in Nat \ {0} /\ k <= Len(fs)
  OBVIOUS
<1>2. en[k] \in Nat /\ en[Len(fs)] \in Nat
  BY <1>1 DEF Laid
<1>3. k < Len(fs)
  BY <1>1, <1>2
<1>4. k + 1 \in 1 .. Len(fs) /\ (k + 1) - 1 = k /\ fs[k + 1] \in Frame
  BY <1>1, <1>3
<1>5. \A j \in 1 .. Len(fs[k + 1].symbols) : st[en[k] + j] = fs[k + 1].symbols[j]
  BY Zenon, <1>4 DEF Laid, Follow
<1>6. \A j \in 1 .. Len(b) : st[en[k] + j] = b[j]
  BY DEF Follow
<1>7. Len(fs[k + 1].symbols) \in Nat
  BY <1>4, Frames
<1> QED
  BY <1>1, <1>3, <1>5, <1>6, <1>7

\* One more frame is laid after the others.
LEMMA LayOne ==
  ASSUME NEW fs \in Seq(Frame), NEW f \in Frame, NEW st, NEW en, Laid(fs, st, en)
  PROVE  \E st2, en2 :
           /\ Laid(Append(fs, f), st2, en2)
           /\ en2[Len(fs) + 1] = en[Len(fs)] + Len(f.symbols)
           /\ \A i \in 0 .. Len(fs) : en2[i] = en[i]
           /\ \A p \in Nat : p <= en[Len(fs)] => st2[p] = st[p]
           /\ Follow(f.symbols, st2, en[Len(fs)])
<1>1. PICK L \in Nat : L = Len(fs)
  OBVIOUS
<1>2. PICK n \in Nat : n = Len(f.symbols)
  BY Frames
<1>3. PICK e \in Nat : e = en[L]
  BY <1>1 DEF Laid
<1>4. PICK g : g = Append(fs, f)
  BY Zenon
<1>5. Len(g) = L + 1 /\ g[L + 1] = f /\ \A i \in 1 .. L : g[i] = fs[i] /\ g[i] \in Frame
  BY <1>1, <1>4
<1>6. PICK en2 : en2 = [i \in Nat |-> IF i = L + 1 THEN e + n ELSE en[i]]
  BY Zenon
<1>7. PICK st2 : st2 = [p \in Nat |-> IF e < p THEN f.symbols[p - e] ELSE st[p]]
  BY Zenon
<1>8. /\ en \in [Nat -> Nat] /\ en[0] = 0
      /\ \A i, j \in 0 .. L : i <= j => en[i] <= en[j]
  BY Zenon, <1>1 DEF Laid
<1>9. ASSUME NEW i \in 1 .. L
      PROVE  /\ en[i] = en[i - 1] + Len(g[i].symbols)
             /\ Follow(g[i].symbols, st, en[i - 1])
  <2>1. i \in 1 .. Len(fs) /\ g[i] = fs[i]
    BY Zenon, <1>1, <1>5
  <2> QED
    BY <2>1, Zenon DEF Laid
<1>10. /\ en2 \in [Nat -> Nat] /\ en2[0] = 0 /\ en2[L + 1] = e + n
       /\ \A i \in 0 .. L : en2[i] = en[i]
  <2>1. \A i \in Nat : en2[i] = IF i = L + 1 THEN e + n ELSE en[i]
    BY Zenon, <1>6
  <2>2. 0 # L + 1 /\ L + 1 \in Nat /\ 0 \in Nat /\ e + n \in Nat
    OBVIOUS
  <2>3. \A i \in 0 .. L : i \in Nat /\ i # L + 1
    OBVIOUS
  <2>4. en2 \in [Nat -> Nat]
    BY Zenon, <1>6, <1>8, <2>2
  <2> QED
    BY Zenon, <1>8, <2>1, <2>2, <2>3, <2>4
<1>11. \A p \in Nat : p <= e => st2[p] = st[p]
  BY <1>7
<1>12. \A j \in 1 .. n : st2[e + j] = f.symbols[j]
  <2> TAKE j \in 1 .. n
  <2>1. e + j \in Nat /\ e < e + j /\ (e + j) - e = j
    OBVIOUS
  <2> QED
    BY <1>7, <2>1
<1>13. ASSUME NEW i \in 1 .. L + 1
       PROVE  /\ en2[i] = en2[i - 1] + Len(g[i].symbols)
              /\ Follow(g[i].symbols, st2, en2[i - 1])
  <2>1. CASE i = L + 1
    <3>1. en2[i - 1] = e /\ g[i] = f
      BY <1>3, <1>5, <1>10, <2>1
    <3> QED
      BY Zenon, <1>2, <1>10, <1>12, <2>1, <3>1 DEF Follow
  <2>2. CASE i \in 1 .. L
    <3>1. /\ en2[i] = en[i] /\ en2[i - 1] = en[i - 1] /\ en[i - 1] \in Nat
          /\ en[i] <= e /\ en[i] = en[i - 1] + Len(g[i].symbols)
      <4>1. i \in 0 .. L /\ i - 1 \in 0 .. L /\ L \in 0 .. L /\ i <= L /\ i - 1 \in Nat
        BY <2>2
      <4>2. en2[i] = en[i] /\ en2[i - 1] = en[i - 1]
        BY Zenon, <1>10, <4>1
      <4>3. en[i - 1] \in Nat /\ en[i] <= e
        BY Zenon, <1>3, <1>8, <4>1
      <4> QED
        BY Zenon, <1>9, <2>2, <4>2, <4>3
    <3>2. PICK l \in Nat : l = Len(g[i].symbols)
      BY Zenon, <1>5, <2>2, Frames
    <3>3. PICK q \in Nat : q = en[i - 1]
      BY Zenon, <3>1
    <3>4. q + l <= e
      BY Zenon, <3>1, <3>2, <3>3
    <3>5. ASSUME NEW j \in 1 .. l PROVE st2[q + j] = g[i].symbols[j]
      <4>1. q + j \in Nat /\ q + j <= e
        BY <3>4
      <4> QED
        BY Zenon, <1>9, <1>11, <2>2, <3>2, <3>3, <4>1 DEF Follow
    <3> QED
      BY Zenon, <3>1, <3>2, <3>3, <3>5 DEF Follow
  <2> QED
    BY <2>1, <2>2
<1>14. ASSUME NEW i \in 0 .. L + 1, NEW j \in 0 .. L + 1, i <= j PROVE en2[i] <= en2[j]
  <2>1. CASE j = L + 1 /\ i # L + 1
    <3>1. i \in 0 .. L /\ en[i] <= e /\ en[i] \in Nat
      <4>1. i \in 0 .. L /\ L \in 0 .. L /\ i <= L /\ i \in Nat
        BY <2>1
      <4> QED
        BY Zenon, <1>3, <1>8, <4>1
    <3>2. en2[i] = en[i] /\ en2[j] = e + n
      BY <1>10, <2>1, <3>1
    <3> QED
      BY <3>1, <3>2
  <2>2. CASE i \in 0 .. L /\ j \in 0 .. L
    BY <1>8, <1>10, <1>14, <2>2
  <2>3. CASE i = L + 1 /\ j = L + 1
    BY <1>10, <2>3
  <2> QED
    BY <1>14, <2>1, <2>2, <2>3
<1>15. Laid(g, st2, en2)
  BY Zenon, <1>5, <1>10, <1>13, <1>14 DEF Laid
<1>16. /\ en2[Len(fs) + 1] = en[Len(fs)] + Len(f.symbols)
       /\ \A i \in 0 .. Len(fs) : en2[i] = en[i]
       /\ \A p \in Nat : p <= en[Len(fs)] => st2[p] = st[p]
       /\ Follow(f.symbols, st2, en[Len(fs)])
  BY Zenon, <1>1, <1>2, <1>3, <1>10, <1>11, <1>12 DEF Follow
<1>17. Laid(Append(fs, f), st2, en2)
  BY <1>4, <1>15
<1> WITNESS st2, en2
<1> QED
  BY <1>16, <1>17

\* The parts of a sequence.
LEMMA Parts ==
  ASSUME NEW s \in Seq(Symbol), NEW n \in 0 .. Len(s)
  PROVE  /\ SubSeq(s, 1, n) \in Seq(Symbol) /\ Len(SubSeq(s, 1, n)) = n
         /\ \A j \in 1 .. n : SubSeq(s, 1, n)[j] = s[j]
         /\ SubSeq(s, n + 1, Len(s)) \in Seq(Symbol) /\ Len(SubSeq(s, n + 1, Len(s))) = Len(s) - n
         /\ \A j \in 1 .. Len(s) - n : SubSeq(s, n + 1, Len(s))[j] = s[n + j]
OBVIOUS

\* A part that begins after n symbols.
LEMMA Middle ==
  ASSUME NEW s \in Seq(Symbol), NEW n \in Nat, NEW z \in Nat, n + z <= Len(s)
  PROVE  SubSeq(s, n + 1, n + z) = [j \in 1 .. z |-> s[n + j]]
OBVIOUS

\* What a concatenation holds, and where.
LEMMA Joined ==
  ASSUME NEW s \in Seq(Symbol), NEW t \in Seq(Symbol)
  PROVE  /\ s \o t \in Seq(Symbol) /\ Len(s \o t) = Len(s) + Len(t)
         /\ \A j \in 1 .. Len(s) : (s \o t)[j] = s[j]
         /\ \A j \in 1 .. Len(t) : (s \o t)[Len(s) + j] = t[j]
OBVIOUS

\* The parts of a sequence that lies in the stream lie one after the other.
LEMMA FollowParts ==
  ASSUME NEW s \in Seq(Symbol), NEW n \in 0 .. Len(s), NEW st, NEW c \in Nat, Follow(s, st, c)
  PROVE  Follow(SubSeq(s, 1, n), st, c) /\ Follow(SubSeq(s, n + 1, Len(s)), st, c + n)
<1>1. Follow(SubSeq(s, 1, n), st, c)
  BY Parts DEF Follow
<1>2. PICK y : y = SubSeq(s, n + 1, Len(s))
  BY Zenon
<1>3. Len(y) = Len(s) - n /\ \A j \in 1 .. Len(s) - n : y[j] = s[n + j]
  BY Zenon, <1>2, Parts
<1>4. ASSUME NEW j \in 1 .. Len(s) - n PROVE st[(c + n) + j] = y[j]
  <2>1. n + j \in 1 .. Len(s) /\ (c + n) + j = c + (n + j)
    OBVIOUS
  <2>2. st[c + (n + j)] = s[n + j]
    BY Zenon, <2>1 DEF Follow
  <2> QED
    BY Zenon, <1>3, <2>1, <2>2
<1> QED
  BY Zenon, <1>1, <1>2, <1>3, <1>4 DEF Follow

\* Two sequences that lie one after the other lie there joined.
LEMMA FollowJoined ==
  ASSUME NEW s \in Seq(Symbol), NEW t \in Seq(Symbol), NEW st, NEW c \in Nat,
         Follow(s, st, c), Follow(t, st, c + Len(s))
  PROVE  Follow(s \o t, st, c)
<1>1. PICK u : u = s \o t
  BY Zenon
<1>2. PICK m \in Nat : m = Len(s)
  OBVIOUS
<1>3. PICK n \in Nat : n = Len(t)
  OBVIOUS
<1>4. Len(u) = m + n /\ (\A j \in 1 .. m : u[j] = s[j]) /\ (\A j \in 1 .. n : u[m + j] = t[j])
  BY <1>1, <1>2, <1>3, Joined
<1>5. ASSUME NEW j \in 1 .. m + n PROVE st[c + j] = u[j]
  <2>1. CASE j \in 1 .. m
    BY Zenon, <1>2, <1>4, <2>1 DEF Follow
  <2>2. CASE j > m
    <3>1. PICK i \in 1 .. n : j = m + i
      <4>1. j - m \in 1 .. n /\ j = m + (j - m)
        BY <2>2
      <4> QED
        BY Zenon, <4>1
    <3>2. c + j = (c + m) + i
      BY <3>1
    <3>3. st[(c + m) + i] = t[i]
      BY Zenon, <1>2, <1>3 DEF Follow
    <3> QED
      BY Zenon, <1>4, <3>1, <3>2, <3>3
  <2> QED
    BY <2>1, <2>2
<1> QED
  BY Zenon, <1>1, <1>4, <1>5 DEF Follow

\* n of the y symbols that come after p + x join those before.
Regroups(p, x, y, n) ==
  /\ p + (x + n) = (p + x) + n
  /\ p + (x + n) + (y - n) = p + x + y
  /\ p + (y - n) <= p + x + y

LEMMA SumsRegroup ==
  ASSUME NEW p \in Nat, NEW x \in Nat, NEW y \in Nat, NEW n \in Nat, n <= y
  PROVE  Regroups(p, x, y, n)
BY DEF Regroups

\* The client sends n symbols.
LEMMA WindowSend ==
  ASSUME NEW b \in Seq(Symbol), NEW s \in Seq(Symbol), NEW o \in Seq(Symbol),
         NEW n \in 0 .. Len(o), NEW st, NEW end \in Nat, NEW c, Window(b, s, o, FALSE, st, end, c)
  PROVE  Window(b, s \o SubSeq(o, 1, n), SubSeq(o, n + 1, Len(o)), FALSE, st, end, c)
<1>1. PICK p \in Nat : p = c + Len(b)
  BY DEF Window
<1>2. Follow(s, st, p) /\ Follow(o, st, p + Len(s)) /\ p + Len(s) + Len(o) = end
  BY Zenon, <1>1 DEF Window
<1>3. /\ Follow(SubSeq(o, 1, n), st, p + Len(s))
      /\ Follow(SubSeq(o, n + 1, Len(o)), st, (p + Len(s)) + n)
  BY <1>2, FollowParts
<1>4. /\ SubSeq(o, 1, n) \in Seq(Symbol) /\ Len(SubSeq(o, 1, n)) = n
      /\ SubSeq(o, n + 1, Len(o)) \in Seq(Symbol) /\ Len(SubSeq(o, n + 1, Len(o))) = Len(o) - n
  BY Parts
<1>5. Follow(s \o SubSeq(o, 1, n), st, p) /\ Len(s \o SubSeq(o, 1, n)) = Len(s) + n
  BY ZenonT(60), <1>2, <1>3, <1>4, FollowJoined, Joined
<1>6. /\ p + (Len(s) + n) = (p + Len(s)) + n
      /\ p + (Len(s) + n) + (Len(o) - n) = end /\ p + (Len(o) - n) <= end
  <2>1. PICK x \in Nat : x = Len(s)
    OBVIOUS
  <2>2. PICK y \in Nat : y = Len(o) /\ n <= y /\ n \in Nat
    OBVIOUS
  <2>3. p + x + y = end
    BY Zenon, <1>2, <2>1, <2>2
  <2>4. Regroups(p, x, y, n)
    BY Zenon, <2>2, SumsRegroup
  <2> QED
    BY Zenon, <2>1, <2>2, <2>3, <2>4 DEF Regroups
<1> QED
  BY Zenon, <1>1, <1>3, <1>4, <1>5, <1>6 DEF Window

\* The bufio.Reader takes n symbols that arrived.
LEMMA WindowFill ==
  ASSUME NEW b \in Seq(Symbol), NEW s \in Seq(Symbol), NEW o \in Seq(Symbol),
         NEW n \in 0 .. Len(s), NEW st, NEW end \in Nat, NEW c, Window(b, s, o, FALSE, st, end, c)
  PROVE  Window(b \o SubSeq(s, 1, n), SubSeq(s, n + 1, Len(s)), o, FALSE, st, end, c)
<1>1. /\ c \in Nat /\ Follow(b, st, c) /\ Follow(s, st, c + Len(b))
      /\ Follow(o, st, c + Len(b) + Len(s)) /\ c + Len(b) + Len(s) + Len(o) = end
  BY DEF Window
<1>2. /\ Follow(SubSeq(s, 1, n), st, c + Len(b))
      /\ Follow(SubSeq(s, n + 1, Len(s)), st, (c + Len(b)) + n)
  BY <1>1, FollowParts
<1>3. /\ SubSeq(s, 1, n) \in Seq(Symbol) /\ Len(SubSeq(s, 1, n)) = n
      /\ SubSeq(s, n + 1, Len(s)) \in Seq(Symbol) /\ Len(SubSeq(s, n + 1, Len(s))) = Len(s) - n
  BY Parts
<1>4. Follow(b \o SubSeq(s, 1, n), st, c) /\ Len(b \o SubSeq(s, 1, n)) = Len(b) + n
  <2>1. PICK x \in Seq(Symbol) : x = SubSeq(s, 1, n)
    BY Zenon, <1>3
  <2>2. Len(x) = n /\ Follow(x, st, c + Len(b))
    BY <1>2, <1>3, <2>1
  <2>3. Follow(b \o x, st, c)
    BY Zenon, <1>1, <2>2, FollowJoined
  <2>4. Len(b \o x) = Len(b) + n
    BY Zenon, <2>2, Joined
  <2> QED
    BY <2>1, <2>3, <2>4
<1>5. /\ c + (Len(b) + n) = (c + Len(b)) + n
      /\ c + (Len(b) + n) + (Len(s) - n) = c + Len(b) + Len(s)
      /\ c + (Len(b) + n) + Len(o) <= end
  BY <1>1
<1> QED
  BY Zenon, <1>1, <1>2, <1>3, <1>4, <1>5 DEF Window

\* The parser takes n symbols.
LEMMA WindowDrop ==
  ASSUME NEW b \in Seq(Symbol), NEW s \in Seq(Symbol), NEW o \in Seq(Symbol), NEW lost \in BOOLEAN,
         NEW n \in 0 .. Len(b), NEW st, NEW end \in Nat, NEW c, Window(b, s, o, lost, st, end, c)
  PROVE  Window(SubSeq(b, n + 1, Len(b)), s, o, lost, st, end, c + n)
<1>1. c \in Nat /\ Follow(b, st, c)
  BY Zenon DEF Window
<1>2. Follow(SubSeq(b, n + 1, Len(b)), st, c + n) /\ Len(SubSeq(b, n + 1, Len(b))) = Len(b) - n
  BY Zenon, <1>1, FollowParts, Parts
<1>3. (c + n) + (Len(b) - n) = c + Len(b) /\ c + n \in Nat
  BY <1>1
<1> QED
  BY Zenon, <1>1, <1>2, <1>3 DEF Window

-----------------------------------------------------------------------------
(***************************************************************************)
(* One lemma for each kind of step.                                        *)
(***************************************************************************)
\* Steps that move nothing: main, deadlines, the top of the loop, and what ends
\* the connection or the session without touching what is buffered.
LEMMA IdleSteps ==
  ASSUME WInv, UNCHANGED <<client, parser, executed>>, clientErrors' \in Nat,
         pc' \in {"starting", "exited", "arm", "line", "value", "execute", "closed", "panicked"},
         \/ Ended'
         \/ ~ Ended /\ (pc' = pc \/ (pc \in {"starting", "arm"} /\ pc' \in {"arm", "line"})),
         socket' \in Seq(Symbol),
         Ended' \/ Broken' \/ (~ Broken /\ socket' = socket)
  PROVE  WInv'
<1>1. Typed' /\ Done(executed, frames)' /\ (frames = <<>> => out = <<>>)'
  BY Zenon DEF WInv, Typed, client, parser
<1>2. ASSUME ~ Ended' PROVE Cut'
  <2>1. ~ Ended /\ (pc' = pc \/ (pc \in {"starting", "arm"} /\ pc' \in {"arm", "line"}))
    BY Zenon, <1>2
  <2>2. PICK st, en, c : /\ Laid(frames, st, en)
                         /\ Window(buffer, socket, out, Broken, st, en[Len(frames)], c)
                         /\ Place(pc, header, value, Len(executed), frames, st, en, c)
    BY Zenon, <2>1 DEF WInv, Cut
  <2>3. Window(buffer', socket', out', Broken', st, en[Len(frames)], c)
    BY Zenon, <1>2, <2>2 DEF Window, client, parser
  <2>4. Place(pc', header', value', Len(executed), frames, st, en, c)
    BY Zenon, <2>1, <2>2 DEF Place, parser
  <2> QED
    BY Zenon, <2>2, <2>3, <2>4 DEF Cut, client
<1> QED
  BY Zenon, <1>1, <1>2 DEF WInv

\* The client begins a frame.
LEMMA BeginStep ==
  ASSUME WInv, NEW f \in Frame, Begin(f)
  PROVE  WInv'
<1>1. /\ ~ Ended /\ link = "up" /\ out = <<>> /\ frames' = Append(frames, f) /\ out' = f.symbols
      /\ UNCHANGED <<pc, link, socket, parser, executed, clientErrors>>
  BY Zenon DEF Begin
<1>2. PICK L \in Nat : L = Len(frames)
  BY DEF WInv, Typed
<1>3. /\ frames \in Seq(Frame) /\ frames' \in Seq(Frame) /\ Len(frames') = L + 1
      /\ \A i \in 1 .. L : frames'[i] = frames[i]
  BY <1>1, <1>2 DEF WInv, Typed
<1>4. Typed' /\ frames' # <<>>
  BY <1>1, <1>3, Frames DEF WInv, Typed, parser
<1>5. PICK k \in 0 .. L : k = Len(executed)
  BY <1>2 DEF WInv, Done, Typed
<1>6. Done(executed', frames')
  BY <1>1, <1>2, <1>3, <1>5 DEF WInv, Done
<1>7. PICK st, en, c : /\ Laid(frames, st, en)
                       /\ Window(buffer, socket, out, Broken, st, en[L], c)
                       /\ Place(pc, header, value, k, frames, st, en, c)
  BY Zenon, <1>1, <1>2, <1>5 DEF WInv, Cut
<1>8. PICK st2, en2 :
        /\ Laid(frames', st2, en2)
        /\ en2[L + 1] = en[L] + Len(f.symbols)
        /\ \A i \in 0 .. L : en2[i] = en[i]
        /\ \A p \in Nat : p <= en[L] => st2[p] = st[p]
        /\ Follow(f.symbols, st2, en[L])
  BY <1>1, <1>2, <1>3, <1>7, LayOne
<1>9. en[L] \in Nat
  BY Zenon, <1>7 DEF Laid
<1>10. ASSUME NEW s \in Seq(Symbol), NEW p \in Nat, Follow(s, st, p), p + Len(s) <= en[L]
       PROVE  Follow(s, st2, p)
  <2> SUFFICES ASSUME NEW j \in 1 .. Len(s) PROVE st2[p + j] = s[j]
    BY Zenon DEF Follow
  <2>1. p + j \in Nat /\ p + j <= en[L]
    BY <1>9, <1>10
  <2> QED
    BY Zenon, <1>8, <1>10, <2>1 DEF Follow
<1>11. Window(buffer, socket, f.symbols, FALSE, st2, en2[L + 1], c)
  <2>1. /\ c \in Nat /\ c + Len(buffer) + Len(socket) = en[L]
        /\ Follow(buffer, st, c) /\ Follow(socket, st, c + Len(buffer))
    BY <1>1, <1>7, <1>9 DEF Window, Broken, WInv, Typed
  <2>2. buffer \in Seq(Symbol) /\ socket \in Seq(Symbol) /\ Len(f.symbols) \in Nat
    BY Zenon, Frames DEF WInv, Typed
  <2>3. /\ Len(buffer) \in Nat /\ Len(socket) \in Nat
        /\ c + Len(buffer) \in Nat /\ c + Len(buffer) <= en[L]
        /\ (c + Len(buffer)) + Len(socket) <= en[L]
    BY <1>9, <2>1, <2>2
  <2>4. Follow(buffer, st2, c) /\ Follow(socket, st2, c + Len(buffer))
    BY ZenonT(30), <1>10, <2>1, <2>2, <2>3
  <2>5. Follow(f.symbols, st2, c + Len(buffer) + Len(socket))
    BY Zenon, <1>8, <2>1
  <2>6. /\ c + Len(buffer) + Len(f.symbols) <= en2[L + 1]
        /\ c + Len(buffer) + Len(socket) + Len(f.symbols) = en2[L + 1]
    <3>1. PICK m \in Nat : m = Len(f.symbols)
      BY Zenon, <2>2
    <3>2. en2[L + 1] = en[L] + m
      BY Zenon, <1>8, <3>1
    <3>3. /\ c + Len(buffer) + m <= en[L] + m
          /\ c + Len(buffer) + Len(socket) + m = en[L] + m
      BY <1>9, <2>1, <2>3
    <3> QED
      BY Zenon, <3>1, <3>2, <3>3
  <2> QED
    BY Zenon, <2>1, <2>4, <2>5, <2>6 DEF Window
<1>12. Place(pc, header, value, k, frames', st2, en2, c)
  <2>1. pc \in {"starting", "arm", "line"} => c = en2[k] /\ value = <<>>
    BY Zenon, <1>7, <1>8 DEF Place
  <2>2. ASSUME pc = "value" PROVE k < L + 1 /\ InValue(header, value, frames'[k + 1].symbols, st2, en2[k], c)
    <3>1. k < L /\ InValue(header, value, frames[k + 1].symbols, st, en[k], c)
      BY Zenon, <1>2, <1>7, <2>2 DEF Place
    <3>2. frames'[k + 1] = frames[k + 1] /\ en2[k] = en[k] /\ frames[k + 1] \in Frame
      BY <1>2, <1>3, <1>8, <3>1
    <3>3. PICK n \in 1 .. Len(frames[k + 1].symbols) :
            /\ n <= BufferSize /\ LineEnds(frames[k + 1].symbols, n)
            /\ header \in headersOf(SubSeq(frames[k + 1].symbols, 1, n))
            /\ header.size \in Nat /\ Allocates(header.size)
            /\ Len(value) < header.size + 2
            /\ c = en[k] + n + Len(value)
            /\ Follow(value, st, en[k] + n)
      BY Zenon, <3>1 DEF InValue
    <3>4. en[k] \in Nat /\ n \in Nat /\ Len(frames[k + 1].symbols) \in Nat
      <4>1. Len(frames[k + 1].symbols) \in Nat
        BY Zenon, <3>2, Frames
      <4>2. en \in [Nat -> Nat]
        BY Zenon, <1>7 DEF Laid
      <4>3. k \in Nat
        BY <1>2, <1>5
      <4> QED
        BY <3>3, <4>1, <4>2, <4>3
    <3>5. c <= en[L]
      BY SMTT(30), <1>1, <1>7, <1>9 DEF Window, WInv, Typed
    <3>6. Follow(value, st2, en[k] + n)
      <4>1. PICK q \in Nat : q = en[k] + n
        BY <3>4
      <4>2. q + Len(value) <= en[L] /\ Follow(value, st, q)
        BY Zenon, <3>3, <3>5, <4>1
      <4>3. value \in Seq(Symbol)
        BY Zenon DEF WInv, Typed
      <4> QED
        BY Zenon, <1>10, <4>1, <4>2, <4>3
    <3> QED
      BY SMTT(30), <3>1, <3>2, <3>3, <3>6 DEF InValue
  <2>3. ASSUME pc = "execute"
        PROVE  /\ k < L + 1 /\ c = en2[k + 1]
               /\ WellFormed(frames'[k + 1])
               /\ frames'[k + 1].command = [header |-> header, value |-> value]
    <3>1. /\ k < L /\ c = en[k + 1] /\ WellFormed(frames[k + 1])
          /\ frames[k + 1].command = [header |-> header, value |-> value]
      BY Zenon, <1>2, <1>7, <2>3 DEF Place
    <3>2. k < L + 1 /\ k + 1 \in 1 .. L /\ k + 1 \in 0 .. L
      BY <3>1
    <3> QED
      BY Zenon, <1>3, <1>8, <3>1, <3>2
  <2> QED
    BY Zenon, <1>3, <2>1, <2>2, <2>3 DEF Place
<1>13. Cut'
  <2>1. /\ buffer' = buffer /\ socket' = socket /\ out' = f.symbols /\ Broken' = FALSE
        /\ pc' = pc /\ header' = header /\ value' = value
    BY <1>1 DEF Broken, parser
  <2>2. Len(executed') = k /\ Len(frames') = L + 1
    BY <1>1, <1>3, <1>5
  <2>3. Window(buffer', socket', out', Broken', st2, en2[Len(frames')], c)
    BY Zenon, <1>11, <2>1, <2>2
  <2>4. Place(pc', header', value', Len(executed'), frames', st2, en2, c)
    BY <1>12, <2>1, <2>2
  <2> QED
    BY <1>8, <2>3, <2>4, Zenon DEF Cut
<1> QED
  BY Zenon, <1>4, <1>6, <1>13 DEF WInv

\* The client sends n symbols.
LEMMA SendStep ==
  ASSUME WInv, NEW n \in 1 .. Len(out), Send(n)
  PROVE  WInv'
<1>1. /\ ~ Ended /\ link = "up" /\ socket' = socket \o SubSeq(out, 1, n)
      /\ out' = SubSeq(out, n + 1, Len(out))
      /\ UNCHANGED <<pc, frames, link, parser, executed, clientErrors>>
  BY DEF Send
<1>2. buffer \in Seq(Symbol) /\ socket \in Seq(Symbol) /\ out \in Seq(Symbol) /\ n \in 0 .. Len(out)
  BY DEF WInv, Typed
<1>3. socket' \in Seq(Symbol) /\ out' \in Seq(Symbol)
  BY Zenon, <1>1, <1>2, Parts, Joined
<1>4. Typed' /\ Done(executed, frames)' /\ (frames = <<>> => out = <<>>)'
  <2>1. frames # <<>>
    BY DEF WInv
  <2> QED
    BY Zenon, <1>1, <1>3, <2>1 DEF WInv, Typed, parser
<1>5. PICK st, en, c : /\ Laid(frames, st, en)
                       /\ Window(buffer, socket, out, Broken, st, en[Len(frames)], c)
                       /\ Place(pc, header, value, Len(executed), frames, st, en, c)
  BY Zenon, <1>1 DEF WInv, Cut
<1>6. Broken = FALSE /\ Broken' = FALSE /\ en[Len(frames)] \in Nat
  BY <1>1, <1>5 DEF Broken, Laid, WInv, Typed
<1>7. Window(buffer, socket \o SubSeq(out, 1, n), SubSeq(out, n + 1, Len(out)), FALSE, st, en[Len(frames)], c)
  BY Zenon, <1>2, <1>5, <1>6, WindowSend
<1>8. Window(buffer', socket', out', Broken', st, en[Len(frames')], c)
  BY Zenon, <1>1, <1>6, <1>7 DEF parser
<1>9. Laid(frames', st, en) /\ Place(pc', header', value', Len(executed'), frames', st, en, c)
  BY Zenon, <1>1, <1>5 DEF parser
<1>10. Cut'
  BY <1>8, <1>9, Zenon DEF Cut
<1> QED
  BY <1>4, <1>10 DEF WInv

\* The reader takes what arrived, and in a value what it held before.
LEMMA FillStep ==
  ASSUME WInv, Fill
  PROVE  WInv'
<1> DEFINE kept == IF pc = "value" THEN <<>> ELSE buffer
           room == BufferSize - Len(kept)
           m == IF Len(socket) < room THEN Len(socket) ELSE room
<1>1. /\ Reading /\ Starved /\ ~ ReadFails
      /\ value' = IF pc = "value" THEN value \o buffer ELSE value
      /\ buffer' = kept \o SubSeq(socket, 1, m)
      /\ socket' = SubSeq(socket, m + 1, Len(socket))
      /\ UNCHANGED <<pc, client, link, header, executed, clientErrors>>
  BY Zenon DEF Fill
<1>2. /\ buffer \in Seq(Symbol) /\ socket \in Seq(Symbol) /\ out \in Seq(Symbol) /\ value \in Seq(Symbol)
      /\ Len(buffer) <= BufferSize /\ BufferSize \in Nat
  BY Zenon, WireAssumption DEF WInv, Typed
<1>3. kept \in Seq(Symbol) /\ Len(kept) <= BufferSize
  BY <1>2
<1>4. PICK n \in 0 .. Len(socket) : n = m /\ Len(kept) + n <= BufferSize
  <2> HIDE DEF kept
  <2>1. m \in 0 .. Len(socket) /\ Len(kept) + m <= BufferSize
    BY <1>2, <1>3
  <2> QED
    BY Zenon, <2>1
<1> HIDE DEF m, room
<1>5. buffer' = kept \o SubSeq(socket, 1, n) /\ socket' = SubSeq(socket, n + 1, Len(socket))
  BY Zenon, <1>1, <1>4
<1>6. PICK b \in Seq(Symbol) : b = kept
  BY Zenon, <1>3
<1> HIDE DEF kept
<1>7. buffer' \in Seq(Symbol) /\ socket' \in Seq(Symbol) /\ Len(buffer') <= BufferSize
  <2>1. SubSeq(socket, 1, n) \in Seq(Symbol) /\ Len(SubSeq(socket, 1, n)) = n
    BY Zenon, <1>2, <1>4, Parts
  <2>2. b \o SubSeq(socket, 1, n) \in Seq(Symbol) /\ Len(b \o SubSeq(socket, 1, n)) = Len(b) + n
    BY <1>6, <2>1, Joined
  <2> QED
    BY Zenon, <1>2, <1>4, <1>5, <1>6, <2>2, Parts
<1>8. value' \in Seq(Symbol)
  BY Zenon, <1>1, <1>2, Joined
<1>9. Typed' /\ Done(executed, frames)' /\ (frames = <<>> => out = <<>>)'
  BY Zenon, <1>1, <1>7, <1>8 DEF WInv, Typed, client
<1>10. PICK st, en, c : /\ Laid(frames, st, en)
                        /\ Window(buffer, socket, out, Broken, st, en[Len(frames)], c)
                        /\ Place(pc, header, value, Len(executed), frames, st, en, c)
  BY Zenon, <1>1 DEF WInv, Cut, Ended, Reading
<1>11. PICK end \in Nat : end = en[Len(frames)]
  <2>1. Len(frames) \in Nat
    BY DEF WInv, Typed
  <2> QED
    BY Zenon, <1>10, <2>1 DEF Laid
<1>12. Broken = FALSE /\ Broken' = FALSE
  BY <1>1 DEF ReadFails, Broken
<1>13. \E d : Window(b, socket, out, FALSE, st, end, d) /\ Place(pc, header, value', Len(executed), frames, st, en, d)
  <2>1. CASE pc # "value"
    BY Zenon, <1>1, <1>6, <1>10, <1>11, <1>12, <2>1 DEF kept
  <2>2. CASE pc = "value"
    <3>1. PICK B \in Nat : B = Len(buffer)
      BY <1>2
    <3>2. SubSeq(buffer, B + 1, Len(buffer)) = <<>> /\ b = <<>>
      BY <1>2, <1>6, <2>2, <3>1 DEF kept
    <3>3. Window(b, socket, out, FALSE, st, end, c + B)
      <4>1. Window(buffer, socket, out, FALSE, st, end, c)
        BY Zenon, <1>10, <1>11, <1>12 DEF Window
      <4>2. B \in 0 .. Len(buffer)
        BY <3>1
      <4>3. Window(SubSeq(buffer, B + 1, Len(buffer)), socket, out, FALSE, st, end, c + B)
        BY Zenon, <1>2, <4>1, <4>2, WindowDrop
      <4> QED
        BY Zenon, <3>2, <4>3
    <3>4. PICK k : k = Len(executed) /\ k < Len(frames)
      BY Zenon, <1>10, <2>2 DEF Place
    <3>5. PICK s : s = frames[k + 1].symbols
      BY Zenon
    <3>6. PICK p \in Nat : p = en[k]
      BY <1>10, <3>4 DEF Laid, WInv, Typed
    <3>7. InValue(header, value, s, st, p, c)
      BY Zenon, <1>10, <2>2, <3>4, <3>5, <3>6 DEF Place
    <3>8. PICK i \in 1 .. Len(s) :
            /\ i <= BufferSize /\ LineEnds(s, i)
            /\ header \in headersOf(SubSeq(s, 1, i))
            /\ header.size \in Nat /\ Allocates(header.size)
            /\ Len(value) < header.size + 2
            /\ c = p + i + Len(value)
            /\ Follow(value, st, p + i)
      BY Zenon, <3>7 DEF InValue
    <3>9. i \in Nat /\ p + i \in Nat
      OBVIOUS
    <3>10. Follow(buffer, st, (p + i) + Len(value))
      BY Zenon, <1>10, <3>8 DEF Window
    <3>11. Follow(value \o buffer, st, p + i) /\ Len(value \o buffer) = Len(value) + B
      BY Zenon, <1>2, <3>1, <3>8, <3>9, <3>10, FollowJoined, Joined
    <3>12. Len(value) + B < header.size + 2 /\ c + B = p + i + (Len(value) + B)
      <4>1. B < header.size + 2 - Len(value)
        BY Zenon, <1>1, <2>2, <3>1 DEF Starved, Missing
      <4> QED
        <5>1. PICK v \in Nat : v = Len(value)
          BY <1>2
        <5>2. PICK z \in Nat : z = header.size
          BY Zenon, <3>8
        <5>3. B < z + 2 - v /\ c = p + i + v
          BY Zenon, <3>8, <4>1, <5>1, <5>2
        <5>4. v \in Nat /\ B \in Nat /\ z \in Nat /\ p \in Nat /\ i \in Nat
          BY Zenon, <3>1, <3>6, <3>9, <5>1, <5>2
        <5>5. v + B < z + 2
          BY <5>3, <5>4
        <5>6. c + B = p + i + (v + B)
          BY <5>3, <5>4
        <5> QED
          BY Zenon, <5>1, <5>2, <5>5, <5>6
    <3>13. value' = value \o buffer
      BY Zenon, <1>1, <2>2
    <3>14. InValue(header, value', s, st, p, c + B)
      BY Zenon, <3>8, <3>11, <3>12, <3>13 DEF InValue
    <3>15. Place(pc, header, value', Len(executed), frames, st, en, c + B)
      BY Zenon, <2>2, <3>4, <3>5, <3>6, <3>14 DEF Place
    <3> QED
      BY Zenon, <3>3, <3>15
  <2> QED
    BY Zenon, <2>1, <2>2
<1>14. PICK d : Window(b, socket, out, FALSE, st, end, d) /\ Place(pc, header, value', Len(executed), frames, st, en, d)
  BY Zenon, <1>13
<1>15. Window(b \o SubSeq(socket, 1, n), SubSeq(socket, n + 1, Len(socket)), out, FALSE, st, end, d)
  BY Zenon, <1>2, <1>4, <1>14, WindowFill
<1>16. Window(buffer', socket', out', Broken', st, en[Len(frames')], d)
  BY Zenon, <1>1, <1>5, <1>6, <1>11, <1>12, <1>15 DEF client
<1>17. Laid(frames', st, en) /\ Place(pc', header', value', Len(executed'), frames', st, en, d)
  BY Zenon, <1>1, <1>10, <1>14 DEF client
<1>18. Cut'
  BY <1>16, <1>17, Zenon DEF Cut
<1> QED
  BY Zenon, <1>9, <1>18 DEF WInv

\* A frame with a line is a command of that line, or refused for that line.
LEMMA FrameKinds ==
  ASSUME NEW f \in Frame, NEW n, LineOf(f, n)
  PROVE  \/ WellFormed(f) /\ CommandAt(f, n)
         \/ f.command = NoCommand /\ RefusedAt(f, n)
<1>1. f.symbols \in Seq(Symbol) /\ (WellFormed(f) \/ Refused(f)) /\ n \in DOMAIN f.symbols
  BY Frames DEF LineOf
<1>2. ASSUME NEW m \in DOMAIN f.symbols, LineOf(f, m) PROVE m = n
  <2>1. m \in Nat \ {0} /\ n \in Nat \ {0}
    BY <1>1
  <2> QED
    BY Zenon, <1>2, <2>1, LineEndsOnce DEF LineOf
<1>3. ~ Overlong(f)
  BY <1>1 DEF Overlong, LineOf, LineEnds
<1>4. ASSUME WellFormed(f) PROVE CommandAt(f, n)
  BY <1>2, <1>4, Zenon DEF WellFormed
<1>5. ASSUME Refused(f) PROVE f.command = NoCommand /\ RefusedAt(f, n)
  BY <1>2, <1>3, <1>5, Zenon DEF Refused
<1> QED
  BY Zenon, <1>1, <1>4, <1>5

\* A buffer that begins with a frame and holds an end of line holds its line.
LEMMA LineBuffered ==
  ASSUME NEW f \in Frame, NEW b \in Seq(Symbol), Len(b) <= BufferSize,
         \A j \in 1 .. Len(b) : j <= Len(f.symbols) => b[j] = f.symbols[j],
         NEW i \in DOMAIN b, b[i] = LF
  PROVE  \E n \in DOMAIN b :
           /\ LineOf(f, n) /\ n = CHOOSE e \in DOMAIN b : LineEnds(b, e)
           /\ SubSeq(b, 1, n) = SubSeq(f.symbols, 1, n)
<1>1. f.symbols \in Seq(Symbol) /\ (WellFormed(f) \/ Refused(f)) /\ BufferSize \in Nat
  BY Zenon, Frames, WireAssumption
<1>2. ~ Overlong(f)
  BY <1>1 DEF Overlong
<1>3. PICK n : LineOf(f, n)
  BY <1>1, <1>2, Zenon DEF WellFormed, Refused
<1>4. n \in 1 .. Len(f.symbols) /\ LineEnds(f.symbols, n)
  BY Zenon, <1>3 DEF LineOf
<1>5. PICK s \in Seq(Symbol) : s = f.symbols
  BY Zenon, <1>1
<1>6. /\ n \in DOMAIN b /\ SubSeq(b, 1, n) = SubSeq(s, 1, n)
      /\ (CHOOSE e \in DOMAIN b : LineEnds(b, e)) = n
  BY Zenon, <1>4, <1>5, LineOfPrefix
<1> QED
  BY Zenon, <1>3, <1>5, <1>6

HasBadFrame == \E i \in DOMAIN frames : frames[i].command = NoCommand

\* When a line is being read, what is buffered begins the next frame.
LEMMA AtLine ==
  ASSUME WInv, pc = "line", buffer # <<>>
  PROVE  /\ Len(executed) < Len(frames)
         /\ \A j \in 1 .. Len(buffer) : j <= Len(frames[Len(executed) + 1].symbols) =>
              buffer[j] = frames[Len(executed) + 1].symbols[j]
<1>1. frames \in Seq(Frame) /\ buffer \in Seq(Symbol) /\ out \in Seq(Symbol)
  BY Zenon DEF WInv, Typed
<1>2. PICK st, en, c : /\ Laid(frames, st, en)
                       /\ Window(buffer, socket, out, Broken, st, en[Len(frames)], c)
                       /\ Place(pc, header, value, Len(executed), frames, st, en, c)
  BY DEF WInv, Cut, Ended
<1>3. PICK k : k \in 0 .. Len(frames) /\ k = Len(executed)
  <2>1. Len(executed) \in Nat /\ Len(frames) \in Nat
    BY DEF WInv, Typed
  <2>2. Len(executed) <= Len(frames)
    BY Zenon DEF WInv, Done
  <2> QED
    BY <2>1, <2>2
<1>4. c = en[k]
  BY Zenon, <1>2, <1>3 DEF Place
<1>5. en[k] \in Nat /\ en[k] + Len(buffer) + Len(out) <= en[Len(frames)] /\ Follow(buffer, st, en[k])
  BY Zenon, <1>2, <1>4 DEF Window
<1>6. Len(frames) \in Nat /\ Len(buffer) \in Nat /\ Len(out) \in Nat
  BY <1>1
<1>7. en[Len(frames)] \in Nat
  BY Zenon, <1>2, <1>6 DEF Laid
<1>8. en[k] + Len(buffer) <= en[Len(frames)]
  BY <1>5, <1>6, <1>7
<1> QED
  BY Zenon, <1>1, <1>2, <1>3, <1>5, <1>8, AtFrame

\* A line is read: of a command it is not refused.
LEMMA ReadLineStep ==
  ASSUME WInv, ReadLine
  PROVE  WInv' /\ (clientErrors' = clientErrors \/ HasBadFrame)
<1> DEFINE end == CHOOSE i \in DOMAIN buffer : LineEnds(buffer, i)
           headers == headersOf(SubSeq(buffer, 1, end))
<1>1. /\ pc = "line" /\ HasLine
      /\ buffer' = SubSeq(buffer, end + 1, Len(buffer))
      /\ \/ headers = {} /\ protocolError /\ header' = header
         \/ /\ header' \in headers
            /\ pc' = IF header'.size = NoValue THEN "execute"
                     ELSE IF Allocates(header'.size) THEN "value" ELSE "panicked"
            /\ clientErrors' = clientErrors
      /\ UNCHANGED <<client, link, socket, value, executed>>
  BY Zenon DEF ReadLine
<1>2. /\ frames \in Seq(Frame) /\ buffer \in Seq(Symbol) /\ Len(buffer) <= BufferSize
      /\ socket \in Seq(Symbol) /\ out \in Seq(Symbol)
  BY Zenon DEF WInv, Typed
<1>3. PICK st, en, c : /\ Laid(frames, st, en)
                       /\ Window(buffer, socket, out, Broken, st, en[Len(frames)], c)
                       /\ Place(pc, header, value, Len(executed), frames, st, en, c)
  BY Zenon, <1>1 DEF WInv, Cut, Ended
<1>4. PICK k \in 0 .. Len(frames) : k = Len(executed)
  BY DEF WInv, Done, Typed
<1>5. c = en[k] /\ value = <<>>
  BY Zenon, <1>1, <1>3, <1>4 DEF Place
<1>6. PICK i \in DOMAIN buffer : buffer[i] = LF
  BY Zenon, <1>1 DEF HasLine
<1>7. /\ k < Len(frames)
      /\ \A j \in 1 .. Len(buffer) : j <= Len(frames[k + 1].symbols) => buffer[j] = frames[k + 1].symbols[j]
  <2>1. buffer # <<>>
    BY <1>2, <1>6
  <2> QED
    BY Zenon, <1>1, <1>4, <2>1, AtLine
<1>8. PICK f \in Frame : f = frames[k + 1]
  BY <1>2, <1>4, <1>7
<1>9. PICK n \in DOMAIN buffer :
        LineOf(f, n) /\ n = end /\ SubSeq(buffer, 1, n) = SubSeq(f.symbols, 1, n)
  BY Zenon, <1>2, <1>6, <1>7, <1>8, LineBuffered
<1>10. headers = headersOf(SubSeq(f.symbols, 1, n)) /\ buffer' = SubSeq(buffer, n + 1, Len(buffer))
  BY Zenon, <1>1, <1>9
<1> HIDE DEF end, headers
<1>11. n \in 0 .. Len(buffer) /\ n \in Nat /\ f.symbols \in Seq(Symbol)
  BY SMTT(30), <1>2, <1>9, Frames
<1>12. \/ WellFormed(f) /\ CommandAt(f, n)
       \/ f.command = NoCommand /\ RefusedAt(f, n)
  BY Zenon, <1>9, FrameKinds
<1>13. f.command = NoCommand => HasBadFrame
  BY <1>2, <1>4, <1>7, <1>8 DEF HasBadFrame
<1>14. buffer' \in Seq(Symbol) /\ Len(buffer') <= BufferSize
  <2>1. Len(buffer') = Len(buffer) - n /\ buffer' \in Seq(Symbol)
    BY Zenon, <1>2, <1>10, <1>11, Parts
  <2>2. Len(buffer) \in Nat /\ BufferSize \in Nat
    BY <1>2, WireAssumption
  <2>3. Len(buffer) - n <= BufferSize
    BY <1>2, <1>11, <2>2
  <2> QED
    BY Zenon, <2>1, <2>3
<1>15. Typed' /\ Done(executed', frames') /\ (frames' = <<>> => out' = <<>>)
  <2>1. clientErrors \in Nat /\ clientErrors + 1 \in Nat
    BY DEF WInv, Typed
  <2>2. pc' \in {"closed", "execute", "value", "panicked"} /\ clientErrors' \in Nat
    BY <1>1, <2>1, Zenon DEF protocolError
  <2> QED
    BY Zenon, <1>1, <1>14, <2>2 DEF WInv, Typed, client
<1>16. CASE headers = {} /\ protocolError
  <2>1. Ended'
    BY Zenon, <1>16 DEF protocolError, Ended
  <2>2. f.command = NoCommand
    BY Zenon, <1>10, <1>12, <1>16 DEF CommandAt
  <2> QED
    BY Zenon, <1>13, <1>15, <2>1, <2>2 DEF WInv
<1>17. CASE header' \in headers /\ clientErrors' = clientErrors
            /\ pc' = IF header'.size = NoValue THEN "execute"
                     ELSE IF Allocates(header'.size) THEN "value" ELSE "panicked"
  <2>1. en[k] \in Nat /\ en[Len(frames)] \in Nat /\ en[k + 1] = en[k] + Len(f.symbols)
    <3>1. k \in Nat /\ Len(frames) \in Nat /\ k + 1 \in 1 .. Len(frames) /\ (k + 1) - 1 = k
      BY <1>2, <1>4, <1>7
    <3> QED
      BY Zenon, <1>3, <1>8, <3>1 DEF Laid
  <2>2. Window(buffer', socket, out, Broken, st, en[Len(frames)], en[k] + n)
    <3>1. Window(buffer, socket, out, Broken, st, en[Len(frames)], en[k]) /\ Broken \in BOOLEAN
      BY <1>3, <1>5 DEF Broken
    <3> QED
      BY Zenon, <1>2, <1>10, <1>11, <2>1, <3>1, WindowDrop
  <2>3. header'.size \in Nat \cup {NoValue}
    BY Zenon, <1>10, <1>17, HeaderSizes
  <2>4. ASSUME header'.size = NoValue
        PROVE  Place(pc', header', value, k, frames, st, en, en[k] + n)
    <3>1. WellFormed(f) /\ CommandAt(f, n)
      BY Zenon, <1>10, <1>12, <1>17, <2>4 DEF RefusedAt
    <3>2. header' = f.command.header
      BY Zenon, <1>10, <1>17, <3>1 DEF CommandAt
    <3>3. Len(f.symbols) = n /\ f.command = [header |-> header', value |-> value]
      BY Zenon, <1>5, <2>4, <3>1, <3>2 DEF CommandAt
    <3>4. pc' = "execute"
      BY Zenon, <1>17, <2>4
    <3> QED
      BY Zenon, <1>7, <1>8, <2>1, <3>1, <3>3, <3>4 DEF Place
  <2>5. ASSUME header'.size \in Nat, Allocates(header'.size)
        PROVE  Place(pc', header', value, k, frames, st, en, en[k] + n)
    <3>1. Len(value) = 0 /\ Follow(value, st, en[k] + n)
      BY <1>5 DEF Follow
    <3>2. n \in 1 .. Len(f.symbols) /\ n <= BufferSize /\ LineEnds(f.symbols, n)
      BY Zenon, <1>9 DEF LineOf
    <3>3. Len(value) < header'.size + 2 /\ en[k] + n = en[k] + n + Len(value)
      <4>1. PICK q \in Nat : q = en[k] + n
        BY <1>11, <2>1
      <4>2. PICK z \in Nat : z = header'.size
        BY Zenon, <2>5
      <4>3. 0 < z + 2 /\ q = q + 0
        OBVIOUS
      <4> QED
        BY Zenon, <3>1, <4>1, <4>2, <4>3
    <3>4. InValue(header', value, f.symbols, st, en[k], en[k] + n)
      BY Zenon, <1>10, <1>17, <2>5, <3>1, <3>2, <3>3 DEF InValue
    <3>5. pc' = "value"
      BY <1>17, <2>5 DEF NoValue
    <3> QED
      BY Zenon, <1>7, <1>8, <3>4, <3>5 DEF Place
  <2>6. ~ Ended' => Place(pc', header', value, k, frames, st, en, en[k] + n)
    BY Zenon, <1>17, <2>3, <2>4, <2>5 DEF Ended
  <2>7. ~ Ended' => Cut'
    <3>1. Laid(frames', st, en) /\ Window(buffer', socket', out', Broken', st, en[Len(frames')], en[k] + n)
      BY Zenon, <1>1, <1>3, <2>2 DEF client, Broken
    <3>2. ~ Ended' => Place(pc', header', value', Len(executed'), frames', st, en, en[k] + n)
      BY Zenon, <1>1, <1>4, <2>6 DEF client
    <3> QED
      BY <3>1, <3>2, ZenonT(60) DEF Cut
  <2> QED
    BY Zenon, <1>15, <1>17, <2>7 DEF WInv
<1> QED
  BY Zenon, <1>1, <1>16, <1>17

\* A value is read: of a command it is not refused.
LEMMA ReadValueStep ==
  ASSUME WInv, ReadValue
  PROVE  WInv' /\ (clientErrors' = clientErrors \/ HasBadFrame)
<1> DEFINE read == value \o SubSeq(buffer, 1, Missing)
<1>1. /\ pc = "value" /\ ~ Starved
      /\ buffer' = SubSeq(buffer, Missing + 1, Len(buffer))
      /\ value' = SubSeq(read, 1, header.size)
      /\ IF EndsAt(read, header.size) THEN pc' = "execute" /\ clientErrors' = clientErrors
         ELSE protocolError
      /\ UNCHANGED <<client, link, socket, header, executed>>
  BY Zenon DEF ReadValue
<1>2. /\ frames \in Seq(Frame) /\ buffer \in Seq(Symbol) /\ Len(buffer) <= BufferSize
      /\ socket \in Seq(Symbol) /\ out \in Seq(Symbol) /\ value \in Seq(Symbol)
  BY Zenon DEF WInv, Typed
<1>3. PICK st, en, c : /\ Laid(frames, st, en)
                       /\ Window(buffer, socket, out, Broken, st, en[Len(frames)], c)
                       /\ Place(pc, header, value, Len(executed), frames, st, en, c)
  BY Zenon, <1>1 DEF WInv, Cut, Ended
<1>4. PICK k \in Nat : k \in 0 .. Len(frames) /\ k = Len(executed)
  BY DEF WInv, Done, Typed
<1>5. k < Len(frames) /\ InValue(header, value, frames[k + 1].symbols, st, en[k], c)
  BY Zenon, <1>1, <1>3, <1>4 DEF Place
<1>6. PICK f : f \in Frame /\ f = frames[k + 1]
  BY <1>2, <1>4, <1>5
<1>7. PICK s : s \in Seq(Symbol) /\ s = f.symbols
  BY Zenon, <1>6, Frames
<1>8. /\ k \in Nat /\ Len(frames) \in Nat /\ k + 1 \in 1 .. Len(frames) /\ (k + 1) - 1 = k
  BY <1>2, <1>4, <1>5
<1>9. PICK p \in Nat : p = en[k]
  BY Zenon, <1>3, <1>8 DEF Laid
<1>10. en[k + 1] = p + Len(s) /\ Follow(s, st, p) /\ en[Len(frames)] \in Nat
  BY Zenon, <1>3, <1>6, <1>7, <1>8, <1>9 DEF Laid
<1>11. PICK n \in Nat :
         /\ n \in 1 .. Len(s) /\ n <= BufferSize /\ LineEnds(s, n)
         /\ header \in headersOf(SubSeq(s, 1, n))
         /\ header.size \in Nat /\ Allocates(header.size)
         /\ Len(value) < header.size + 2
         /\ c = p + n + Len(value)
         /\ Follow(value, st, p + n)
  <2>1. InValue(header, value, s, st, p, c)
    BY Zenon, <1>5, <1>6, <1>7, <1>9
  <2>2. 1 .. Len(s) \subseteq Nat
    BY <1>7
  <2> QED
    BY Zenon, <2>1, <2>2 DEF InValue
<1>12. PICK z \in Nat : z = header.size
  BY Zenon, <1>11
<1>13. PICK v \in Nat : v = Len(value)
  BY <1>2
<1>14. PICK m \in Nat : m \in 1 .. Len(buffer) /\ m = Missing
  <2>1. z + 2 - v = Missing
    BY Zenon, <1>12, <1>13 DEF Missing
  <2>2. ~ (Len(buffer) < Missing)
    BY Zenon, <1>1 DEF Starved
  <2>3. Len(buffer) \in Nat /\ v < z + 2
    BY <1>2, <1>11, <1>12, <1>13
  <2>4. ~ (Len(buffer) < z + 2 - v)
    BY Zenon, <2>1, <2>2
  <2>5. z + 2 - v \in 1 .. Len(buffer) /\ z + 2 - v \in Nat
    BY <2>3, <2>4
  <2> QED
    BY <2>1, <2>5
<1>15. n \in Nat /\ m \in Nat /\ m \in 0 .. Len(buffer) /\ v + m = z + 2 /\ c = p + n + v
  <2>1. m = z + 2 - v
    BY Zenon, <1>12, <1>13, <1>14 DEF Missing
  <2>2. n \in Nat /\ m \in Nat /\ m \in 0 .. Len(buffer)
    BY <1>2, <1>7, <1>11, <1>14
  <2>3. v + m = z + 2
    BY <2>1
  <2>4. c = p + n + v
    BY Zenon, <1>11, <1>13
  <2> QED
    BY Zenon, <2>2, <2>3, <2>4
<1>16. PICK r : r \in Seq(Symbol) /\ r = read
  BY Zenon, <1>2, <1>14, <1>15, Parts, Joined
<1>17. Len(r) = z + 2 /\ Follow(r, st, p + n)
  <2>1. PICK x : x \in Seq(Symbol) /\ x = SubSeq(buffer, 1, m)
    BY Zenon, <1>2, <1>15, Parts
  <2>2. r = value \o x
    BY Zenon, <1>14, <1>16, <2>1
  <2>3. Len(x) = m /\ Follow(x, st, c)
    <3>1. c \in Nat /\ Follow(buffer, st, c)
      BY Zenon, <1>3 DEF Window
    <3> QED
      BY ZenonT(30), <1>2, <1>15, <2>1, <3>1, Parts, FollowParts
  <2>4. p + n \in Nat /\ c = (p + n) + Len(value)
    <3>1. p + n \in Nat
      OBVIOUS
    <3> QED
      BY Zenon, <1>13, <1>15, <3>1
  <2>5. Follow(r, st, p + n)
    BY Zenon, <1>2, <1>11, <2>1, <2>2, <2>3, <2>4, FollowJoined
  <2>6. Len(r) = Len(value) + Len(x)
    BY Zenon, <1>2, <2>1, <2>2, Joined
  <2> QED
    BY Zenon, <1>13, <1>15, <2>3, <2>5, <2>6
<1> HIDE DEF read
<1>18. LineOf(f, n)
  BY Zenon, <1>7, <1>11 DEF LineOf
<1>19. \/ WellFormed(f) /\ CommandAt(f, n)
       \/ f.command = NoCommand /\ RefusedAt(f, n)
  BY Zenon, <1>6, <1>18, FrameKinds
<1>20. Len(s) >= n + z + 2 /\ Len(s) \in Nat
  <2>1. Len(s) \in Nat /\ header \in headersOf(SubSeq(f.symbols, 1, n)) /\ Allocates(z) /\ z # NoValue
    BY SMTT(30), <1>7, <1>11, <1>12 DEF NoValue
  <2>2. CASE CommandAt(f, n)
    <3>1. header = f.command.header
      BY Zenon, <2>1, <2>2 DEF CommandAt
    <3> QED
      BY <1>7, <1>12, <1>15, <2>1, <2>2, <3>1 DEF CommandAt
  <2>3. CASE RefusedAt(f, n)
    BY Zenon, <1>7, <1>12, <2>1, <2>3 DEF RefusedAt
  <2> QED
    BY Zenon, <1>19, <2>1, <2>2, <2>3
<1>21. \A j \in 1 .. z + 2 : r[j] = s[n + j]
  <2> TAKE j \in 1 .. z + 2
  <2>1. r[j] = st[(p + n) + j]
    BY Zenon, <1>17 DEF Follow
  <2>2. n + j \in 1 .. Len(s) /\ (p + n) + j = p + (n + j)
    <3>1. j \in Nat /\ 1 <= j /\ j <= z + 2
      OBVIOUS
    <3> QED
      BY <1>20, <3>1
  <2>3. st[p + (n + j)] = s[n + j]
    BY Zenon, <1>10, <2>2 DEF Follow
  <2> QED
    BY Zenon, <2>1, <2>2, <2>3
<1>22. EndsAt(r, z) <=> EndsAt(s, n + z)
  <2>1. r[z + 1] = s[n + z + 1] /\ r[z + 2] = s[n + z + 2]
    <3>1. /\ z + 1 \in 1 .. z + 2 /\ z + 2 \in 1 .. z + 2
          /\ n + (z + 1) = n + z + 1 /\ n + (z + 2) = n + z + 2
      OBVIOUS
    <3> QED
      BY <1>21, <3>1
  <2> QED
    BY Zenon, <2>1 DEF EndsAt
<1>23. f.command = NoCommand => HasBadFrame
  BY <1>2, <1>6, <1>8 DEF HasBadFrame
<1>24. /\ buffer' \in Seq(Symbol) /\ Len(buffer') <= BufferSize
       /\ value' \in Seq(Symbol) /\ value' = SubSeq(r, 1, z)
       /\ buffer' = SubSeq(buffer, m + 1, Len(buffer))
  <2>1. buffer' = SubSeq(buffer, m + 1, Len(buffer)) /\ value' = SubSeq(r, 1, z)
    BY Zenon, <1>1, <1>12, <1>14, <1>16
  <2>2. Len(buffer') = Len(buffer) - m /\ buffer' \in Seq(Symbol)
    BY Zenon, <1>2, <1>15, <2>1, Parts
  <2>3. z \in 0 .. Len(r)
    BY <1>12, <1>17
  <2>4. value' \in Seq(Symbol)
    BY Zenon, <1>16, <2>1, <2>3, Parts
  <2>5. Len(buffer) \in Nat /\ BufferSize \in Nat
    BY <1>2, WireAssumption
  <2>6. Len(buffer) - m <= BufferSize
    BY <1>2, <1>15, <2>5
  <2> QED
    BY <2>1, <2>2, <2>4, <2>6
<1>25. Typed' /\ Done(executed', frames') /\ (frames' = <<>> => out' = <<>>)
  <2>1. pc' \in {"execute", "closed"} /\ clientErrors' \in Nat
    <3>1. clientErrors \in Nat /\ clientErrors + 1 \in Nat
      BY DEF WInv, Typed
    <3> QED
      BY <1>1, <3>1, Zenon DEF protocolError
  <2> QED
    BY Zenon, <1>1, <1>24, <2>1 DEF WInv, Typed, client
<1>26. CASE ~ EndsAt(r, z)
  <2>1. Ended'
    BY Zenon, <1>1, <1>12, <1>16, <1>26 DEF protocolError, Ended
  <2>2. f.command = NoCommand
    <3>1. ASSUME CommandAt(f, n) PROVE FALSE
      <4>1. header = f.command.header /\ z # NoValue
        BY <1>7, <1>11, <1>12, <3>1 DEF CommandAt, NoValue
      <4>2. EndsAt(s, n + z)
        BY Zenon, <1>7, <1>12, <3>1, <4>1 DEF CommandAt
      <4> QED
        BY Zenon, <1>22, <1>26, <4>2
    <3> QED
      BY Zenon, <1>19, <3>1
  <2> QED
    BY Zenon, <1>23, <1>25, <2>1, <2>2 DEF WInv
<1>27. CASE EndsAt(r, z)
  <2>1. pc' = "execute" /\ clientErrors' = clientErrors
    BY Zenon, <1>1, <1>12, <1>16, <1>27
  <2>2. WellFormed(f) /\ CommandAt(f, n)
    BY ZenonT(30), <1>7, <1>11, <1>12, <1>19, <1>22, <1>27 DEF RefusedAt
  <2>3. /\ header = f.command.header /\ Len(s) = n + z + 2 /\ f.command.value = SubSeq(s, n + 1, n + z)
        /\ f.command = [header |-> f.command.header, value |-> f.command.value]
    <3>1. header = f.command.header /\ z # NoValue
      BY <1>7, <1>11, <1>12, <2>2 DEF CommandAt, NoValue
    <3> QED
      BY Zenon, <1>7, <1>12, <2>2, <3>1 DEF CommandAt
  <2>4. value' = f.command.value
    <3>1. SubSeq(r, 1, z) = [j \in 1 .. z |-> r[j]]
      BY <1>12, <1>16, <1>17
    <3>2. SubSeq(s, n + 1, n + z) = [j \in 1 .. z |-> s[n + j]]
      <4>1. n + z <= Len(s)
        BY <1>20
      <4> QED
        BY Zenon, <1>7, <4>1, Middle
    <3>3. \A j \in 1 .. z : r[j] = s[n + j]
      BY <1>12, <1>21
    <3> QED
      BY Zenon, <1>24, <2>3, <3>1, <3>2, <3>3
  <2>5. Window(buffer', socket, out, Broken, st, en[Len(frames)], c + m) /\ c + m = en[k + 1]
    <3>1. Broken \in BOOLEAN
      BY DEF Broken
    <3>2. Window(buffer', socket, out, Broken, st, en[Len(frames)], c + m)
      <4>1. m \in 0 .. Len(buffer) /\ buffer' = SubSeq(buffer, m + 1, Len(buffer))
        BY Zenon, <1>15, <1>24
      <4> QED
        BY ZenonT(30), <1>2, <1>3, <1>10, <3>1, <4>1, WindowDrop
    <3>3. c + m = en[k + 1]
      <4>1. (p + n + v) + m = p + (n + z + 2)
        BY <1>15
      <4> QED
        BY <1>10, <1>15, <2>3, <4>1
    <3> QED
      BY <3>2, <3>3
  <2>6. f.command = [header |-> header, value |-> value']
    BY <2>3, <2>4
  <2>7. Place(pc', header, value', k, frames, st, en, c + m)
    BY Zenon, <1>5, <1>6, <2>1, <2>2, <2>5, <2>6 DEF Place
  <2>8. Laid(frames', st, en) /\ Window(buffer', socket', out', Broken', st, en[Len(frames')], c + m)
    BY Zenon, <1>1, <1>3, <2>5 DEF client, Broken
  <2>9. Place(pc', header', value', Len(executed'), frames', st, en, c + m)
    BY Zenon, <1>1, <1>4, <2>7 DEF client
  <2>10. Cut'
    BY <2>8, <2>9, Zenon DEF Cut
  <2> QED
    BY Zenon, <1>25, <2>1, <2>10 DEF WInv
<1> QED
  BY Zenon, <1>26, <1>27

\* A command is executed, and it is the next one the client sent.
LEMMA ExecuteStep ==
  ASSUME WInv, Execute
  PROVE  WInv'
<1>1. /\ pc = "execute" /\ executed' = Append(executed, [header |-> header, value |-> value])
      /\ value' = <<>> /\ pc' \in {"arm", "closed"}
      /\ UNCHANGED <<client, link, socket, buffer, clientErrors>>
  BY Zenon DEF Execute
<1>2. PICK st, en, c : /\ Laid(frames, st, en)
                       /\ Window(buffer, socket, out, Broken, st, en[Len(frames)], c)
                       /\ Place(pc, header, value, Len(executed), frames, st, en, c)
  BY Zenon, <1>1 DEF WInv, Cut, Ended
<1>3. PICK k \in 0 .. Len(frames) : k = Len(executed)
  BY DEF WInv, Done, Typed
<1>4. /\ k < Len(frames) /\ c = en[k + 1] /\ WellFormed(frames[k + 1])
      /\ frames[k + 1].command = [header |-> header, value |-> value]
  BY ZenonT(60), <1>1, <1>2, <1>3 DEF Place
<1>5. frames \in Seq(Frame) /\ executed \in Seq({f.command : f \in Frame}) /\ frames[k + 1] \in Frame
  BY <1>3, <1>4 DEF WInv, Typed
<1>6. PICK cmd \in {f.command : f \in Frame} : cmd = frames[k + 1].command /\ executed' = Append(executed, cmd)
  BY Zenon, <1>1, <1>4, <1>5
<1>7. /\ executed' \in Seq({f.command : f \in Frame}) /\ Len(executed') = k + 1 /\ executed'[k + 1] = cmd
      /\ \A i \in 1 .. k : executed'[i] = executed[i]
  BY <1>3, <1>5, <1>6
<1>8. Done(executed', frames')
  <2>1. \A i \in 1 .. k : WellFormed(frames[i]) /\ executed[i] = frames[i].command
    BY Zenon, <1>3 DEF WInv, Done
  <2>2. frames' = frames /\ Len(frames) \in Nat /\ k \in Nat
    BY <1>1, <1>3, <1>5 DEF client
  <2>3. k + 1 <= Len(frames)
    BY <1>4, <2>2
  <2>4. ASSUME NEW i \in 1 .. k + 1 PROVE WellFormed(frames[i]) /\ executed'[i] = frames[i].command
    <3>1. i \in 1 .. k \/ i = k + 1
      BY <2>2
    <3> QED
      BY Zenon, <1>4, <1>6, <1>7, <2>1, <3>1
  <2> QED
    BY Zenon, <1>7, <2>2, <2>3, <2>4 DEF Done
<1>9. Typed' /\ (frames' = <<>> => out' = <<>>)
  BY <1>1, <1>7 DEF WInv, Typed, client
<1>10. ~ Ended' => Place(pc', header', value', Len(executed'), frames', st, en, c)
  BY Zenon, <1>1, <1>4, <1>7 DEF Place, Ended
<1>11. Laid(frames', st, en) /\ Window(buffer', socket', out', Broken', st, en[Len(frames')], c)
  BY Zenon, <1>1, <1>2 DEF client, Broken
<1>12. ~ Ended' => Cut'
  BY <1>10, <1>11, Zenon DEF Cut
<1> QED
  BY Zenon, <1>8, <1>9, <1>12 DEF WInv

\* A line that fills the buffer is not the line of a command.
LEMMA LineTooLongStep ==
  ASSUME WInv, LineTooLong
  PROVE  WInv' /\ HasBadFrame
<1>1. /\ pc = "line" /\ ~ HasLine /\ Len(buffer) = BufferSize /\ protocolError
      /\ UNCHANGED <<client, link, socket, parser, executed>>
  BY Zenon DEF LineTooLong
<1>2. frames \in Seq(Frame) /\ buffer \in Seq(Symbol) /\ socket \in Seq(Symbol) /\ clientErrors \in Nat
  BY Zenon DEF WInv, Typed
<1>3. WInv'
  <2>1. pc' = "closed" /\ Ended' /\ clientErrors' \in Nat
    BY <1>1, <1>2 DEF protocolError, Ended
  <2> QED
    BY Zenon, <1>1, <1>2, <2>1, IdleSteps
<1>4. BufferSize \in Nat \ {0} /\ buffer # <<>>
  BY Zenon, <1>1, <1>2, WireAssumption
<1>5. PICK k : k \in 0 .. Len(frames) /\ k = Len(executed)
  BY DEF WInv, Done, Typed
<1>6. /\ k < Len(frames)
      /\ \A j \in 1 .. Len(buffer) : j <= Len(frames[k + 1].symbols) => buffer[j] = frames[k + 1].symbols[j]
  BY Zenon, <1>1, <1>4, <1>5, AtLine
<1>7. PICK f : f \in Frame /\ f = frames[k + 1] /\ k + 1 \in DOMAIN frames
  BY <1>2, <1>5, <1>6
<1>8. ~ WellFormed(f)
  <2>1. SUFFICES ASSUME NEW n, LineOf(f, n) PROVE FALSE
    BY Zenon DEF WellFormed
  <2>2. n \in 1 .. Len(f.symbols) /\ n <= BufferSize /\ f.symbols[n] = LF
    BY Zenon, <2>1 DEF LineOf, LineEnds
  <2>3. Len(f.symbols) \in Nat
    BY Zenon, <1>7, Frames
  <2>4. n \in 1 .. Len(buffer) /\ n <= Len(f.symbols)
    BY <1>1, <1>4, <2>2, <2>3
  <2>5. buffer[n] = LF /\ n \in DOMAIN buffer
    BY <1>2, <1>6, <1>7, <2>2, <2>4
  <2> QED
    BY Zenon, <1>1, <2>5 DEF HasLine
<1>9. f.command = NoCommand
  BY Zenon, <1>7, <1>8, Frames DEF Refused
<1> QED
  BY Zenon, <1>3, <1>7, <1>9 DEF HasBadFrame

\* A read that fails ends the session.
LEMMA ReadErrorStep ==
  ASSUME WInv, ReadError
  PROVE  WInv' /\ (clientErrors' = clientErrors \/ (pc = "value" /\ ReadFails) \/ Broken)
<1>1. /\ ReadFails /\ pc' = "closed" /\ UNCHANGED <<client, socket, parser, executed>>
      /\ \/ clientErrors' = clientErrors
         \/ (pc = "value" \/ Broken) /\ clientErrors' = clientErrors + 1
  BY Zenon DEF ReadError, protocolError
<1>2. socket \in Seq(Symbol) /\ clientErrors \in Nat
  BY Zenon DEF WInv, Typed
<1>3. Ended' /\ clientErrors' \in Nat
  BY <1>1, <1>2 DEF Ended
<1>4. WInv'
  BY Zenon, <1>1, <1>2, <1>3, IdleSteps
<1> QED
  BY Zenon, <1>1, <1>4

Quiet ==
  clientErrors' > clientErrors => HasBadFrame \/ (pc = "value" /\ ReadFails) \/ Broken

\* Every step keeps the invariant and counts no error of a client that made none.
LEMMA NextKeeps ==
  ASSUME WInv, [Next]_vars
  PROVE  WInv' /\ Quiet
<1>1. socket \in Seq(Symbol) /\ clientErrors \in Nat /\ ~ (clientErrors > clientErrors) /\ <<>> \in Seq(Symbol)
      /\ pc \in {"starting", "exited", "arm", "line", "value", "execute", "closed", "panicked"}
  BY DEF WInv, Typed
<1>2. clientErrors' = clientErrors => Quiet
  BY Zenon, <1>1 DEF Quiet
<1>3. ASSUME NEW file \in ConfigFile, Start(file) PROVE WInv' /\ Quiet
  <2>1. /\ pc = "starting" /\ pc' \in {"arm", "exited"}
        /\ UNCHANGED <<client, link, socket, parser, executed, clientErrors>>
    BY Zenon, <1>3 DEF Start
  <2> QED
    BY Zenon, <1>1, <1>2, <2>1, IdleSteps DEF Ended, Broken
<1>4. ASSUME NEW f \in Frame, Begin(f) PROVE WInv' /\ Quiet
  BY Zenon, <1>2, <1>4, BeginStep DEF Begin
<1>5. ASSUME NEW n \in 1 .. Len(out), Send(n) PROVE WInv' /\ Quiet
  BY Zenon, <1>2, <1>5, SendStep DEF Send
<1>6. ASSUME NEW how \in {"hungup", "reset"}, Leave(how) PROVE WInv' /\ Quiet
  <2>1. /\ ~ Ended /\ pc' = pc /\ socket' = IF how = "reset" THEN <<>> ELSE socket
        /\ link = "up" /\ link' = how /\ UNCHANGED <<client, parser, executed, clientErrors>>
    BY Zenon, <1>6 DEF Leave
  <2>2. Broken' \/ (~ Broken /\ socket' = socket)
    BY Zenon, <1>6, <2>1 DEF Broken
  <2> QED
    BY <1>1, <1>2, <2>1, <2>2, IdleSteps
<1>7. ASSUME Tick \/ Sweep PROVE WInv' /\ Quiet
  <2>1. /\ ~ Ended /\ ~ Broken /\ pc' = pc /\ UNCHANGED <<client, link, socket, parser, executed, clientErrors>>
    BY Zenon, <1>7 DEF Tick, Sweep, Reading, Ended
  <2> QED
    BY Zenon, <1>1, <1>2, <2>1, IdleSteps DEF Broken
<1>8. ASSUME ForceClose PROVE WInv' /\ Quiet
  <2>1. /\ ~ Ended /\ Broken' /\ pc' = pc /\ socket' = <<>> /\ UNCHANGED <<client, parser, executed, clientErrors>>
    BY Zenon, <1>8 DEF ForceClose, Broken
  <2> QED
    BY Zenon, <1>1, <1>2, <2>1, IdleSteps
<1>9. ASSUME Arm PROVE WInv' /\ Quiet
  <2>1. pc = "arm" /\ pc' = "line" /\ UNCHANGED <<client, link, socket, parser, executed, clientErrors>>
    BY Zenon, <1>9 DEF Arm
  <2>2. Broken' = Broken
    BY Zenon, <2>1 DEF Broken
  <2> QED
    BY Zenon, <1>1, <1>2, <2>1, <2>2, IdleSteps DEF Ended
<1>10. ASSUME Fill PROVE WInv' /\ Quiet
  BY Zenon, <1>2, <1>10, FillStep DEF Fill
<1>11. ASSUME ReadLine PROVE WInv' /\ Quiet
  BY Zenon, <1>2, <1>11, ReadLineStep DEF Quiet
<1>12. ASSUME LineTooLong PROVE WInv' /\ Quiet
  BY Zenon, <1>12, LineTooLongStep DEF Quiet
<1>13. ASSUME ReadValue PROVE WInv' /\ Quiet
  BY <1>2, <1>13, ReadValueStep DEF Quiet
<1>14. ASSUME ReadError PROVE WInv' /\ Quiet
  BY Zenon, <1>2, <1>14, ReadErrorStep DEF Quiet
<1>15. ASSUME Execute PROVE WInv' /\ Quiet
  BY Zenon, <1>2, <1>15, ExecuteStep DEF Execute
<1>16. ASSUME UNCHANGED vars PROVE WInv' /\ Quiet
  BY Zenon, <1>2, <1>16 DEF WInv, Typed, Ended, Cut, Broken, vars, client, parser
<1> QED
  BY ZenonT(30), <1>3, <1>4, <1>5, <1>6, <1>7, <1>8, <1>9, <1>10, <1>11, <1>12, <1>13, <1>14, <1>15, <1>16
  DEF Next, Serve, Terminated

\* Before Start nothing is sent, buffered or executed.
LEMMA InitKeeps ==
  ASSUME Init
  PROVE  WInv
<1>1. /\ pc = "starting" /\ frames = <<>> /\ out = <<>> /\ link = "up" /\ socket = <<>>
      /\ buffer = <<>> /\ value = <<>> /\ executed = <<>> /\ clientErrors = 0
  BY Zenon DEF Init
<1>2. BufferSize \in Nat
  BY Zenon, WireAssumption
<1>3. Typed /\ Done(executed, frames)
  BY <1>1, <1>2 DEF Typed, Done
<1>4. Cut
  <2> DEFINE en == [i \in Nat |-> 0]
  <2>1. Laid(frames, <<>>, en)
    BY <1>1 DEF Laid
  <2>2. Window(buffer, socket, out, Broken, <<>>, en[Len(frames)], 0)
    BY <1>1 DEF Window, Follow
  <2>3. Place(pc, header, value, Len(executed), frames, <<>>, en, 0)
    BY Zenon, <1>1 DEF Place
  <2> QED
    BY <2>1, <2>2, <2>3, Zenon DEF Cut
<1> QED
  BY Zenon, <1>1, <1>3, <1>4 DEF WInv

\* The invariant holds in every reachable state.
LEMMA Invariance == Spec => []WInv
<1>1. WInv /\ [Next]_vars => WInv'
  BY NextKeeps
<1> QED
  BY <1>1, InitKeeps, PTL DEF Spec

\* A session ends quietly for a client that sent well-formed commands: the
\* theorem for QuietEnds, for every set of frames and every size of the buffer.
THEOREM EndsAreQuiet == Spec => QuietEnds
<1>1. WInv /\ [Next]_vars =>
        [ clientErrors' > clientErrors =>
            \/ \E i \in DOMAIN frames : frames[i].command = NoCommand
            \/ pc = "value" /\ ReadFails
            \/ Broken ]_vars
  BY Zenon, NextKeeps DEF Quiet, HasBadFrame
<1> QED
  BY <1>1, Invariance, PTL DEF Spec, QuietEnds

-----------------------------------------------------------------------------
(***************************************************************************)
(* The refinement.  GoodFrames and SentCommands as operators of the frames *)
(* and of how many are whole, so that they can be compared across a step.  *)
(***************************************************************************)
Good(fs, w, n) ==
  /\ \A i \in 1 .. n : fs[i].command # NoCommand
  /\ n < w => fs[n + 1].command = NoCommand

GoodOf(fs, w) == CHOOSE n \in 0 .. w : Good(fs, w, n)

SentOf(fs, w) == [i \in 1 .. GoodOf(fs, w) |-> fs[i].command]

\* The commands sent, before and after a step, as a function of the frames.
LEMMA SentIs ==
  /\ SentCommands = SentOf(frames, WholeFrames)
  /\ SentCommands' = SentOf(frames', WholeFrames')
BY Zenon DEF SentCommands, SentOf, GoodFrames, GoodOf, Good

\* One number only is that of the frames before the first refused one.
LEMMA GoodOnce ==
  ASSUME NEW fs, NEW w \in Nat, NEW n \in 0 .. w, NEW m \in 0 .. w, Good(fs, w, n), Good(fs, w, m)
  PROVE  n = m
<1>1. ASSUME NEW x \in 0 .. w, NEW y \in 0 .. w, Good(fs, w, x), Good(fs, w, y), x < y PROVE FALSE
  <2>1. x < w /\ x + 1 \in 1 .. y
    BY <1>1
  <2> QED
    BY Zenon, <1>1, <2>1 DEF Good
<1> QED
  BY <1>1

\* There is such a number.
LEMMA GoodExists ==
  ASSUME NEW fs, NEW w \in Nat
  PROVE  GoodOf(fs, w) \in 0 .. w /\ Good(fs, w, GoodOf(fs, w))
<1> DEFINE T == {j \in 0 .. w : j < w => fs[j + 1].command = NoCommand}
<1>1. w \in T /\ T \in SUBSET Nat
  OBVIOUS
<1>2. PICK n \in T : \A y \in T : n <= y
  BY Zenon, <1>1, Least
<1>3. n \in 0 .. w /\ n \in Nat /\ (n < w => fs[n + 1].command = NoCommand)
  BY <1>2
<1>4. ASSUME NEW i \in 1 .. n PROVE fs[i].command # NoCommand
  <2>1. i - 1 \in 0 .. w /\ i - 1 < w /\ (i - 1) + 1 = i /\ ~ (n <= i - 1)
    BY <1>3
  <2>2. i - 1 \notin T
    BY Zenon, <1>2, <2>1
  <2> QED
    BY Zenon, <2>1, <2>2
<1>5. Good(fs, w, n)
  BY Zenon, <1>3, <1>4 DEF Good
<1> QED
  BY Zenon, <1>3, <1>5 DEF GoodOf

\* The commands sent depend on the whole frames alone.
LEMMA SentAgrees ==
  ASSUME NEW fs, NEW gs, NEW w \in Nat, \A i \in 1 .. w : fs[i] = gs[i]
  PROVE  SentOf(fs, w) = SentOf(gs, w)
<1>1. PICK n \in 0 .. w : n = GoodOf(fs, w) /\ Good(fs, w, n)
  BY Zenon, GoodExists
<1>2. PICK m \in 0 .. w : m = GoodOf(gs, w) /\ Good(gs, w, m)
  BY Zenon, GoodExists
<1>3. \A i \in 1 .. n : i \in 1 .. w
  OBVIOUS
<1>4. n < w => n + 1 \in 1 .. w
  OBVIOUS
<1>5. Good(gs, w, n)
  BY Zenon, <1>1, <1>3, <1>4 DEF Good
<1>6. n = m
  BY Zenon, <1>2, <1>5, GoodOnce
<1> QED
  BY Zenon, <1>1, <1>2, <1>3, <1>6 DEF SentOf

\* One more whole frame is one more command, or none after a malformed one.
LEMMA SentGrows ==
  ASSUME NEW fs, NEW w \in Nat
  PROVE  \/ SentOf(fs, w + 1) = SentOf(fs, w)
         \/ /\ fs[w + 1].command # NoCommand
            /\ SentOf(fs, w + 1) = Append(SentOf(fs, w), fs[w + 1].command)
<1>1. PICK n \in 0 .. w : n = GoodOf(fs, w) /\ Good(fs, w, n)
  BY Zenon, GoodExists
<1>2. PICK m \in 0 .. w + 1 : m = GoodOf(fs, w + 1) /\ Good(fs, w + 1, m)
  BY GoodExists
<1>3. CASE n < w \/ fs[w + 1].command = NoCommand
  <2>1. n \in 0 .. w + 1 /\ (~ (n < w) => n = w)
    OBVIOUS
  <2>2. Good(fs, w + 1, n)
    BY Zenon, <1>1, <1>3, <2>1 DEF Good
  <2>3. n = m
    BY <1>2, <2>1, <2>2, GoodOnce
  <2> QED
    BY Zenon, <1>1, <1>2, <2>3 DEF SentOf
<1>4. CASE n = w /\ fs[w + 1].command # NoCommand
  <2>1. w + 1 \in 0 .. w + 1 /\ ~ (w + 1 < w + 1)
    OBVIOUS
  <2>2. \A i \in 1 .. w + 1 : i \in 1 .. w \/ i = w + 1
    OBVIOUS
  <2>3. Good(fs, w + 1, w + 1)
    BY Zenon, <1>1, <1>4, <2>1, <2>2 DEF Good
  <2>4. m = w + 1
    BY <1>2, <2>1, <2>3, GoodOnce
  <2>5. SentOf(fs, w) = [i \in 1 .. w |-> fs[i].command] /\ SentOf(fs, w + 1) = [i \in 1 .. w + 1 |-> fs[i].command]
    BY Zenon, <1>1, <1>2, <1>4, <2>4 DEF SentOf
  <2>6. Append([i \in 1 .. w |-> fs[i].command], fs[w + 1].command) = [i \in 1 .. w + 1 |-> fs[i].command]
    OBVIOUS
  <2> QED
    BY Zenon, <1>4, <2>5, <2>6
<1> QED
  BY <1>3, <1>4

\* A step that leaves the client and what is executed alone, and may end the
\* session.
LEMMA QuietStep ==
  ASSUME UNCHANGED <<client, executed>>, ~ Ended \/ UNCHANGED pc
  PROVE  [Framed!Next]_Framed!vars
<1>1. SentCommands' = SentCommands /\ executed' = executed
  BY DEF client, SentCommands, GoodFrames, WholeFrames
<1>2. CASE Ended' = Ended
  BY Zenon, <1>1, <1>2 DEF Framed!vars
<1>3. CASE ~ Ended /\ Ended'
  BY Zenon, <1>1, <1>3 DEF Framed!Next, Framed!End
<1> QED
  BY <1>2, <1>3 DEF Ended

\* A frame that is begun is not yet sent.
LEMMA BeginMaps ==
  ASSUME WInv, NEW f \in Frame, Begin(f)
  PROVE  UNCHANGED Framed!vars
<1>1. /\ out = <<>> /\ frames' = Append(frames, f) /\ out' = f.symbols /\ UNCHANGED <<pc, executed>>
  BY Zenon DEF Begin
<1>2. frames \in Seq(Frame) /\ out' # <<>>
  BY Zenon, <1>1, FrameAssumption DEF WInv, Typed
<1>3. PICK w \in Nat : w = Len(frames)
  BY <1>2
<1>4. Len(frames') = w + 1 /\ \A i \in 1 .. w : frames[i] = frames'[i]
  BY <1>1, <1>2, <1>3
<1>5. WholeFrames = w /\ WholeFrames' = w
  BY <1>1, <1>2, <1>3, <1>4 DEF WholeFrames
<1>6. SentCommands' = SentCommands
  BY Zenon, <1>4, <1>5, SentIs, SentAgrees
<1> QED
  BY Zenon, <1>1, <1>6 DEF Framed!vars, Ended

\* The last symbol of a frame sends its command; the others send nothing.
LEMMA SendMaps ==
  ASSUME WInv, NEW n \in 1 .. Len(out), Send(n)
  PROVE  [Framed!Next]_Framed!vars
<1>1. frames' = frames /\ UNCHANGED <<pc, executed>> /\ (Ended' = Ended)
  BY Zenon DEF Send, Ended
<1>2. frames \in Seq(Frame) /\ out \in Seq(Symbol) /\ out # <<>> /\ frames # <<>>
  BY DEF WInv, Typed
<1>3. PICK w \in Nat : Len(frames) = w + 1
  <2>1. Len(frames) \in Nat \ {0}
    BY <1>2
  <2>2. Len(frames) - 1 \in Nat /\ Len(frames) = (Len(frames) - 1) + 1
    BY <2>1
  <2> QED
    BY Zenon, <2>2
<1>4. WholeFrames = w /\ WholeFrames' \in {w, w + 1}
  BY <1>1, <1>2, <1>3 DEF WholeFrames
<1>5. \/ SentCommands' = SentCommands
      \/ /\ frames[w + 1].command # NoCommand
         /\ SentCommands' = Append(SentCommands, frames[w + 1].command)
  BY Zenon, <1>1, <1>4, SentIs, SentGrows
<1>6. frames[w + 1] \in Frame
  BY <1>2, <1>3
<1>7. CASE SentCommands' = SentCommands
  BY Zenon, <1>1, <1>7 DEF Framed!vars
<1>8. CASE /\ frames[w + 1].command # NoCommand
           /\ SentCommands' = Append(SentCommands, frames[w + 1].command)
  <2>1. Framed!Send(frames[w + 1].command)
    BY Zenon, <1>1, <1>8 DEF Framed!Send
  <2>2. frames[w + 1].command \in {f.command : f \in Frame} \ {NoCommand}
    BY Zenon, <1>6, <1>8
  <2> QED
    BY Zenon, <2>1, <2>2 DEF Framed!Next
<1> QED
  BY Zenon, <1>5, <1>7, <1>8

\* The frame that is executed was sent to its end, and so were those before it.
LEMMA ExecuteMaps ==
  ASSUME WInv, Execute
  PROVE  Framed!Execute
<1>1. /\ pc = "execute" /\ executed' = Append(executed, [header |-> header, value |-> value])
      /\ UNCHANGED client
  BY Zenon DEF Execute
<1>2. frames \in Seq(Frame) /\ out \in Seq(Symbol) /\ buffer \in Seq(Symbol)
  BY Zenon DEF WInv, Typed
<1>3. PICK st, en, c : /\ Laid(frames, st, en)
                       /\ Window(buffer, socket, out, Broken, st, en[Len(frames)], c)
                       /\ Place(pc, header, value, Len(executed), frames, st, en, c)
  BY Zenon, <1>1 DEF WInv, Cut, Ended
<1>4. PICK k \in Nat : k = Len(executed)
  BY DEF WInv, Typed
<1>5. /\ k < Len(frames) /\ c = en[k + 1] /\ WellFormed(frames[k + 1])
      /\ frames[k + 1].command = [header |-> header, value |-> value]
  BY Zenon, <1>1, <1>3, <1>4 DEF Place
<1>6. PICK L \in Nat : L = Len(frames) /\ k + 1 <= L
  BY <1>2, <1>5
<1>7. PICK w \in Nat : w = WholeFrames /\ k + 1 <= w
  <2>1. CASE out = <<>>
    BY Zenon, <1>6, <2>1 DEF WholeFrames
  <2>2. CASE out # <<>>
    <3>1. Len(out) \in Nat \ {0} /\ Len(buffer) \in Nat
      BY <1>2, <2>2
    <3>2. en[k + 1] \in Nat /\ en[L] \in Nat /\ en[k + 1] + Len(buffer) + Len(out) <= en[L]
      BY Zenon, <1>3, <1>5, <1>6 DEF Window, Laid
    <3>3. k + 1 # L
      BY <3>1, <3>2
    <3>4. L - 1 \in Nat /\ k + 1 <= L - 1
      BY <1>6, <3>3
    <3> QED
      BY Zenon, <1>6, <2>2, <3>4 DEF WholeFrames
  <2> QED
    BY Zenon, <2>1, <2>2
<1>8. \A i \in 1 .. k + 1 : frames[i].command # NoCommand
  <2>1. \A i \in 1 .. k : WellFormed(frames[i])
    BY Zenon, <1>4 DEF WInv, Done
  <2>2. \A i \in 1 .. k + 1 : i \in 1 .. k \/ i = k + 1
    OBVIOUS
  <2> QED
    BY ZenonT(60), <1>5, <2>1, <2>2 DEF WellFormed
<1>9. PICK g \in 0 .. w : g = GoodOf(frames, w) /\ Good(frames, w, g)
  BY Zenon, GoodExists
<1>10. k + 1 <= g
  <2>1. ASSUME g <= k PROVE FALSE
    <3>1. g < w /\ g + 1 \in 1 .. k + 1
      BY <1>7, <2>1
    <3> QED
      BY Zenon, <1>8, <1>9, <3>1 DEF Good
  <2> QED
    BY <2>1
<1>11. SentCommands = [i \in 1 .. g |-> frames[i].command]
  BY Zenon, <1>7, <1>9, SentIs DEF SentOf
<1>12. k < Len(SentCommands) /\ SentCommands[k + 1] = frames[k + 1].command
  <2>1. k + 1 \in 1 .. g /\ k < g
    BY <1>10
  <2>2. Len([i \in 1 .. g |-> frames[i].command]) = g
    OBVIOUS
  <2> QED
    BY Zenon, <1>11, <2>1, <2>2
<1>13. executed' = Append(executed, SentCommands[Len(executed) + 1])
  BY Zenon, <1>1, <1>4, <1>5, <1>12
<1>14. SentCommands' = SentCommands
  BY ZenonT(30), <1>1 DEF client, SentCommands, GoodFrames, WholeFrames
<1> QED
  BY Zenon, <1>1, <1>4, <1>12, <1>13, <1>14 DEF Framed!Execute, Ended

\* Every step of a connection is a step of Framing or none.
LEMMA NextMaps ==
  ASSUME WInv, [Next]_vars
  PROVE  [Framed!Next]_Framed!vars
<1>1. ASSUME NEW f \in Frame, Begin(f) PROVE [Framed!Next]_Framed!vars
  BY Zenon, <1>1, BeginMaps
<1>2. ASSUME NEW n \in 1 .. Len(out), Send(n) PROVE [Framed!Next]_Framed!vars
  BY Zenon, <1>2, SendMaps
<1>3. ASSUME Execute PROVE [Framed!Next]_Framed!vars
  BY Zenon, <1>3, ExecuteMaps DEF Framed!Next
<1>4. ASSUME (\E file \in ConfigFile : Start(file)) \/ Arm \/ Fill \/ ReadLine \/ LineTooLong \/ ReadValue \/ ReadError
      PROVE  [Framed!Next]_Framed!vars
  <2>1. ~ Ended /\ UNCHANGED <<client, executed>>
    BY Zenon, <1>4 DEF Start, Arm, Fill, ReadLine, LineTooLong, ReadValue, ReadError, Reading, Ended
  <2> QED
    BY Zenon, <2>1, QuietStep
<1>5. ASSUME (\E how \in {"hungup", "reset"} : Leave(how)) \/ Tick \/ Sweep \/ ForceClose \/ UNCHANGED vars
      PROVE  [Framed!Next]_Framed!vars
  <2>1. UNCHANGED pc /\ UNCHANGED <<client, executed>>
    BY <1>5 DEF Leave, Tick, Sweep, ForceClose, vars
  <2> QED
    BY Zenon, <2>1, QuietStep
<1> QED
  BY Zenon, <1>1, <1>2, <1>3, <1>4, <1>5 DEF Next, Serve, Terminated

\* serveConn and ReadCommand implement Framing: the theorem for
\* ImplementsFraming, for every set of frames, every content of their values,
\* every way the stream is cut, and every size of the buffers.
THEOREM Refinement == Spec => ImplementsFraming
<1>1. Init => Framed!Init
  <2>1. ASSUME Init PROVE Framed!Init
    <3>1. frames = <<>> /\ executed = <<>> /\ ~ Ended /\ WholeFrames = 0
      BY Zenon, <2>1 DEF Init, Ended, WholeFrames
    <3>2. GoodOf(frames, 0) = 0
      BY GoodExists
    <3>3. SentCommands = <<>>
      BY <3>1, <3>2, SentIs DEF SentOf
    <3> QED
      BY Zenon, <3>1, <3>3 DEF Framed!Init
  <2> QED
    BY Zenon, <2>1
<1>2. WInv /\ [Next]_vars => [Framed!Next]_Framed!vars
  BY Zenon, NextMaps
<1> QED
  BY <1>1, <1>2, Invariance, PTL DEF Spec, ImplementsFraming, Framed!Spec

-----------------------------------------------------------------------------
(***************************************************************************)
(* The configuration.  Load's loop is a recursive function; that one       *)
(* exists, and what its values have in common, is shown with a least       *)
(* counterexample.                                                         *)
(***************************************************************************)
\* What the loop holds after each of the first m lines.
LoadedTo(lines, m, g) ==
  /\ g = [n \in 0 .. m |-> g[n]]
  /\ \A n \in 0 .. m : g[n] = IF n = 0 THEN {Default} ELSE loadLine(g[n - 1], lines[n])

\* The loop over the lines of a file has a run of any length.
LEMMA LoopRuns ==
  ASSUME NEW lines, NEW N \in Nat
  PROVE  \E g : LoadedTo(lines, N, g)
<1> DEFINE T == {m \in Nat : ~ \E g : LoadedTo(lines, m, g)}
<1> SUFFICES ASSUME T # {} PROVE FALSE
  BY Zenon
<1>1. PICK m \in T : \A y \in T : m <= y
  BY Zenon, Least
<1>2. CASE m = 0
  <2> DEFINE g == [n \in 0 .. 0 |-> {Default}]
  <2>1. LoadedTo(lines, 0, g)
    BY DEF LoadedTo
  <2> QED
    BY <1>2, <2>1
<1>3. CASE m # 0
  <2>1. m \in Nat /\ m - 1 \in Nat /\ m - 1 \notin T
    BY <1>1, <1>3
  <2>2. PICK f : LoadedTo(lines, m - 1, f)
    BY Zenon, <2>1
  <2> DEFINE g == [n \in 0 .. m |-> IF n = m THEN loadLine(f[m - 1], lines[m]) ELSE f[n]]
  <2>3. g = [n \in 0 .. m |-> g[n]]
    BY Zenon
  <2>4. ASSUME NEW n \in 0 .. m
        PROVE  g[n] = IF n = 0 THEN {Default} ELSE loadLine(g[n - 1], lines[n])
    <3>1. CASE n = m
      <4>1. g[n] = loadLine(f[m - 1], lines[m]) /\ g[n - 1] = f[m - 1]
        BY <1>3, <2>1, <3>1
      <4> QED
        BY Zenon, <1>3, <3>1, <4>1
    <3>2. CASE n # m
      <4>1. n \in 0 .. m - 1 /\ g[n] = f[n] /\ (n # 0 => n - 1 \in 0 .. m /\ n - 1 # m)
        BY <2>1, <3>2
      <4>2. n # 0 => g[n - 1] = f[n - 1]
        BY Zenon, <4>1
      <4>3. f[n] = IF n = 0 THEN {Default} ELSE loadLine(f[n - 1], lines[n])
        BY Zenon, <2>2, <4>1 DEF LoadedTo
      <4> QED
        BY Zenon, <4>1, <4>2, <4>3
    <3> QED
      BY Zenon, <3>1, <3>2
  <2> HIDE DEF g
  <2>5. LoadedTo(lines, m, g)
    BY Zenon, <2>3, <2>4 DEF LoadedTo
  <2> QED
    BY <1>1, <2>5
<1> QED
  BY Zenon, <1>2, <1>3

\* The accepted configurations are those of the loop's last value.
LEMMA LoadIsLoop ==
  ASSUME NEW lines \in Seq(ConfigLine), NEW c \in Load(lines)
  PROVE  validate(c) /\ \E g : LoadedTo(lines, Len(lines), g) /\ c \in g[Len(lines)]
<1> DEFINE N == Len(lines)
           body(f) == [n \in 0 .. N |-> IF n = 0 THEN {Default} ELSE loadLine(f[n - 1], lines[n])]
           after == CHOOSE f : f = body(f)
<1>1. N \in Nat
  OBVIOUS
<1>2. validate(c) /\ c \in after[N]
  BY Zenon DEF Load
<1> HIDE DEF N
<1>3. PICK g : LoadedTo(lines, N, g)
  BY Zenon, <1>1, LoopRuns
<1>4. g = body(g)
  BY Zenon, <1>3 DEF LoadedTo
<1>5. after = body(after)
  BY Zenon, <1>4
<1> HIDE DEF after
<1>6. LoadedTo(lines, N, after)
  BY ZenonT(30), <1>5 DEF LoadedTo
<1> QED
  BY <1>2, <1>6 DEF N

\* A configuration has the fields of Default, and integers in those that are
\* numbers or durations.
IsConfig(c) ==
  /\ DOMAIN c = DOMAIN Default
  /\ \A f \in IntField \cup DurationField : c[f] \in Int

\* The defaults have the types of the fields.
LEMMA DefaultIsConfig == IsConfig(Default)
BY DEF IsConfig, Default, IntField, DurationField

\* A parsed field has the type of its key.
LEMMA setFieldKeepsConfig ==
  ASSUME NEW c, IsConfig(c), NEW key, NEW v \in FieldValue, NEW d \in setField(c, key, v)
  PROVE  IsConfig(d)
<1>1. v.int \subseteq Int /\ v.dur \subseteq Int
  BY Zenon DEF FieldValue
<1>2. ASSUME NEW n \in Int, d = [c EXCEPT ![key] = n] PROVE IsConfig(d)
  BY <1>2 DEF IsConfig
<1>3. CASE key \in IntField
  <2>1. PICK n \in v.int : d = [c EXCEPT ![key] = n]
    BY <1>3 DEF setField, IntField, DurationField, TextField
  <2> QED
    BY Zenon, <1>1, <1>2, <2>1
<1>4. CASE key \in DurationField
  <2>1. PICK n \in v.dur : d = [c EXCEPT ![key] = n]
    BY <1>4 DEF setField, IntField, DurationField, TextField
  <2> QED
    BY Zenon, <1>1, <1>2, <2>1
<1>5. CASE key \in TextField
  <2>1. d = [c EXCEPT ![key] = v.text] /\ key \notin IntField \cup DurationField
    BY Zenon, <1>5 DEF setField, IntField, DurationField, TextField
  <2> QED
    BY <2>1 DEF IsConfig
<1>6. CASE key \notin IntField \cup DurationField \cup TextField
  BY Zenon, <1>6 DEF setField
<1> QED
  BY Zenon, <1>3, <1>4, <1>5, <1>6

\* A line of the file keeps the types of the fields.
LEMMA loadLineKeepsConfig ==
  ASSUME NEW cs, \A c \in cs : IsConfig(c), NEW line \in ConfigLine, NEW d \in loadLine(cs, line)
  PROVE  IsConfig(d)
<1>1. CASE line.kind = "skipped"
  BY <1>1 DEF loadLine
<1>2. CASE line.kind = "malformed"
  BY <1>2 DEF loadLine
<1>3. CASE line \in [kind : {"entry"}, key : STRING, value : FieldValue]
  <2>1. line.kind = "entry" /\ line.value \in FieldValue
    BY Zenon, <1>3
  <2>2. PICK c \in cs : d \in setField(c, line.key, line.value)
    BY Zenon, <2>1 DEF loadLine
  <2> QED
    BY <2>1, <2>2, setFieldKeepsConfig
<1> QED
  BY <1>1, <1>2, <1>3 DEF ConfigLine, Skipped, Malformed

\* What Load accepts is a configuration that passed validate.
LEMMA LoadedIsConfig ==
  ASSUME NEW lines \in Seq(ConfigLine), NEW c \in Load(lines)
  PROVE  IsConfig(c) /\ validate(c)
<1>1. PICK g : LoadedTo(lines, Len(lines), g) /\ c \in g[Len(lines)]
  BY Zenon, LoadIsLoop
<1>2. PICK N \in Nat : N = Len(lines)
  OBVIOUS
<1> DEFINE T == {n \in 0 .. N : \E d \in g[n] : ~ IsConfig(d)}
<1>3. T = {}
  <2> SUFFICES ASSUME T # {} PROVE FALSE
    BY Zenon
  <2>1. PICK m \in T : \A y \in T : m <= y
    <3>1. T \in SUBSET Nat
      OBVIOUS
    <3> HIDE DEF T
    <3> QED
      BY Zenon, <3>1, Least
  <2>2. PICK d \in g[m] : ~ IsConfig(d)
    BY Zenon, <2>1
  <2>3. m \in 0 .. N /\ g[m] = IF m = 0 THEN {Default} ELSE loadLine(g[m - 1], lines[m])
    BY Zenon, <1>1, <1>2, <2>1 DEF LoadedTo
  <2>4. CASE m = 0
    BY Zenon, <2>2, <2>3, <2>4, DefaultIsConfig
  <2>5. CASE m # 0
    <3>1. m - 1 \in 0 .. N /\ m - 1 \notin T /\ m \in 1 .. Len(lines)
      BY <1>2, <2>1, <2>3, <2>5
    <3>2. lines[m] \in ConfigLine /\ \A e \in g[m - 1] : IsConfig(e)
      BY <3>1
    <3>3. d \in loadLine(g[m - 1], lines[m])
      BY Zenon, <2>2, <2>3, <2>5
    <3> QED
      BY Zenon, <2>2, <3>2, <3>3, loadLineKeepsConfig
  <2> QED
    BY Zenon, <2>4, <2>5
<1>4. IsConfig(c)
  BY <1>1, <1>2, <1>3
<1> QED
  BY Zenon, <1>4, LoadIsLoop

-----------------------------------------------------------------------------
(***************************************************************************)
(* The rest of the type, and what main hands to the store and the server.  *)
(* One error at most is counted for a connection, because counting it ends *)
(* the session.                                                            *)
(***************************************************************************)
CInv ==
  /\ IsConfig(cfg) /\ (pc \notin {"starting", "exited"} => validate(cfg))
  /\ Len(frames) <= MaxFrames
  /\ link \in {"up", "hungup", "reset", "closed"}
  /\ clientErrors \in 0 .. 1 /\ (clientErrors = 1 => Ended)

\* main starts from the defaults.
LEMMA InitCInv == Init => CInv
<1> SUFFICES ASSUME Init PROVE CInv
  OBVIOUS
<1>1. IsConfig(cfg) /\ pc = "starting"
  BY Zenon, DefaultIsConfig DEF Init
<1>2. Len(frames) <= MaxFrames
  BY WireAssumption DEF Init
<1> QED
  BY <1>1, <1>2 DEF Init, CInv

\* Every step keeps the rest of the type, and the configuration.
LEMMA NextCInv ==
  ASSUME WInv, CInv, [Next]_vars
  PROVE  CInv'
<1>1. frames \in Seq(Frame) /\ Len(frames) \in Nat
  BY DEF WInv, Typed
<1>2. ASSUME NEW file \in ConfigFile, Start(file) PROVE CInv'
  <2>1. cfg' \in Load(file) => IsConfig(cfg') /\ validate(cfg')
    BY Zenon, WireAssumption, LoadedIsConfig
  <2>2. /\ pc = "starting" /\ pc' \in {"arm", "exited"} /\ ~ Ended
        /\ cfg' = cfg \/ cfg' \in Load(file)
        /\ pc' = "exited" \/ cfg' \in Load(file)
        /\ UNCHANGED <<frames, link, clientErrors>>
    BY Zenon, <1>2 DEF Start, client, Ended
  <2>3. IsConfig(cfg') /\ (pc' \notin {"starting", "exited"} => validate(cfg'))
    BY Zenon, <2>1, <2>2 DEF CInv
  <2> QED
    BY Zenon, <2>2, <2>3 DEF CInv, Ended
<1>3. ASSUME NEW f \in Frame, Begin(f) PROVE CInv'
  <2>1. /\ Len(frames) < MaxFrames /\ frames' = Append(frames, f)
        /\ UNCHANGED <<pc, cfg, link, clientErrors>>
    BY Zenon, <1>3 DEF Begin
  <2>2. Len(frames') <= MaxFrames
    BY <1>1, <2>1, WireAssumption
  <2> QED
    BY Zenon, <2>1, <2>2 DEF CInv, Ended
<1>4. ASSUME cfg' = cfg, frames' = frames, link' \in {"up", "hungup", "reset", "closed"},
             pc \notin {"starting", "exited"} \/ pc' = pc,
             \/ clientErrors' = clientErrors /\ (pc' = pc \/ ~ Ended)
             \/ clientErrors' = clientErrors + 1 /\ ~ Ended /\ Ended'
      PROVE  CInv'
  <2>1. IsConfig(cfg') /\ (pc' \notin {"starting", "exited"} => validate(cfg'))
    BY Zenon, <1>4 DEF CInv
  <2>2. clientErrors' \in 0 .. 1 /\ (clientErrors' = 1 => Ended')
    BY <1>4 DEF CInv, Ended
  <2> QED
    BY Zenon, <1>4, <2>1, <2>2 DEF CInv
<1>5. ASSUME NEW n \in 1 .. Len(out), Send(n) PROVE CInv'
  BY Zenon, <1>4, <1>5 DEF Send, CInv
<1>6. ASSUME NEW how \in {"hungup", "reset"}, Leave(how) PROVE CInv'
  BY Zenon, <1>4, <1>6 DEF Leave, CInv, client
<1>7. CASE Tick \/ Sweep \/ ForceClose
  BY Zenon, <1>4, <1>7 DEF Tick, Sweep, ForceClose, CInv, client
<1>8. CASE Serve
  <2>1. cfg' = cfg /\ frames' = frames /\ link' = link /\ pc \notin {"starting", "exited"} /\ ~ Ended
    BY Zenon, <1>8 DEF Serve, Arm, Fill, ReadLine, LineTooLong, ReadValue, ReadError, Execute,
                Reading, Ended, client
  <2>2. \/ clientErrors' = clientErrors
        \/ clientErrors' = clientErrors + 1 /\ pc' = "closed"
    BY Zenon, <1>8 DEF Serve, Arm, Fill, ReadLine, LineTooLong, ReadValue, ReadError, Execute, protocolError
  <2> QED
    BY Zenon, <1>4, <2>1, <2>2 DEF CInv, Ended
<1>9. CASE UNCHANGED vars
  BY Zenon, <1>9 DEF vars, client, CInv, Ended
<1> QED
  BY ZenonT(30), <1>2, <1>3, <1>5, <1>6, <1>7, <1>8, <1>9 DEF Next, Terminated

\* Both hold in every reachable state.
LEMMA ConfigInvariance == Spec => []CInv
BY InitCInv, NextCInv, Invariance, PTL DEF Spec

-----------------------------------------------------------------------------
(***************************************************************************)
(* Time: what is left to the deadline and what has passed since it was set *)
(* never add up to more than the idle timeout, unless Shutdown put the     *)
(* deadline into the past.                                                 *)
(***************************************************************************)
TimeInv ==
  /\ deadline \in Nat \cup {NoDeadline} /\ elapsed \in Nat
  /\ cfg.IdleTimeout > 0 /\ Reading => deadline = 0 \/ (deadline > 0 /\ deadline + elapsed <= cfg.IdleTimeout)

\* No command is being read at first.
LEMMA InitTimeInv == Init => TimeInv
BY DEF Init, TimeInv, Reading

\* Only the top of the loop sets a deadline ahead, and it starts the count anew.
LEMMA NextTimeInv ==
  ASSUME CInv, TimeInv, [Next]_vars
  PROVE  TimeInv'
<1>1. cfg.IdleTimeout \in Int
  BY DEF CInv, IsConfig, DurationField
<1>2. ASSUME NEW file \in ConfigFile, Start(file) PROVE TimeInv'
  <2>1. ~ Reading' /\ UNCHANGED <<deadline, elapsed>>
    BY <1>2 DEF Start, Reading
  <2> QED
    BY Zenon, <2>1 DEF TimeInv, NoDeadline
<1>3. ASSUME UNCHANGED <<cfg, deadline, elapsed>>, Reading' => Reading PROVE TimeInv'
  BY Zenon, <1>3 DEF TimeInv, NoDeadline
<1>4. CASE Tick
  <2>1. /\ deadline > 0 /\ deadline' = deadline - 1 /\ elapsed' = elapsed + 1
        /\ cfg' = cfg /\ Reading
    BY Zenon, <1>4 DEF Tick
  <2> QED
    BY <1>1, <2>1 DEF TimeInv, NoDeadline
<1>5. CASE Sweep
  <2>1. deadline' = 0 /\ elapsed' = elapsed
    BY Zenon, <1>5 DEF Sweep
  <2> QED
    BY <2>1 DEF TimeInv
<1>6. CASE Arm
  <2>1. /\ deadline' = IF cfg.IdleTimeout > 0 THEN cfg.IdleTimeout ELSE deadline
        /\ elapsed' = 0 /\ cfg' = cfg
    BY Zenon, <1>6 DEF Arm
  <2> QED
    BY <1>1, <2>1 DEF TimeInv
<1>7. CASE Fill \/ ReadLine \/ LineTooLong \/ ReadValue \/ ReadError \/ Execute
  <2>1. UNCHANGED <<cfg, deadline, elapsed>>
    BY Zenon, <1>7 DEF Fill, ReadLine, LineTooLong, ReadValue, ReadError, Execute
  <2>2. Reading' => Reading
    BY Zenon, <1>7 DEF Fill, ReadLine, LineTooLong, ReadValue, ReadError, Execute, protocolError, Reading
  <2> QED
    BY Zenon, <1>3, <2>1, <2>2
<1>8. ASSUME \/ \E f \in Frame : Begin(f)
             \/ \E n \in 1 .. Len(out) : Send(n)
             \/ \E how \in {"hungup", "reset"} : Leave(how)
             \/ ForceClose
             \/ UNCHANGED vars
      PROVE  TimeInv'
  <2>1. UNCHANGED <<cfg, deadline, elapsed>> /\ pc' = pc
    BY Zenon, <1>8 DEF Begin, Send, Leave, ForceClose, vars
  <2> QED
    BY Zenon, <1>3, <2>1 DEF Reading
<1> QED
  BY ZenonT(30), <1>2, <1>4, <1>5, <1>6, <1>7, <1>8 DEF Next, Serve, Terminated

\* It holds in every reachable state.
LEMMA TimeInvariance == Spec => []TimeInv
BY InitTimeInv, NextTimeInv, ConfigInvariance, PTL DEF Spec

\* Whatever the idle timeout, and however slowly a client sends its command: once
\* the command is being read for that long, the next read fails and serveConn
\* ends the session.
THEOREM ReadsInTime == Spec => []~ Overdue
<1>1. CInv /\ TimeInv => ~ Overdue
  <2> SUFFICES ASSUME CInv, TimeInv, cfg.IdleTimeout > 0, Reading, elapsed >= cfg.IdleTimeout
               PROVE  deadline = 0
    BY Zenon DEF Overdue, ReadFails
  <2>1. cfg.IdleTimeout \in Int
    BY DEF CInv, IsConfig, DurationField
  <2>2. /\ deadline \in Nat \cup {NoDeadline} /\ elapsed \in Nat
        /\ deadline = 0 \/ (deadline > 0 /\ deadline + elapsed <= cfg.IdleTimeout)
    BY Zenon DEF TimeInv
  <2> QED
    BY <2>1, <2>2 DEF NoDeadline
<1> QED
  BY <1>1, ConfigInvariance, TimeInvariance, PTL

\* The state is well typed: Missing is positive while a value is read, so
\* io.ReadFull is never asked for nothing, and a connection is counted in
\* clientErrors once at most.
THEOREM TypeCorrect == Spec => []TypeOK
<1>1. WInv /\ CInv /\ TimeInv => TypeOK
  <2> SUFFICES ASSUME WInv, CInv, TimeInv PROVE TypeOK
    BY Zenon
  <2>1. ASSUME pc = "value" PROVE Missing > 0
    <3>1. Cut
      BY Zenon, <2>1 DEF WInv, Ended
    <3>2. header.size \in Nat /\ Len(value) < header.size + 2
      BY Zenon, <2>1, <3>1 DEF Cut, Place, InValue
    <3>3. Len(value) \in Nat
      BY DEF WInv, Typed
    <3> QED
      BY <3>2, <3>3 DEF Missing
  <2> QED
    BY Zenon, <2>1 DEF WInv, Typed, CInv, TimeInv, IsConfig, TypeOK
<1> QED
  BY <1>1, Invariance, ConfigInvariance, TimeInvariance, PTL

\* validate leaves nothing for normalizeConfig to replace, for every file.
THEOREM ConfigIsUsed == Spec => []AcceptedConfigIsUsed
<1>1. CInv => AcceptedConfigIsUsed
  <2> SUFFICES ASSUME IsConfig(cfg), validate(cfg)
               PROVE  /\ \A f \in DOMAIN normalizeConfig(cfg) : normalizeConfig(cfg)[f] = cfg[f]
                      /\ {cfg.IdleTimeout, cfg.ShutdownTimeout, cfg.CleanupInterval, cfg.MaxConnections}
                           \subseteq Nat
                      /\ TLSEnabled(cfg) \/ (cfg.TLSCert = "" /\ cfg.TLSKey = "")
    BY Zenon DEF CInv, AcceptedConfigIsUsed
  <2>1. /\ cfg.Shards \in Int /\ cfg.MaxValueBytes \in Int /\ cfg.MaxMemoryBytes \in Int
        /\ cfg.ItemOverheadBytes \in Int /\ cfg.MaxConnections \in Int
        /\ cfg.CleanupInterval \in Int /\ cfg.IdleTimeout \in Int /\ cfg.ShutdownTimeout \in Int
    BY DEF IsConfig, IntField, DurationField
  <2>2. /\ cfg.MaxValueBytes > 0 /\ cfg.MaxMemoryBytes > 0 /\ cfg.ItemOverheadBytes >= 0
        /\ cfg.Shards > 0 /\ cfg.CleanupInterval >= 0
        /\ cfg.IdleTimeout >= 0 /\ cfg.MaxConnections >= 0 /\ cfg.ShutdownTimeout >= 0
    BY Zenon DEF validate
  <2>3. TLSEnabled(cfg) \/ (cfg.TLSCert = "" /\ cfg.TLSKey = "")
    BY Zenon DEF validate, TLSEnabled
  <2>4. {cfg.IdleTimeout, cfg.ShutdownTimeout, cfg.CleanupInterval, cfg.MaxConnections} \subseteq Nat
    <3>1. cfg.IdleTimeout \in Nat /\ cfg.ShutdownTimeout \in Nat
      BY <2>1, <2>2
    <3>2. cfg.CleanupInterval \in Nat /\ cfg.MaxConnections \in Nat
      BY <2>1, <2>2
    <3> QED
      BY Zenon, <3>1, <3>2
  <2>5. normalizeConfig(cfg) =
          [MaxValueBytes |-> cfg.MaxValueBytes, MaxMemoryBytes |-> cfg.MaxMemoryBytes,
           ItemOverheadBytes |-> cfg.ItemOverheadBytes, Shards |-> cfg.Shards]
    <3>1. /\ ~ (cfg.MaxValueBytes <= 0) /\ ~ (cfg.MaxMemoryBytes <= 0)
          /\ ~ (cfg.ItemOverheadBytes < 0) /\ ~ (cfg.Shards <= 0)
      BY <2>1, <2>2
    <3> QED
      BY Zenon, <3>1 DEF normalizeConfig
  <2>6. \A f \in DOMAIN normalizeConfig(cfg) : normalizeConfig(cfg)[f] = cfg[f]
    BY <2>5
  <2> QED
    BY Zenon, <2>3, <2>4, <2>6
<1> QED
  BY <1>1, ConfigInvariance, PTL
=============================================================================

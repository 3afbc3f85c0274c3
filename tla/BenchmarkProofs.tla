-------------------------- MODULE BenchmarkProofs --------------------------
(***************************************************************************)
(* Proofs about the benchmark program: the slices of the workers partition *)
(* the keys, the read phase begins when every key is written once, no      *)
(* connection is left open, and the results count every key, for any       *)
(* number of keys, workers and services.                                   *)
(***************************************************************************)
EXTENDS Benchmark, FiniteSetTheorems, TLAPS

-----------------------------------------------------------------------------
\* total is shared out: each worker gets base keys, the first extra one more.
LEMMA Shares ==
  ASSUME NEW n \in Nat, NEW c \in Nat \ {0}
  PROVE  /\ n \div c \in Nat /\ n % c \in 0 .. c - 1
         /\ n = (n \div c) * c + (n % c)
  OBVIOUS

\* A larger factor gives a larger product.
LEMMA Products ==
  ASSUME NEW u \in Nat, NEW v \in Nat, NEW b \in Nat, u <= v
  PROVE  u * b <= v * b /\ u * b \in Nat
  OBVIOUS

\* The key after the last of a worker is the first of the next one, or beyond.
LEMMA SlicesOrdered ==
  ASSUME NEW n \in Nat, NEW c \in Nat \ {0}, NEW v \in 0 .. c - 1, NEW w \in 0 .. v - 1
  PROVE  workerSlice(n, c, w)[2] <= workerSlice(n, c, v)[1]
<1> DEFINE b == n \div c
           e == n % c
<1>1. b \in Nat /\ e \in 0 .. c - 1
  BY Zenon, Shares
<1>2. workerSlice(n, c, w)[2] = w * b + (IF w < e THEN w ELSE e) + b + (IF w < e THEN 1 ELSE 0)
  BY DEF workerSlice
<1>3. workerSlice(n, c, v)[1] = v * b + (IF v < e THEN v ELSE e)
  BY DEF workerSlice
<1> HIDE DEF b, e
<1>4. (w + 1) * b <= v * b /\ (w + 1) * b = w * b + b
  BY <1>1, Products
<1>5. w * b \in Nat /\ v * b \in Nat
  BY <1>1
<1> QED
  BY <1>1, <1>2, <1>3, <1>4, <1>5

\* A slice lies within the keys.
LEMMA SliceWithin ==
  ASSUME NEW n \in Nat, NEW c \in Nat \ {0}, NEW w \in 0 .. c - 1
  PROVE  /\ workerSlice(n, c, w)[1] \in Nat /\ workerSlice(n, c, w)[2] \in Nat
         /\ workerSlice(n, c, w)[1] <= workerSlice(n, c, w)[2]
         /\ workerSlice(n, c, w)[2] <= n
<1> DEFINE b == n \div c
           e == n % c
<1>1. b \in Nat /\ e \in 0 .. c - 1 /\ n = b * c + e
  BY Zenon, Shares
<1>2. /\ workerSlice(n, c, w)[1] = w * b + (IF w < e THEN w ELSE e)
      /\ workerSlice(n, c, w)[2] = w * b + (IF w < e THEN w ELSE e) + b + (IF w < e THEN 1 ELSE 0)
  BY DEF workerSlice
<1> HIDE DEF b, e
<1>3. (w + 1) * b <= c * b /\ (w + 1) * b = w * b + b /\ c * b = b * c
  BY <1>1, Products
<1>4. w * b \in Nat /\ c * b \in Nat
  BY <1>1
<1> QED
  BY <1>1, <1>2, <1>3, <1>4

\* The worker a key belongs to.
LEMMA SlicesCover ==
  ASSUME NEW n \in Nat, NEW c \in Nat \ {0}, c <= n, NEW i \in 0 .. n - 1
  PROVE  \E w \in 0 .. c - 1 : workerSlice(n, c, w)[1] <= i /\ i < workerSlice(n, c, w)[2]
<1> DEFINE b == n \div c
           e == n % c
           slice(w) == workerSlice(n, c, w)
<1>1. b \in Nat /\ e \in 0 .. c - 1 /\ n = b * c + e
  BY Zenon, Shares
<1>2. ASSUME NEW w \in 0 .. c - 1
      PROVE  /\ slice(w)[1] = w * b + (IF w < e THEN w ELSE e)
             /\ slice(w)[2] = w * b + (IF w < e THEN w ELSE e) + b + (IF w < e THEN 1 ELSE 0)
  BY DEF workerSlice
<1>3. b > 0
  BY <1>1
<1> HIDE DEF b, e, slice
<1>4. CASE i < e * (b + 1)
  <2> DEFINE w == i \div (b + 1)
             r == i % (b + 1)
  <2>1. w \in Nat /\ r \in 0 .. b /\ i = w * (b + 1) + r
    <3>1. i \in Nat /\ b + 1 \in Nat \ {0} /\ (b + 1) - 1 = b
      BY <1>1
    <3>2. r \in 0 .. (b + 1) - 1 /\ w \in Nat /\ i = w * (b + 1) + r
      BY <3>1, Shares, Zenon
    <3> QED
      BY <3>1, <3>2, Zenon
  <2> HIDE DEF w, r
  <2>2. w < e
    <3>1. SUFFICES ASSUME e <= w PROVE FALSE
      BY <1>1, <2>1
    <3>2. e * (b + 1) <= w * (b + 1) /\ e * (b + 1) \in Nat
      BY <1>1, <2>1, <3>1, Products
    <3> QED
      BY <1>1, <1>4, <2>1, <3>2
  <2>3. w * (b + 1) = w * b + w /\ w * b \in Nat
    BY <1>1, <2>1
  <2>4. w \in 0 .. c - 1
    BY <1>1, <2>1, <2>2
  <2>5. slice(w)[1] = w * b + w /\ slice(w)[2] = w * b + w + b + 1
    BY <1>2, <2>2, <2>4
  <2>6. slice(w)[1] <= i /\ i < slice(w)[2]
    BY <1>1, <2>1, <2>3, <2>5
  <2> QED
    BY <2>4, <2>6 DEF slice
<1>5. CASE i >= e * (b + 1)
  <2> DEFINE j == i - e * (b + 1)
             q == j \div b
             r == j % b
             w == e + q
  <2>1. e * (b + 1) \in Nat /\ e * (b + 1) = e * b + e
    BY <1>1
  <2>2. j \in Nat /\ i = j + e * b + e
    <3> DEFINE x == e * (b + 1)
               y == e * b
    <3>1. x \in Nat /\ y \in Nat /\ x = y + e /\ i >= x
      BY <1>1, <1>5, <2>1
    <3>2. j = i - x
      OBVIOUS
    <3> HIDE DEF x, y, j
    <3>3. j \in Nat /\ i = j + y + e
      BY <1>1, <3>1, <3>2
    <3> QED
      BY <3>3 DEF y
  <2> HIDE DEF j
  <2>3. q \in Nat /\ r \in 0 .. b - 1 /\ j = q * b + r
    BY <1>1, <1>3, <2>2, Shares
  <2> HIDE DEF q, r
  <2>4. w * b = e * b + q * b /\ e * b \in Nat /\ q * b \in Nat /\ w \in Nat
    BY <1>1, <2>3
  <2>5. w < c
    <3>1. SUFFICES ASSUME c <= w PROVE FALSE
      BY <1>1, <2>4
    <3>2. c * b <= w * b /\ c * b = b * c
      BY <1>1, <2>4, <3>1, Products
    <3> QED
      BY <1>1, <2>2, <2>3, <2>4, <3>2
  <2>6. w \in 0 .. c - 1 /\ ~ (w < e)
    BY <1>1, <2>3, <2>4, <2>5
  <2>7. slice(w)[1] = w * b + e /\ slice(w)[2] = w * b + e + b + 0
    BY <1>2, <2>6
  <2> HIDE DEF w
  <2>8. slice(w)[1] <= i /\ i < slice(w)[2]
    BY <1>1, <2>2, <2>3, <2>4, <2>7
  <2> QED
    BY <2>6, <2>8 DEF slice
<1> QED
  BY <1>1, <1>4, <1>5

\* Every key belongs to exactly one worker.
THEOREM SlicesPartitionKeys ==
  ASSUME NEW n \in Nat, NEW c \in Nat \ {0}, c <= n, NEW i \in 0 .. n - 1
  PROVE  \E w \in 0 .. c - 1 : \A v \in 0 .. c - 1 :
           (workerSlice(n, c, v)[1] <= i /\ i < workerSlice(n, c, v)[2]) <=> v = w
<1> DEFINE In(v) == workerSlice(n, c, v)[1] <= i /\ i < workerSlice(n, c, v)[2]
<1>1. PICK w \in 0 .. c - 1 : In(w)
  BY Zenon, SlicesCover
<1>2. ASSUME NEW v \in 0 .. c - 1, NEW u \in 0 .. v - 1, In(v), In(u) PROVE FALSE
  <2>1. u \in 0 .. c - 1
    OBVIOUS
  <2> QED
    <3>1. workerSlice(n, c, u)[2] <= workerSlice(n, c, v)[1]
      BY Zenon, SlicesOrdered
    <3>2. workerSlice(n, c, u)[2] \in Nat /\ workerSlice(n, c, v)[1] \in Nat
      BY Zenon, <2>1, SliceWithin
    <3>3. workerSlice(n, c, v)[1] <= i /\ i < workerSlice(n, c, u)[2]
      BY Zenon, <1>2
    <3> QED
      BY <3>1, <3>2, <3>3
<1> HIDE DEF In
<1>3. ASSUME NEW v \in 0 .. c - 1, In(v) PROVE v = w
  <2>1. v \in 0 .. w - 1 \/ w \in 0 .. v - 1 \/ v = w
    OBVIOUS
  <2> QED
    BY <1>1, <1>2, <1>3, <2>1
<1> QED
  BY <1>1, <1>3 DEF In

\* percentile returns the nearest rank: the least sample with p percent of the
\* samples up to it.
THEOREM PercentileIsNearest ==
  ASSUME NEW n \in Nat \ {0}, NEW p \in 1 .. 100
  PROVE  /\ percentileIndex(n, p) \in 0 .. n - 1
         /\ 100 * (percentileIndex(n, p) + 1) >= p * n
         /\ \A j \in 0 .. percentileIndex(n, p) - 1 : 100 * (j + 1) < p * n
<1> DEFINE m == p * n
<1>1. m \in Nat /\ 1 <= m /\ m <= 100 * n
  OBVIOUS
<1>2. percentileIndex(n, p) = LET index == (m + 99) \div 100 - 1
                              IN  IF index < 0 THEN 0 ELSE IF index >= n THEN n - 1 ELSE index
  BY DEF percentileIndex
<1> HIDE DEF m
<1>3. percentileIndex(n, p) = (m + 99) \div 100 - 1 /\ (m + 99) \div 100 \in 1 .. n
  BY <1>1, <1>2
<1>4. 100 * ((m + 99) \div 100) >= m /\ 100 * ((m + 99) \div 100) <= m + 99
  BY <1>1
<1> QED
  BY <1>1, <1>3, <1>4 DEF m

-----------------------------------------------------------------------------
(***************************************************************************)
(* The inductive invariant: of a worker's slice, exactly the keys it went  *)
(* past are written, and later read.                                       *)
(***************************************************************************)
Phase == pc \in {"write", "read"}

\* Done counts the keys the workers went past.
Progress(done) ==
  \A w \in Worker, i \in Index :
    first(w) <= i /\ i < last(w) => done[i] = IF i < next[w] THEN 1 ELSE 0

InSlices ==
  /\ next \in [Worker -> Nat]
  /\ \A w \in Worker : first(w) <= next[w] /\ next[w] <= last(w)

BInv ==
  /\ pc \in {"flags", "run", "dialing", "write", "read", "exited"}
  /\ load \in Loads
  /\ clients \in Nat /\ open \in Nat
  /\ pc \in {"dialing", "write", "read"} =>
       /\ open = clients
       /\ load.keys \in Nat /\ load.concurrency \in Nat \ {0} /\ load.concurrency <= load.keys
  /\ pc \notin {"dialing", "write", "read"} => open = 0
  /\ Phase => InSlices /\ errs \subseteq Worker /\ wrote \in [Index -> Nat] /\ got \in [Index -> Nat]
  /\ pc = "write" => Progress(wrote) /\ \A i \in Index : got[i] = 0
  /\ pc = "read" => Progress(got) /\ \A i \in Index : wrote[i] = 1

\* What the slices are good for, in a phase.
LEMMA Slices ==
  ASSUME load.keys \in Nat, load.concurrency \in Nat \ {0}, load.concurrency <= load.keys
  PROVE  /\ \A w \in Worker : /\ first(w) \in Nat /\ last(w) \in Nat
                                /\ first(w) <= last(w) /\ last(w) <= load.keys
         /\ \A i \in Index : \E w \in Worker : \A v \in Worker :
              (first(v) <= i /\ i < last(v)) <=> v = w
<1>1. \A w \in Worker : /\ first(w) \in Nat /\ last(w) \in Nat
                         /\ first(w) <= last(w) /\ last(w) <= load.keys
  BY Zenon, SliceWithin DEF Worker, first, last
<1>2. ASSUME NEW i \in Index
      PROVE  \E w \in Worker : \A v \in Worker : (first(v) <= i /\ i < last(v)) <=> v = w
  BY Zenon, SlicesPartitionKeys DEF Worker, Index, first, last
<1> QED
  BY <1>1, <1>2

\* A phase begins.
LEMMA PhaseStarts ==
  ASSUME load.keys \in Nat, load.concurrency \in Nat \ {0}, load.concurrency <= load.keys,
         NEW p, StartPhase(p), load' = load
  PROVE  /\ InSlices' /\ errs' = {} /\ pc' = p
         /\ Worker' = Worker /\ Index' = Index
         /\ \A w \in Worker : next'[w] = first(w) /\ first(w)' = first(w) /\ last(w)' = last(w)
<1>1. /\ Worker' = Worker /\ Index' = Index
      /\ \A w \in Worker : first(w)' = first(w) /\ last(w)' = last(w)
  BY DEF Worker, Index, first, last
<1>2. \A w \in Worker : /\ first(w) \in Nat /\ last(w) \in Nat
                         /\ first(w) <= last(w)
  BY Slices
<1>3. next' = [w \in Worker |-> first(w)] /\ errs' = {} /\ pc' = p
  BY DEF StartPhase
<1> QED
  BY <1>1, <1>2, <1>3 DEF InSlices

\* When every worker went through its slice, every key is done.
LEMMA AllDone ==
  ASSUME BInv, PhaseOver, errs = {}, NEW done, Progress(done)
  PROVE  \A i \in Index : done[i] = 1
<1> SUFFICES ASSUME NEW i \in Index PROVE done[i] = 1
  OBVIOUS
<1>1. Phase
  BY DEF PhaseOver, Phase
<1>2. PICK w \in Worker : first(w) <= i /\ i < last(w)
  BY <1>1, Slices DEF BInv, Phase
<1>3. next[w] = last(w)
  <2>1. ~ (next[w] < last(w))
    BY <1>1 DEF PhaseOver, Working, Phase
  <2>2. next[w] <= last(w) /\ next[w] \in Nat /\ last(w) \in Nat
    BY <1>1, Slices DEF BInv, InSlices, Phase
  <2> QED
    BY <2>1, <2>2
<1> QED
  BY <1>2, <1>3 DEF Progress

\* A worker goes past one more key.
LEMMA CallProgress ==
  ASSUME BInv, NEW w \in Worker, Working(w), next' = [next EXCEPT ![w] = @ + 1],
         UNCHANGED load, NEW done \in [Index -> Nat], Progress(done),
         NEW done2, done2 = [done EXCEPT ![next[w]] = @ + 1]
  PROVE  /\ InSlices' /\ done2 \in [Index -> Nat]
         /\ \A v \in Worker, i \in Index :
              first(v) <= i /\ i < last(v) => done2[i] = IF i < next'[v] THEN 1 ELSE 0
<1> DEFINE k == next[w]
<1>1. Phase /\ next[w] < last(w)
  BY DEF Working, Phase
<1>2. /\ next \in [Worker -> Nat]
      /\ \A v \in Worker : first(v) <= next[v] /\ next[v] <= last(v)
      /\ \A v \in Worker : first(v) \in Nat /\ last(v) \in Nat /\ last(v) <= load.keys
      /\ load.keys \in Nat
  BY <1>1, Slices DEF BInv, InSlices, Phase
<1>3. k \in Index /\ first(w) <= k /\ k < last(w)
  BY <1>1, <1>2 DEF Index
<1>4. done[k] = 0
  BY <1>2, <1>3 DEF Progress
<1>5. Worker' = Worker /\ \A v \in Worker : first(v)' = first(v) /\ last(v)' = last(v)
  BY DEF Worker, first, last
<1>6. InSlices'
  BY <1>1, <1>2, <1>5 DEF InSlices
<1>7. done2 \in [Index -> Nat]
  BY <1>3, <1>4
<1>8. ASSUME NEW v \in Worker, NEW i \in Index, first(v) <= i, i < last(v)
      PROVE  done2[i] = IF i < next'[v] THEN 1 ELSE 0
  <2>1. done[i] = IF i < next[v] THEN 1 ELSE 0
    BY <1>8 DEF Progress
  <2>2. i \in Nat
    BY <1>2 DEF Index
  <2>3. CASE v = w
    BY <1>2, <1>3, <1>4, <2>1, <2>2, <2>3
  <2>4. CASE v # w
    <3>1. PICK u \in Worker : \A x \in Worker : (first(x) <= i /\ i < last(x)) <=> x = u
      BY Zenon, <1>1, Slices DEF BInv, Phase
    <3>2. i # k
      BY Zenon, <1>3, <1>8, <2>4, <3>1
    <3> QED
      BY Zenon, <1>2, <2>1, <2>4, <3>2
  <2> QED
    BY <2>3, <2>4
<1> QED
  BY <1>6, <1>7, <1>8

\* A call succeeds.
LEMMA CallKeeps ==
  ASSUME BInv, NEW w \in Worker, Call(w)
  PROVE  BInv'
<1>1. /\ Working(w) /\ next' = [next EXCEPT ![w] = @ + 1]
      /\ UNCHANGED <<pc, load, clients, open, errs>>
  BY DEF Call
<1>2. Worker' = Worker /\ Index' = Index /\ \A v \in Worker : first(v)' = first(v) /\ last(v)' = last(v)
  BY Zenon, <1>1 DEF Worker, Index, first, last
<1>3. CASE pc = "write"
  <2>1. wrote' = [wrote EXCEPT ![next[w]] = @ + 1] /\ got' = got
    BY Zenon, <1>3 DEF Call
  <2>2. wrote \in [Index -> Nat] /\ Progress(wrote)
    BY <1>3 DEF BInv, Phase
  <2>3. /\ InSlices' /\ wrote' \in [Index -> Nat]
        /\ \A v \in Worker, i \in Index :
             first(v) <= i /\ i < last(v) => wrote'[i] = IF i < next'[v] THEN 1 ELSE 0
    BY ZenonT(60), <1>1, <2>1, <2>2, CallProgress
  <2>4. Progress(wrote)'
    BY <1>2, <2>3 DEF Progress
  <2> QED
    BY Zenon, <1>1, <1>2, <1>3, <2>1, <2>3, <2>4 DEF BInv, Phase
<1>4. CASE pc = "read"
  <2>1. got' = [got EXCEPT ![next[w]] = @ + 1] /\ wrote' = wrote
    BY <1>4 DEF Call
  <2>2. got \in [Index -> Nat] /\ Progress(got)
    BY <1>4 DEF BInv, Phase
  <2>3. /\ InSlices' /\ got' \in [Index -> Nat]
        /\ \A v \in Worker, i \in Index :
             first(v) <= i /\ i < last(v) => got'[i] = IF i < next'[v] THEN 1 ELSE 0
    BY ZenonT(60), <1>1, <2>1, <2>2, CallProgress
  <2>4. Progress(got)'
    BY <1>2, <2>3 DEF Progress
  <2> QED
    BY <1>1, <1>2, <1>4, <2>1, <2>3, <2>4 DEF BInv, Phase
<1> QED
  BY Zenon, <1>1, <1>3, <1>4 DEF Working

\* The write phase of a run begins, with a fresh set of keys.
LEMMA RunStarts ==
  ASSUME load.keys \in Nat, load.concurrency \in Nat \ {0}, load.concurrency <= load.keys,
         load \in Loads, open \in Nat, open = clients,
         StartPhase("write"), UNCHANGED <<load, clients, open>>, wrote' = None, got' = None
  PROVE  BInv'
<1>1. /\ InSlices' /\ errs' = {} /\ pc' = "write"
      /\ Worker' = Worker /\ Index' = Index
      /\ \A w \in Worker : next'[w] = first(w) /\ first(w)' = first(w) /\ last(w)' = last(w)
  BY PhaseStarts
<1>2. wrote' = [i \in Index |-> 0] /\ got' = [i \in Index |-> 0]
  BY DEF None
<1>3. \A w \in Worker : first(w) \in Nat
  BY Slices
<1>4. Progress(wrote)'
  <2> SUFFICES ASSUME NEW w \in Worker, NEW i \in Index, first(w) <= i
               PROVE  wrote'[i] = IF i < next'[w] THEN 1 ELSE 0
    BY <1>1 DEF Progress
  <2>1. i \in Int /\ next'[w] = first(w) /\ first(w) \in Nat
    BY <1>1, <1>3 DEF Index
  <2> QED
    BY <1>2, <2>1
<1> QED
  BY <1>1, <1>2, <1>4 DEF BInv, Phase

\* The steps of main and Run.
LEMMA MainKeeps ==
  ASSUME BInv, Main
  PROVE  BInv'
<1>1. CASE SelectServices
  BY <1>1 DEF SelectServices, BInv, Phase
<1>2. CASE BeginRun
  <2>1. load.concurrency \in Int /\ load.keys \in Int /\ open = 0 /\ clients' = 0 /\ open' = open
    BY Zenon, <1>2 DEF BInv, BeginRun, Loads
  <2>2. CASE pc' = "exited" /\ load' = load
    BY <2>1, <2>2 DEF BInv, Phase
  <2> DEFINE workers == IF load.concurrency <= 0 THEN 1 ELSE load.concurrency
  <2>3. CASE pc' = "dialing" /\ load' = [load EXCEPT !.concurrency = workers] /\ ~ (load.keys <= 0)
             /\ ~ (workers > load.keys)
    <3>1. workers \in Nat \ {0}
      BY <2>1
    <3> HIDE DEF workers
    <3>2. load' \in Loads /\ load'.keys = load.keys /\ load'.concurrency = workers
      BY <2>3, <3>1 DEF BInv, Loads
    <3> QED
      BY <2>1, <2>3, <3>1, <3>2 DEF BInv, Phase
  <2> QED
    BY Zenon, <1>2, <2>2, <2>3 DEF BeginRun, CheckWorkload
<1>3. CASE Dial
  BY <1>3 DEF Dial, BInv, Phase
<1>4. CASE DialFails
  BY <1>4 DEF DialFails, closeAll, BInv, Phase
<1>5. CASE Dialled
  BY Zenon, <1>5, RunStarts DEF Dialled, BInv
<1>6. CASE PhaseFailed
  BY <1>6 DEF PhaseFailed, PhaseOver, closeAll, BInv, Phase
<1>7. CASE WritesDone
  <2>1. /\ pc = "write" /\ PhaseOver /\ errs = {} /\ StartPhase("read")
        /\ UNCHANGED <<load, clients, open, wrote, got>>
    BY Zenon, <1>7 DEF WritesDone
  <2>2. load.keys \in Nat /\ load.concurrency \in Nat \ {0} /\ load.concurrency <= load.keys
    BY Zenon, <2>1 DEF BInv
  <2>3. /\ InSlices' /\ errs' = {} /\ pc' = "read"
        /\ Worker' = Worker /\ Index' = Index
        /\ \A w \in Worker : next'[w] = first(w) /\ first(w)' = first(w) /\ last(w)' = last(w)
    BY Zenon, <2>1, <2>2, PhaseStarts
  <2>4. Progress(wrote) /\ \A i \in Index : got[i] = 0
    BY Zenon, <2>1 DEF BInv
  <2>5. \A i \in Index : wrote'[i] = 1
    BY Zenon, <2>1, <2>4, AllDone
  <2>6. Progress(got)'
    <3> SUFFICES ASSUME NEW w \in Worker, NEW i \in Index, first(w) <= i
                 PROVE  got'[i] = IF i < next'[w] THEN 1 ELSE 0
      BY <2>3 DEF Progress
    <3>1. i \in Int /\ next'[w] = first(w) /\ first(w) \in Nat
      BY <2>2, <2>3, Slices DEF Index
    <3> QED
      BY <2>1, <2>4, <3>1
  <2> QED
    BY Zenon, <2>1, <2>3, <2>5, <2>6 DEF BInv, Phase
<1>8. CASE ReadsDone
  <2>1. pc = "read" /\ UNCHANGED <<load, clients>>
    BY Zenon, <1>8 DEF ReadsDone
  <2>2. CASE StartPhase("write") /\ wrote' = None /\ got' = None /\ open' = open
    BY Zenon, <2>1, <2>2, RunStarts DEF BInv
  <2>3. CASE closeAll /\ pc' \in {"exited", "run"}
    BY <2>1, <2>3 DEF closeAll, BInv, Phase
  <2> QED
    BY <1>8, <2>2, <2>3 DEF ReadsDone
<1> QED
  BY <1>1, <1>2, <1>3, <1>4, <1>5, <1>6, <1>7, <1>8 DEF Main

\* The invariant holds in every reachable state.
LEMMA Invariance == Spec => []BInv
<1>1. Init => BInv
  BY BenchmarkAssumption DEF Init, BInv, Phase
<1>2. BInv /\ [Next]_vars => BInv'
  <2> SUFFICES ASSUME BInv, [Next]_vars PROVE BInv'
    BY Zenon
  <2>1. ASSUME NEW w \in Worker, CallFails(w) PROVE BInv'
    <3>1. UNCHANGED <<pc, load, clients, open, next, wrote, got>> /\ errs' = errs \cup {w}
      BY Zenon, <2>1 DEF CallFails
    <3>2. Worker' = Worker /\ Index' = Index /\ (InSlices => InSlices')
      BY <3>1 DEF InSlices, Worker, Index, first, last
    <3>3. (Progress(wrote) => Progress(wrote)') /\ (Progress(got) => Progress(got)')
      BY SMTT(30), <3>1 DEF Progress, Worker, Index, first, last
    <3> QED
      BY ZenonT(30), <3>1, <3>2, <3>3 DEF BInv, Phase
  <2>2. CASE UNCHANGED vars
    BY <2>2 DEF vars, BInv, Phase, InSlices, Progress, Worker, Index, first, last
  <2> QED
    BY Zenon, <2>1, <2>2, CallKeeps, MainKeeps DEF Next, Work, Terminated
<1> QED
  BY <1>1, <1>2, PTL DEF Spec

-----------------------------------------------------------------------------
\* The state has its type, for every workload and any number of services.
THEOREM TypeCorrect == Spec => []TypeOK
<1>1. BInv => TypeOK
  BY DEF BInv, TypeOK, Phase, InSlices
<1> QED
  BY <1>1, Invariance, PTL

\* However Run ends, the connections dialAll opened are closed.
THEOREM ConnectionsClosed == Spec => []NoConnectionLeft
<1>1. BInv => NoConnectionLeft
  BY DEF BInv, NoConnectionLeft
<1> QED
  BY <1>1, Invariance, PTL

\* The reads of a run begin when each of its keys is written exactly once.
THEOREM WritesPrecedeReads == Spec => []ReadsFollowWrites
<1>1. BInv => ReadsFollowWrites
  <2> SUFFICES ASSUME BInv, pc = "read", NEW i \in Index PROVE wrote[i] = 1 /\ got[i] <= 1
    BY DEF ReadsFollowWrites
  <2>1. PICK w \in Worker : first(w) <= i /\ i < last(w)
    BY Slices DEF BInv
  <2>2. wrote[i] = 1 /\ got[i] = IF i < next[w] THEN 1 ELSE 0
    BY <2>1 DEF BInv, Progress
  <2> QED
    BY <2>2
<1> QED
  BY <1>1, Invariance, PTL

-----------------------------------------------------------------------------
(***************************************************************************)
(* The counts that main prints.  The latencies of a phase that ended well  *)
(* are as many as the keys, since each key has one worker; a run adds them *)
(* once to the writes and once to the reads.                               *)
(***************************************************************************)
LEMMA MergedIsKeys ==
  ASSUME BInv, PhaseOver, errs = {}
  PROVE  Merged = load.keys
<1> DEFINE P == UNION {{w} \X (first(w) .. next[w] - 1) : w \in Worker}
           Owner(i) == CHOOSE w \in Worker : first(w) <= i /\ i < last(w)
           g == [i \in Index |-> <<Owner(i), i>>]
<1>1. /\ Phase /\ load.keys \in Nat
      /\ load.concurrency \in Nat \ {0} /\ load.concurrency <= load.keys
      /\ InSlices
  BY Zenon DEF PhaseOver, Phase, BInv
<1>2. /\ \A w \in Worker : /\ first(w) \in Nat /\ last(w) \in Nat
                            /\ first(w) <= last(w) /\ last(w) <= load.keys
      /\ \A i \in Index : \E w \in Worker : \A v \in Worker : (first(v) <= i /\ i < last(v)) <=> v = w
  BY Zenon, <1>1, Slices
<1>3. \A w \in Worker : next[w] = last(w)
  <2> SUFFICES ASSUME NEW w \in Worker PROVE next[w] = last(w)
    BY Zenon
  <2>1. ~ (next[w] < last(w)) /\ next[w] <= last(w) /\ next[w] \in Nat /\ last(w) \in Nat
    BY Zenon, <1>1, <1>2 DEF PhaseOver, Working, Phase, InSlices
  <2> QED
    BY <2>1
<1>4. \A w \in Worker, i \in Index : first(w) <= i /\ i < last(w) => <<w, i>> \in P
  <2> SUFFICES ASSUME NEW w \in Worker, NEW i \in Index, first(w) <= i, i < last(w)
               PROVE  <<w, i>> \in P
    BY Zenon
  <2>1. i \in first(w) .. next[w] - 1
    <3>1. first(w) \in Nat /\ last(w) \in Nat /\ next[w] = last(w) /\ i \in Int
      BY <1>2, <1>3 DEF Index
    <3> QED
      BY <3>1
  <2>2. <<w, i>> \in {w} \X (first(w) .. next[w] - 1)
    BY <2>1
  <2> QED
    BY Zenon, <2>2
<1>5. ASSUME NEW p \in P PROVE \E w \in Worker, i \in Index : p = <<w, i>> /\ first(w) <= i /\ i < last(w)
  <2>1. PICK w \in Worker : p \in {w} \X (first(w) .. next[w] - 1)
    BY Zenon, <1>5
  <2>2. PICK i \in first(w) .. next[w] - 1 : p = <<w, i>>
    BY <2>1
  <2>3. i \in Index /\ first(w) <= i /\ i < last(w)
    <3>1. first(w) \in Nat /\ last(w) \in Nat /\ last(w) <= load.keys /\ next[w] = last(w)
      BY Zenon, <1>2, <1>3
    <3> QED
      BY <1>1, <3>1 DEF Index
  <2> QED
    BY Zenon, <2>2, <2>3
<1> HIDE DEF P
<1>6. ASSUME NEW i \in Index
      PROVE  /\ Owner(i) \in Worker /\ first(Owner(i)) <= i /\ i < last(Owner(i))
             /\ \A w \in Worker : first(w) <= i /\ i < last(w) => w = Owner(i)
  <2>1. PICK w \in Worker : \A v \in Worker : (first(v) <= i /\ i < last(v)) <=> v = w
    BY Zenon, <1>2
  <2>2. Owner(i) \in Worker /\ first(Owner(i)) <= i /\ i < last(Owner(i))
    BY Zenon, <2>1
  <2> QED
    BY Zenon, <2>1, <2>2
<1> HIDE DEF Owner
<1>7. g \in [Index -> P]
  BY Zenon, <1>4, <1>6
<1>8. g \in Injection(Index, P)
  <2>1. \A i, j \in Index : g[i] = g[j] => i = j
    BY Zenon
  <2> QED
    BY Zenon, <1>7, <2>1 DEF Injection, IsInjective
<1>9. g \in Surjection(Index, P)
  <2>1. ASSUME NEW p \in P PROVE \E i \in Index : g[i] = p
    <3>1. PICK w \in Worker, i \in Index : p = <<w, i>> /\ first(w) <= i /\ i < last(w)
      BY Zenon, <1>5
    <3>2. w = Owner(i)
      BY Zenon, <1>6, <3>1
    <3> QED
      BY Zenon, <3>1, <3>2
  <2> QED
    BY Zenon, <1>7, <2>1 DEF Surjection
<1>10. ExistsBijection(Index, P)
  BY Zenon, <1>8, <1>9 DEF ExistsBijection, Bijection
<1>11. IsFiniteSet(Index) /\ Cardinality(Index) = load.keys
  <2>1. 0 \in Int /\ load.keys - 1 \in Int
    BY <1>1
  <2>2. /\ IsFiniteSet(0 .. load.keys - 1)
        /\ Cardinality(0 .. load.keys - 1) =
             IF 0 > load.keys - 1 THEN 0 ELSE load.keys - 1 - 0 + 1
    BY Zenon, <2>1, FS_Interval
  <2> QED
    BY <1>1, <2>2 DEF Index
<1> QED
  BY Zenon, <1>10, <1>11, FS_Bijection DEF Merged, P

\* One run more.
LEMMA RunMore ==
  ASSUME NEW r \in Nat, NEW k \in Nat
  PROVE  /\ r * k \in Nat /\ 0 * k = 0
         /\ r * k + k = (r + 1) * k
OBVIOUS

Samples == [writes : Nat, reads : Nat]

\* What is collected is what the runs so far give.
Collected ==
  /\ pc \in {"dialing", "write", "read"} => load.runs \in Nat
  /\ pc = "dialing" => samples = [writes |-> 0, reads |-> 0] /\ load.runs > 0
  /\ Phase => run \in Nat /\ run < load.runs
  /\ pc = "write" => samples = [writes |-> run * load.keys, reads |-> run * load.keys]
  /\ pc = "read" => samples = [writes |-> (run + 1) * load.keys, reads |-> run * load.keys]
  /\ results \in Seq(Samples)
  /\ ResultsCountEveryKey

\* The steps of main and Run keep the counts.
LEMMA MainCounts ==
  ASSUME BInv, Collected, Main
  PROVE  Collected'
<1> DEFINE Printed == results \in Seq(Samples) /\ ResultsCountEveryKey
<1>1. ASSUME UNCHANGED <<load, results>> PROVE Printed'
  BY Zenon, <1>1 DEF Collected, ResultsCountEveryKey
<1>2. CASE SelectServices
  <2>1. pc' \in {"run", "exited"} /\ UNCHANGED <<load, results>>
    BY Zenon, <1>2 DEF SelectServices
  <2> QED
    BY Zenon, <1>1, <2>1 DEF Collected, Phase
<1>3. CASE BeginRun
  <2>1. samples' = [writes |-> 0, reads |-> 0] /\ results' = results /\ pc = "run" /\ CheckWorkload
    BY Zenon, <1>3 DEF BeginRun
  <2>2. CASE pc' = "exited" /\ load' = load
    BY Zenon, <1>1, <2>1, <2>2 DEF Collected, Phase
  <2>3. CASE /\ pc' = "dialing" /\ ~ (load.runs <= 0)
             /\ \E n : load' = [load EXCEPT !.concurrency = n]
    <3>1. load'.runs = load.runs /\ load'.keys = load.keys /\ load.runs \in Int
      BY Zenon, <2>3 DEF BInv, Loads
    <3>2. load'.runs \in Nat /\ load'.runs > 0
      BY <2>3, <3>1
    <3>3. Printed'
      BY Zenon, <2>1, <3>1 DEF Collected, ResultsCountEveryKey
    <3> QED
      BY Zenon, <2>1, <2>3, <3>2, <3>3 DEF Collected, Phase
  <2> QED
    BY Zenon, <2>1, <2>2, <2>3 DEF CheckWorkload
<1>4. CASE Dial
  <2>1. pc = "dialing" /\ UNCHANGED <<pc, load, samples, results>>
    BY Zenon, <1>4 DEF Dial
  <2> QED
    BY Zenon, <1>1, <2>1 DEF Collected, Phase
<1>5. CASE DialFails \/ PhaseFailed
  <2>1. pc' = "exited" /\ UNCHANGED <<load, results>>
    BY Zenon, <1>5 DEF DialFails, PhaseFailed
  <2> QED
    BY Zenon, <1>1, <2>1 DEF Collected, Phase
<1>6. CASE Dialled
  <2>1. pc = "dialing" /\ pc' = "write" /\ run' = 0 /\ UNCHANGED <<load, samples, results>>
    BY Zenon, <1>6 DEF Dialled, StartPhase
  <2>2. load.keys \in Nat /\ load.runs \in Nat /\ load.runs > 0
    BY Zenon, <2>1 DEF BInv, Collected
  <2>3. 0 \in Nat /\ 0 < load.runs /\ 0 * load.keys = 0
    BY <2>2
  <2> QED
    BY Zenon, <1>1, <2>1, <2>2, <2>3 DEF Collected, Phase
<1>7. CASE WritesDone
  <2>1. /\ pc = "write" /\ PhaseOver /\ errs = {} /\ pc' = "read"
        /\ samples' = [samples EXCEPT !.writes = @ + Merged]
        /\ UNCHANGED <<load, run, results>>
    BY Zenon, <1>7 DEF WritesDone, StartPhase
  <2>2. load.keys \in Nat /\ run \in Nat /\ Merged = load.keys
    BY Zenon, <2>1, MergedIsKeys DEF BInv, Collected, Phase
  <2>3. samples' = [writes |-> run * load.keys + load.keys, reads |-> run * load.keys]
    <3>1. samples = [writes |-> run * load.keys, reads |-> run * load.keys]
      BY Zenon, <2>1 DEF Collected
    <3> QED
      BY <2>1, <2>2, <3>1
  <2>4. run * load.keys + load.keys = (run + 1) * load.keys
    BY Zenon, <2>2, RunMore
  <2> QED
    BY Zenon, <1>1, <2>1, <2>3, <2>4 DEF Collected, Phase
<1>8. CASE ReadsDone
  <2>1. /\ pc = "read" /\ PhaseOver /\ errs = {} /\ load' = load
        /\ samples' = [samples EXCEPT !.reads = @ + Merged]
    BY Zenon, <1>8 DEF ReadsDone
  <2>2. /\ load.keys \in Nat /\ load.runs \in Nat /\ run \in Nat /\ run < load.runs
        /\ Merged = load.keys
    BY Zenon, <2>1, MergedIsKeys DEF BInv, Collected, Phase
  <2>3. /\ (run + 1) * load.keys = run * load.keys + load.keys
        /\ run + 1 \in Nat /\ (run + 1) * load.keys \in Nat
    BY <2>2, RunMore
  <2>4. samples' = [writes |-> (run + 1) * load.keys, reads |-> (run + 1) * load.keys]
    <3>1. samples = [writes |-> (run + 1) * load.keys, reads |-> run * load.keys]
      BY Zenon, <2>1 DEF Collected
    <3> QED
      BY <2>1, <2>2, <2>3, <3>1
  <2>5. CASE run + 1 < load.runs
    <3>1. pc' = "write" /\ run' = run + 1 /\ results' = results
      BY Zenon, <1>8, <2>5 DEF ReadsDone, StartPhase
    <3> QED
      BY Zenon, <1>1, <2>1, <2>2, <2>3, <2>4, <2>5, <3>1 DEF Collected, Phase
  <2>6. CASE ~ (run + 1 < load.runs)
    <3>1. results' = Append(results, samples') /\ pc' \in {"exited", "run"}
      BY Zenon, <1>8, <2>6 DEF ReadsDone
    <3>2. run + 1 = load.runs
      BY <2>2, <2>6
    <3>3. samples' \in Samples /\ samples'.writes = load.runs * load.keys
                               /\ samples'.reads = load.runs * load.keys
      BY Zenon, <2>3, <2>4, <3>2 DEF Samples
    <3>4. results \in Seq(Samples) /\ ResultsCountEveryKey
      BY Zenon DEF Collected
    <3>5. results' \in Seq(Samples)
      BY <3>1, <3>3, <3>4
    <3>6. ASSUME NEW i \in DOMAIN results' PROVE i \in DOMAIN results \/ results'[i] = samples'
      BY <3>1, <3>3, <3>4, <3>6
    <3>7. \A i \in DOMAIN results : results'[i] = results[i]
      BY <3>1, <3>3, <3>4
    <3>8. ResultsCountEveryKey'
      BY Zenon, <2>1, <3>3, <3>4, <3>6, <3>7 DEF ResultsCountEveryKey
    <3> QED
      BY Zenon, <3>1, <3>5, <3>8 DEF Collected, Phase
  <2> QED
    BY Zenon, <2>5, <2>6
<1> QED
  BY Zenon, <1>2, <1>3, <1>4, <1>5, <1>6, <1>7, <1>8 DEF Main

\* A result stands for every key of every run, once for writes and once for
\* reads, whatever the number of workers and the services before it.
THEOREM EveryKeyCounted == Spec => []ResultsCountEveryKey
<1>1. Init => Collected
  BY DEF Init, Collected, Phase, ResultsCountEveryKey, Samples
<1>2. BInv /\ Collected /\ [Next]_vars => Collected'
  <2> SUFFICES ASSUME BInv, Collected, [Next]_vars PROVE Collected'
    BY Zenon
  <2>1. ASSUME UNCHANGED <<pc, load, run, samples, results>> PROVE Collected'
    BY Zenon, <2>1 DEF Collected, Phase, ResultsCountEveryKey
  <2>2. ASSUME NEW w \in Worker, Work(w) PROVE Collected'
    BY Zenon, <2>1, <2>2 DEF Work, Call, CallFails
  <2>3. CASE UNCHANGED vars
    BY Zenon, <2>1, <2>3 DEF vars
  <2> QED
    BY Zenon, <2>2, <2>3, MainCounts DEF Next, Terminated
<1>3. Collected => ResultsCountEveryKey
  BY Zenon DEF Collected
<1> QED
  BY <1>1, <1>2, <1>3, Invariance, PTL DEF Spec
=============================================================================

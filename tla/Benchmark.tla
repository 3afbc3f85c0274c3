----------------------------- MODULE Benchmark -----------------------------
(***************************************************************************)
(* The benchmark program (src/cmd/minikv-bench/main.go and                 *)
(* src/internal/benchmark/runner.go): for each service it dials one        *)
(* connection for each worker, and repeats a write phase and a read phase  *)
(* in which the workers go through their slices of the keys.               *)
(*                                                                         *)
(* The services are outside: a call to one succeeds or fails.  The key of  *)
(* workloadKey is known by its index; the runs have keys of their own.     *)
(***************************************************************************)
EXTENDS Integers, Sequences, FiniteSets

CONSTANTS
  Service,     \* the names in the registry
  ServiceFlag, \* what the -services flag may be: sequences of names
  Workload     \* what the other flags may be

Loads == [runs : Int, keys : Int, valueBytes : Int, concurrency : Int]

ASSUME BenchmarkAssumption == Workload \subseteq Loads

VARIABLES
  pc,       \* main and Run: flags, run, dialing, write, read, exited
  selected, \* the services still to be run
  load,     \* Run's workload
  clients,  \* how many clients dialAll returned so far
  open,     \* how many connections are open
  run,      \* the number of the run
  next,     \* each worker's next key
  errs,     \* the workers that failed
  samples,  \* how many latencies of writes and of reads are collected
  results,  \* the sample counts of the results main printed
  wrote,    \* history: how often each key of this run was written
  got       \* history: how often each key of this run was read

vars == <<pc, selected, load, clients, open, run, next, errs, samples, results, wrote, got>>

-----------------------------------------------------------------------------
\* The first key of a worker's slice, and the one after its last.
workerSlice(total, concurrency, worker) ==
  LET base == total \div concurrency
      extra == total % concurrency
      start == worker * base + (IF worker < extra THEN worker ELSE extra)
  IN  <<start, start + base + (IF worker < extra THEN 1 ELSE 0)>>

\* The index of the p-th percentile of n sorted samples; p is 50 or 95, and for
\* these the float64 product rounds to a value with the same ceiling.
percentileIndex(n, p) ==
  LET index == (p * n + 99) \div 100 - 1
  IN  IF index < 0 THEN 0 ELSE IF index >= n THEN n - 1 ELSE index

\* Blank names are skipped; an unknown one, or none at all, is an error.
selectServices(flag) ==
  LET names == SelectSeq(flag, LAMBDA s : s # "")
  IN  IF names = <<>> \/ \E i \in DOMAIN names : names[i] \notin Service THEN {} ELSE {names}

Worker == 0 .. load.concurrency - 1
Index == 0 .. load.keys - 1
first(w) == workerSlice(load.keys, load.concurrency, w)[1]
last(w) == workerSlice(load.keys, load.concurrency, w)[2]

None == [i \in Index |-> 0]

-----------------------------------------------------------------------------
Init ==
  /\ pc = "flags"
  /\ selected \in ServiceFlag
  /\ load \in Workload
  /\ clients = 0 /\ open = 0 /\ run = 0
  /\ next = <<>> /\ errs = {}
  /\ samples = [writes |-> 0, reads |-> 0]
  /\ results = <<>>
  /\ wrote = <<>> /\ got = <<>>

\* main, up to the loop over the services.
SelectServices ==
  /\ pc = "flags"
  /\ \/ /\ selected' \in selectServices(selected)
        /\ pc' = "run"
     \/ /\ selectServices(selected) = {}
        /\ pc' = "exited"
        /\ UNCHANGED selected
  /\ UNCHANGED <<load, clients, open, run, next, errs, samples, results, wrote, got>>

\* Run checks the workload.
CheckWorkload ==
  LET workers == IF load.concurrency <= 0 THEN 1 ELSE load.concurrency
  IN  IF load.runs <= 0 \/ load.keys <= 0 \/ load.valueBytes <= 0 \/ workers > load.keys
      THEN pc' = "exited" /\ UNCHANGED load
      ELSE pc' = "dialing" /\ load' = [load EXCEPT !.concurrency = workers]

\* Mutant: the samples of the service before are kept.
BeginRun_KeepsSamples ==
  /\ pc = "run" /\ CheckWorkload
  /\ clients' = 0
  /\ UNCHANGED <<selected, open, run, next, errs, samples, results, wrote, got>>

BeginRun ==
  /\ pc = "run" /\ CheckWorkload
  /\ clients' = 0
  /\ samples' = [writes |-> 0, reads |-> 0]
  /\ UNCHANGED <<selected, open, run, next, errs, results, wrote, got>>

closeAll == open' = open - clients

StartPhase(p) ==
  /\ pc' = p
  /\ next' = [w \in Worker |-> first(w)]
  /\ errs' = {}

\* The loop of dialAll.
Dial ==
  /\ pc = "dialing" /\ clients < load.concurrency
  /\ clients' = clients + 1 /\ open' = open + 1
  /\ UNCHANGED <<pc, selected, load, run, next, errs, samples, results, wrote, got>>

\* Mutant: the connections dialled before the one that failed stay open.
DialFails_NoClose ==
  /\ pc = "dialing" /\ clients < load.concurrency
  /\ pc' = "exited"
  /\ UNCHANGED <<selected, load, clients, open, run, next, errs, samples, results, wrote, got>>

DialFails ==
  /\ pc = "dialing" /\ clients < load.concurrency
  /\ closeAll
  /\ pc' = "exited"
  /\ UNCHANGED <<selected, load, clients, run, next, errs, samples, results, wrote, got>>

\* The first write phase begins.
Dialled ==
  /\ pc = "dialing" /\ clients = load.concurrency
  /\ StartPhase("write")
  /\ run' = 0 /\ wrote' = None /\ got' = None
  /\ UNCHANGED <<selected, load, clients, open, samples, results>>

Working(w) == pc \in {"write", "read"} /\ w \notin errs /\ next[w] < last(w)

\* A worker's Set or Get succeeds.
Call(w) ==
  /\ Working(w)
  /\ next' = [next EXCEPT ![w] = @ + 1]
  /\ wrote' = IF pc = "write" THEN [wrote EXCEPT ![next[w]] = @ + 1] ELSE wrote
  /\ got' = IF pc = "read" THEN [got EXCEPT ![next[w]] = @ + 1] ELSE got
  /\ UNCHANGED <<pc, selected, load, clients, open, run, errs, samples, results>>

\* It fails, or finds no value, or another one.
CallFails(w) ==
  /\ Working(w)
  /\ errs' = errs \cup {w}
  /\ UNCHANGED <<pc, selected, load, clients, open, run, next, samples, results, wrote, got>>

\* Mutant: the phase is over when one worker is.
PhaseOver_OneDone == pc \in {"write", "read"} /\ \E w \in Worker : ~ Working(w)

\* wg.Wait returns.
PhaseOver == pc \in {"write", "read"} /\ \A w \in Worker : ~ Working(w)

\* How many latencies the workers collected, one for each key a worker did.
Merged == Cardinality(UNION {{w} \X (first(w) .. next[w] - 1) : w \in Worker})

PhaseFailed ==
  /\ PhaseOver /\ errs # {}
  /\ closeAll
  /\ pc' = "exited"
  /\ UNCHANGED <<selected, load, clients, run, next, errs, samples, results, wrote, got>>

WritesDone ==
  /\ pc = "write" /\ PhaseOver /\ errs = {}
  /\ samples' = [samples EXCEPT !.writes = @ + Merged]
  /\ StartPhase("read")
  /\ UNCHANGED <<selected, load, clients, open, run, results, wrote, got>>

\* The next run, or the results and the next service, or the end.
ReadsDone ==
  /\ pc = "read" /\ PhaseOver /\ errs = {}
  /\ samples' = [samples EXCEPT !.reads = @ + Merged]
  /\ IF run + 1 < load.runs
     THEN /\ StartPhase("write")
          /\ run' = run + 1 /\ wrote' = None /\ got' = None
          /\ UNCHANGED <<selected, open, results>>
     ELSE /\ results' = Append(results, samples')
          /\ closeAll
          /\ selected' = Tail(selected)
          /\ pc' = IF Tail(selected) = <<>> THEN "exited" ELSE "run"
          /\ UNCHANGED <<run, next, errs, wrote, got>>
  /\ UNCHANGED <<load, clients>>

Terminated == pc = "exited" /\ UNCHANGED vars

Main == \/ SelectServices \/ BeginRun \/ Dial \/ DialFails \/ Dialled
        \/ PhaseFailed \/ WritesDone \/ ReadsDone

Work(w) == Call(w) \/ CallFails(w)

Next == Main \/ (pc \in {"write", "read"} /\ \E w \in Worker : Work(w)) \/ Terminated

Spec == Init /\ [][Next]_vars

-----------------------------------------------------------------------------
\* The type of the state.
TypeOK ==
  /\ pc \in {"flags", "run", "dialing", "write", "read", "exited"}
  /\ clients \in Nat /\ open \in Nat
  /\ pc \in {"write", "read"} =>
       /\ next \in [Worker -> Nat]
       /\ errs \subseteq Worker
       /\ wrote \in [Index -> Nat] /\ got \in [Index -> Nat]

\* However Run ends (a dial that fails after others succeeded, a worker that
\* fails, the last run), every connection dialAll opened is closed again.
NoConnectionLeft == pc \notin {"dialing", "write", "read"} => open = 0

\* The read phase begins when every key of the run is written, by exactly one
\* worker (workerSlice, wg.Wait): a key that is missing then was lost by the
\* service, not by the benchmark.
ReadsFollowWrites == pc = "read" => \A i \in Index : wrote[i] = 1 /\ got[i] <= 1

\* What main prints stands for every key of every run: Count is runs * keys.
ResultsCountEveryKey ==
  \A i \in DOMAIN results :
    results[i].writes = load.runs * load.keys /\ results[i].reads = load.runs * load.keys
=============================================================================

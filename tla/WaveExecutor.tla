---------------------------- MODULE WaveExecutor ----------------------------
(***************************************************************************)
(* One run of the decision graph (opencodifier-engine/src/executor.rs:     *)
(* run, guard, wave_is_skipped, mark_skipped, run_wave, execute, merge).   *)
(*                                                                         *)
(* The main thread walks the topological waves.  Before a wave it checks   *)
(* the cancellation token and the deadline; the wave's nodes then execute  *)
(* against the run state as it stood when the wave began, in worker        *)
(* threads when more than one node is runnable and parallelism allows, and *)
(* the results are merged in node-id order once every worker has joined.   *)
(*                                                                         *)
(* Of what nodes compute only what steers the run is kept: the facts rule  *)
(* nodes write, the condition of a branch node, whether a node fails or    *)
(* panics.  What the nodes do to candidates and decisions is the subject   *)
(* of CandidateNarrowing and ThresholdGate.                                *)
(***************************************************************************)
EXTENDS Naturals, Sequences, FiniteSets

CONSTANTS
    Graphs,       \* graphs an engine may be built with
    Parallelism,  \* EngineConfig::parallelism
    Limit,        \* the request's time limit, in clock ticks
    MaxTime,      \* bound: how far the clock runs
    MaxFaults     \* bound: how many nodes misbehave in one run

Kinds == {"inert", "rule", "branch", "output"}
Always == 0       \* the condition of a branch without `when'

\* Node ids are numbers, ordered as their strings are.  A graph has, per node,
\* NodeSpec::depends_on as a set, NodeSpec::kind as far as it steers the run and,
\* for a branch, the rule node whose fact its condition reads.
ASSUME ExecutorAssumption ==
    /\ \A g \in Graphs :
          /\ g.nodes \subseteq Nat \ {Always} /\ IsFiniteSet(g.nodes)
          /\ g.deps \in [g.nodes -> SUBSET g.nodes]
          /\ g.kind \in [g.nodes -> Kinds]
          /\ g.when \in [g.nodes -> Nat]
    /\ Parallelism \in Nat \ {0}
    /\ Limit \in Nat
    /\ MaxTime \in Nat
    /\ MaxFaults \in Nat

VARIABLES
    graph,      \* the configured graph
    verdict,    \* how each node's own code ends: ok, quiet (a rule that does
                \* not match), fail or panic
    now,        \* the Clock; the run starts at 0 and its deadline is Limit
    cancelled,  \* the CancellationToken
    phase,      \* where the main thread is
    placed,     \* nodes of the waves already behind the main thread
    skipped,    \* Executor::skipped
    facts,      \* facts the merged rule nodes wrote into the working state
    worker,     \* where the execution of each node is
    result,     \* what each executed node returned
    trace,      \* executed nodes in the order their entries were pushed
    outcome     \* how the run ended

control == <<phase, placed, skipped, facts, trace, outcome>>
given == <<graph, verdict>>
vars == <<graph, verdict, now, cancelled, phase, placed, skipped, facts, worker, result, trace, outcome>>

Nodes == graph.nodes
Deps == graph.deps
Kind == graph.kind
When == graph.when

Faults == {"fail", "panic"}
Running == [kind |-> "running"]
NoResult == [kind |-> "none"]

-----------------------------------------------------------------------------
(* Derived notions.                                                        *)

\* The next wave of DecisionGraph::waves: nodes not placed yet whose
\* dependencies all are.
Wave == {n \in Nodes \ placed : Deps[n] \subseteq placed}

Runnable == Wave \ skipped

\* run_wave goes parallel only for two or more runnable nodes.
Parallel == Cardinality(Runnable) > 1 /\ Parallelism > 1

\* dependents_of.
Dependents(n) == {m \in Nodes : n \in Deps[m]}

\* n and, transitively, everything that depends on it: the least set that
\* holds n and is closed under dependents.
Below == [n \in Nodes |->
    {m \in Nodes : \A C \in SUBSET Nodes :
        (n \in C /\ \A c \in C : Dependents(c) \subseteq C) => m \in C}]

\* Mutant: only the direct dependents of a branch are skipped.
DownstreamDirect(S) == S

\* mark_skipped, for every node of S.
Downstream(S) == UNION {Below[n] : n \in S}

\* Mutant: the deadline is never looked at.
GuardNoDeadline == IF cancelled THEN "Cancelled" ELSE "pass"

\* guard: cancellation is checked before the deadline.
Guard == IF cancelled THEN "Cancelled" ELSE IF now >= Limit THEN "Timeout" ELSE "pass"

Min(S) == CHOOSE n \in S : \A m \in S : n <= m

Unfinished == {n \in Runnable : worker[n] # "joined"}

\* Without threads the runnable nodes execute one after the other.
MayRun(n) == n \in Runnable /\ (Parallel \/ n = Min(Unfinished))

Unmerged == {n \in Runnable : result[n] # NoResult}

\* Mutant: results are merged as they happen to come out of the map.
MergeAny(n) == n \in Unmerged

\* `results.sort_by(node id)': the next result to merge.
MergesNext(n) == n \in Unmerged /\ \A m \in Unmerged : n <= m

\* Mutant: workers write their results into the state they share, so a branch
\* may see the fact of a rule that ran earlier in its own wave.
FiresShared(n) ==
    When[n] \in {Always} \cup facts \cup {m \in Runnable : worker[m] = "joined" /\ verdict[m] = "ok"}

\* A branch fires when it has no condition or its condition holds in the
\* working state, which no worker changes.
Fires(n) == When[n] = Always \/ When[n] \in facts

-----------------------------------------------------------------------------
(* The main thread.                                                        *)

Stop(o) == phase' = "done" /\ outcome' = o

\* The guard before a wave fails: the run returns the error.
WaveRefused ==
    /\ phase = "wave"
    /\ Wave # {}
    /\ Guard # "pass"
    /\ Stop([kind |-> Guard])
    /\ UNCHANGED <<given, now, cancelled, placed, skipped, facts, worker, result, trace>>

\* Mutant: a skipped wave is passed over without moving on.
WaveSkippedStuck ==
    /\ phase = "wave"
    /\ Wave # {}
    /\ Guard = "pass"
    /\ Runnable = {}
    /\ UNCHANGED vars

\* Every node of the wave is skipped: go on to the next one.
WaveSkipped ==
    /\ phase = "wave"
    /\ Wave # {}
    /\ Guard = "pass"
    /\ Runnable = {}
    /\ placed' = placed \cup Wave
    /\ UNCHANGED <<given, now, cancelled, phase, skipped, facts, worker, result, trace, outcome>>

\* run_wave: hand the runnable nodes to workers.
WaveStart ==
    /\ phase = "wave"
    /\ Wave # {}
    /\ Guard = "pass"
    /\ Runnable # {}
    /\ phase' = "run"
    /\ worker' = [n \in Nodes |-> IF n \in Runnable THEN "spawned" ELSE worker[n]]
    /\ UNCHANGED <<given, now, cancelled, placed, skipped, facts, result, trace, outcome>>

\* Every worker has been joined: the merge begins.
WaveJoin ==
    /\ phase = "run"
    /\ Unfinished = {}
    /\ phase' = "merge"
    /\ UNCHANGED <<given, now, cancelled, placed, skipped, facts, worker, result, trace, outcome>>

\* `let execution = result?': the first error in id order ends the run.
MergeError(n) ==
    /\ phase = "merge"
    /\ MergesNext(n)
    /\ result[n].kind # "ok"
    /\ Stop(IF result[n].kind = "NodeFailed" THEN [kind |-> "NodeFailed", node |-> n]
                                             ELSE [kind |-> result[n].kind])
    /\ UNCHANGED <<given, now, cancelled, placed, skipped, facts, worker, result, trace>>

\* merge: the node's trace entries and effects enter the run state.
MergeOk(n) ==
    /\ phase = "merge"
    /\ MergesNext(n)
    /\ result[n].kind = "ok"
    /\ trace' = Append(trace, n)
    /\ facts' = facts \cup (IF Kind[n] = "rule" /\ verdict[n] = "ok" THEN {n} ELSE {})
    /\ skipped' = skipped \cup (IF Kind[n] = "branch" /\ ~result[n].fired
                                  THEN Downstream(Dependents(n)) ELSE {})
    /\ result' = [result EXCEPT ![n] = NoResult]
    /\ UNCHANGED <<given, now, cancelled, phase, placed, worker, outcome>>

\* The wave is merged: on to the next one.
WaveEnd ==
    /\ phase = "merge"
    /\ Unmerged = {}
    /\ \A n \in Runnable : Kind[n] # "output"
    /\ placed' = placed \cup Wave
    /\ phase' = "wave"
    /\ UNCHANGED <<given, now, cancelled, skipped, facts, worker, result, trace, outcome>>

\* The output node was in the wave (run breaks), or no wave is left: assemble.
Assemble ==
    /\ \/ phase = "merge" /\ Unmerged = {} /\ \E n \in Runnable : Kind[n] = "output"
       \/ phase = "wave" /\ Wave = {}
    /\ Stop([kind |-> "assembled"])
    /\ UNCHANGED <<given, now, cancelled, placed, skipped, facts, worker, result, trace>>

-----------------------------------------------------------------------------
(* The workers.                                                            *)

\* execute: the guard before the node's work.
ExecuteGuard(n) ==
    /\ phase = "run"
    /\ worker[n] = "spawned"
    /\ MayRun(n)
    /\ \/ /\ Guard = "pass"
          /\ worker' = [worker EXCEPT ![n] = "working"]
          /\ UNCHANGED result
       \/ /\ Guard # "pass"
          /\ worker' = [worker EXCEPT ![n] = "joined"]
          /\ result' = [result EXCEPT ![n] = [kind |-> Guard]]
    /\ UNCHANGED <<given, now, cancelled, control>>

\* What a node that has done its work returns: its effects or NodeFailed.
ResultOf(n) ==
    IF verdict[n] \in Faults THEN [kind |-> "NodeFailed"]
    ELSE [kind |-> "ok", fired |-> Kind[n] = "branch" /\ Fires(n)]

\* execute: the node's own work, which nothing preempts.  A panic in a worker
\* thread becomes NodeFailed when the thread is joined.
ExecuteWork(n) ==
    /\ phase = "run"
    /\ worker[n] = "working"
    /\ verdict[n] = "panic" => Parallel
    /\ worker' = [worker EXCEPT ![n] = "joined"]
    /\ result' = [result EXCEPT ![n] = ResultOf(n)]
    /\ UNCHANGED <<given, now, cancelled, control>>

\* A panic in a node that runs on the main thread unwinds through run.
ExecutePanic(n) ==
    /\ phase = "run"
    /\ worker[n] = "working"
    /\ verdict[n] = "panic"
    /\ ~Parallel
    /\ Stop([kind |-> "panic"])
    /\ UNCHANGED <<given, now, cancelled, placed, skipped, facts, worker, result, trace>>

-----------------------------------------------------------------------------
(* The surroundings.                                                       *)

Tick ==
    /\ now < MaxTime
    /\ now' = now + 1
    /\ UNCHANGED <<given, cancelled, worker, result, control>>

Cancel ==
    /\ ~cancelled
    /\ phase # "done"
    /\ cancelled' = TRUE
    /\ UNCHANGED <<given, now, worker, result, control>>

Finished == phase = "done" /\ UNCHANGED vars

Init ==
    /\ graph \in Graphs
    /\ verdict \in {v \in [Nodes -> {"ok", "quiet"} \cup Faults] :
                      /\ Cardinality({n \in Nodes : v[n] \in Faults}) <= MaxFaults
                      /\ \A n \in Nodes : v[n] = "quiet" => Kind[n] = "rule"}
    /\ now = 0
    /\ cancelled = FALSE
    /\ phase = "wave"
    /\ placed = {}
    /\ skipped = {}
    /\ facts = {}
    /\ worker = [n \in Nodes |-> "idle"]
    /\ result = [n \in Nodes |-> NoResult]
    /\ trace = <<>>
    /\ outcome = Running

Main ==
    \/ WaveRefused \/ WaveSkipped \/ WaveStart \/ WaveJoin \/ WaveEnd \/ Assemble
    \/ \E n \in Nodes : MergeError(n) \/ MergeOk(n)

Execute(n) == ExecuteGuard(n) \/ ExecuteWork(n) \/ ExecutePanic(n)

Next == Main \/ (\E n \in Nodes : Execute(n)) \/ Tick \/ Cancel \/ Finished

\* The main thread and every worker keep running: threads are scheduled and a
\* node's own work returns.  The clock and the caller owe nothing.
Fairness == WF_vars(Main) /\ \A n \in UNION {g.nodes : g \in Graphs} : WF_vars(n \in Nodes /\ Execute(n))

Spec == Init /\ [][Next]_vars
FairSpec == Spec /\ Fairness

-----------------------------------------------------------------------------
(* Properties.                                                             *)

Merged == {trace[i] : i \in DOMAIN trace}

\* A node is handed to a worker only when every dependency has been executed
\* and merged, and neither it nor a dependency was skipped: a branch that did
\* not fire silences everything downstream, at any distance (mark_skipped).
DependenciesFirst ==
    \A n \in Nodes : worker[n] # "idle" =>
        /\ Deps[n] \subseteq Merged
        /\ n \notin skipped
        /\ Deps[n] \cap skipped = {}

\* The failure a run reports is that of the failing node with the least id in
\* its wave, whichever worker failed first (the sorted merge of run_wave).
LeastFailureReported ==
    outcome.kind = "NodeFailed" =>
        \A m \in Runnable : m < outcome.node => verdict[m] \notin Faults

\* Reference: the waves as sets, level by level.
Level[i \in 0 .. Cardinality(Nodes)] ==
    IF i = 0 THEN {}
    ELSE LET earlier == Level[i - 1]
         IN  earlier \cup {n \in Nodes : Deps[n] \subseteq earlier}

WaveNo(n) == Min({i \in DOMAIN Level : n \in Level[i]})

\* Reference: a run as a function of the graph and the nodes' verdicts alone,
\* one wave at a time, without workers.
Reference[i \in 0 .. Cardinality(Nodes)] ==
    IF i = 0 THEN [ran |-> {}, skipped |-> {}, facts |-> {}]
    ELSE LET before == Reference[i - 1]
             ran == Level[i] \ (Level[i - 1] \cup before.skipped)
             silent == {b \in ran : Kind[b] = "branch" /\ When[b] \notin {Always} \cup before.facts}
         IN  IF \E n \in before.ran : Kind[n] = "output" THEN before
             ELSE [ran |-> before.ran \cup ran,
                   skipped |-> before.skipped \cup Downstream(UNION {Dependents(b) : b \in silent}),
                   facts |-> before.facts \cup {n \in ran : Kind[n] = "rule" /\ verdict[n] = "ok"}]

\* A run that answers has executed the nodes, skipped the nodes and written
\* the facts the reference run has, and its trace lists the executed nodes
\* wave by wave and by id within a wave: thread scheduling shows nowhere.
ScheduleIndependent ==
    outcome.kind = "assembled" =>
        LET ref == Reference[Cardinality(Nodes)]
        IN  /\ Merged = ref.ran
            /\ skipped = ref.skipped
            /\ facts = ref.facts
            /\ \A i, j \in DOMAIN trace : i < j =>
                  \/ WaveNo(trace[i]) < WaveNo(trace[j])
                  \/ WaveNo(trace[i]) = WaveNo(trace[j]) /\ trace[i] < trace[j]

\* A run that was cancelled, or whose deadline passed, while a guard was still
\* ahead of it (before the next wave or in a worker that has not started its
\* node) never answers, whatever finishes in the meantime.
StopAhead ==
    /\ cancelled \/ now >= Limit
    /\ \/ phase = "wave" /\ Wave # {}
       \/ phase = "run" /\ \E n \in Runnable : worker[n] = "spawned"

StoppedRunNeverAnswers == [](StopAhead => [](outcome.kind # "assembled"))

\* Every run ends: it answers, or it reports an error.
Terminates == <>(phase = "done")

=============================================================================

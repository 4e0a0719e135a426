------------------------ MODULE WaveExecutorProofs ------------------------
(***************************************************************************)
(* Proofs about a run of the executor, for every set of graphs, every      *)
(* parallelism, time limit and number of misbehaving nodes.                *)
(***************************************************************************)
EXTENDS WaveExecutor, FiniteOrder

GuardErrors == {"Cancelled", "Timeout"}
Results == {NoResult} \cup [kind : GuardErrors \cup {"NodeFailed"}]
           \cup [kind : {"ok"}, fired : BOOLEAN]

\* Where each variable lives.
ExecTypeOK ==
    /\ graph \in Graphs
    /\ verdict \in [Nodes -> {"ok", "quiet"} \cup Faults]
    /\ now \in Nat
    /\ cancelled \in BOOLEAN
    /\ phase \in {"wave", "run", "merge", "done"}
    /\ placed \in SUBSET Nodes
    /\ skipped \in SUBSET Nodes
    /\ worker \in [Nodes -> {"idle", "spawned", "working", "joined"}]
    /\ result \in [Nodes -> Results]
    /\ trace \in Seq(Nodes)

\* The main thread leaves no dependency of a placed node behind.
PlacedClosed == \A n \in placed : Deps[n] \subseteq placed

\* What depends on a skipped node is skipped.
SkippedClosed == \A n \in skipped : Dependents(n) \subseteq skipped

\* The main thread moves on only when the nodes that may run have been merged.
PlacedMerged == placed \ skipped \subseteq Merged

\* Only nodes whose dependencies are behind the main thread get a worker, and
\* no later branch silences them.
WorkersReady ==
    \A n \in Nodes : worker[n] # "idle" => Deps[n] \subseteq placed /\ n \notin skipped

\* A joined worker left a result; a result that is gone has been merged.
ResultsKept ==
    /\ phase = "run" => \A n \in Runnable : worker[n] = "joined" => result[n] # NoResult
    /\ phase = "merge" => \A n \in Runnable : result[n] # NoResult \/ n \in Merged

\* A node that was merged did not fail, and neither did one about to be.
OnlySoundMerged ==
    /\ \A n \in Merged : verdict[n] \notin Faults
    /\ \A n \in Nodes : result[n].kind = "ok" => verdict[n] \notin Faults

\* A run has an outcome when it is done.
OutcomeWhenDone == phase # "done" => outcome = Running

\* The inductive invariant.
ExecInv ==
    /\ ExecTypeOK
    /\ PlacedClosed
    /\ SkippedClosed
    /\ PlacedMerged
    /\ WorkersReady
    /\ ResultsKept
    /\ OnlySoundMerged
    /\ OutcomeWhenDone
    /\ LeastFailureReported

-----------------------------------------------------------------------------
(* Facts about the graph and the helpers.                                  *)

\* Every graph an engine is built with has the shape of the assumption.
LEMMA GraphShape ==
  ASSUME graph \in Graphs
  PROVE  /\ Nodes \subseteq Nat \ {Always}
         /\ Deps \in [Nodes -> SUBSET Nodes]
         /\ Kind \in [Nodes -> Kinds]
         /\ When \in [Nodes -> Nat]
  BY ExecutorAssumption DEF Nodes, Deps, Kind, When

\* What lies below a node is closed under dependents.
LEMMA BelowClosed ==
  ASSUME NEW n \in Nodes, NEW c \in Below[n]
  PROVE  Dependents(c) \subseteq Below[n]
  <1>1. \A C \in SUBSET Nodes :
           (n \in C /\ \A d \in C : Dependents(d) \subseteq C) => c \in C
    BY DEF Below
  <1> SUFFICES ASSUME NEW m \in Dependents(c) PROVE m \in Below[n]
    OBVIOUS
  <1>2. m \in Nodes
    BY DEF Dependents
  <1>3. ASSUME NEW C \in SUBSET Nodes, n \in C, \A d \in C : Dependents(d) \subseteq C
        PROVE  m \in C
    BY <1>1, <1>3
  <1> QED
    BY <1>2, <1>3 DEF Below

\* What lies below a node stays within every closed set that holds the node.
LEMMA BelowWithin ==
  ASSUME NEW n \in Nodes, NEW C \in SUBSET Nodes, n \in C,
         \A c \in C : Dependents(c) \subseteq C
  PROVE  Below[n] \subseteq C
  BY DEF Below

\* What a branch that does not fire silences: nodes only, everything that
\* depends on them, and no node whose dependencies are behind the main thread.
LEMMA DownstreamOfWave ==
  ASSUME ExecInv, NEW n \in Wave
  PROVE  /\ Downstream(Dependents(n)) \subseteq Nodes
         /\ \A m \in Downstream(Dependents(n)) :
               /\ Dependents(m) \subseteq Downstream(Dependents(n))
               /\ ~(Deps[m] \subseteq placed)
  <1> DEFINE Ahead == {m \in Nodes : ~(Deps[m] \subseteq placed)}
  <1>1. n \in Nodes /\ n \notin placed
    BY DEF Wave
  <1>2. Dependents(n) \subseteq Ahead
    BY <1>1 DEF Dependents
  <1>3. \A c \in Ahead : Dependents(c) \subseteq Ahead
    BY DEF Dependents, ExecInv, PlacedClosed
  <1>4. ASSUME NEW d \in Dependents(n)
        PROVE  /\ Below[d] \subseteq Ahead
               /\ \A m \in Below[d] : Dependents(m) \subseteq Below[d]
    <2>1. d \in Nodes /\ d \in Ahead /\ Ahead \in SUBSET Nodes
      BY <1>2
    <2>2. Below[d] \subseteq Ahead
      BY <1>3, <2>1, BelowWithin
    <2> QED
      BY <2>1, <2>2, BelowClosed
  <1> QED
    BY <1>4 DEF Downstream

\* The merged nodes after one more trace entry.
LEMMA AppendMerged ==
  ASSUME trace \in Seq(Nodes), NEW n \in Nodes, trace' = Append(trace, n)
  PROVE  Merged' = Merged \cup {n}
  <1>1. /\ Len(trace) \in Nat
        /\ DOMAIN trace = 1 .. Len(trace)
        /\ DOMAIN trace' = 1 .. Len(trace) + 1
        /\ \A i \in DOMAIN trace : trace'[i] = trace[i]
        /\ trace'[Len(trace) + 1] = n
    OBVIOUS
  <1> QED
    BY <1>1 DEF Merged

-----------------------------------------------------------------------------
(* The invariant, step by step.                                            *)

\* No step changes the graph the run walks.
LEMMA SameGraph ==
  ASSUME UNCHANGED given
  PROVE  /\ Nodes' = Nodes /\ Deps' = Deps /\ Kind' = Kind /\ When' = When
         /\ graph' = graph /\ verdict' = verdict
         /\ \A n : Dependents(n)' = Dependents(n)
  BY DEF given, Nodes, Deps, Kind, When, Dependents

\* A run begins with the invariant.
LEMMA ExecInitInv == Init => ExecInv
  <1> SUFFICES ASSUME Init PROVE ExecInv
    OBVIOUS
  <1>1. ExecTypeOK
    <2>1. verdict \in [Nodes -> {"ok", "quiet"} \cup Faults]
      BY DEF Init
    <2>2. worker \in [Nodes -> {"idle", "spawned", "working", "joined"}]
      BY DEF Init
    <2>3. result \in [Nodes -> Results]
      BY DEF Init, Results
    <2>4. trace \in Seq(Nodes)
      BY DEF Init
    <2>5. /\ graph \in Graphs /\ now \in Nat /\ cancelled \in BOOLEAN
          /\ phase \in {"wave", "run", "merge", "done"}
          /\ placed \in SUBSET Nodes /\ skipped \in SUBSET Nodes
      BY DEF Init
    <2> QED
      BY <2>1, <2>2, <2>3, <2>4, <2>5 DEF ExecTypeOK
  <1>2. Merged = {}
    BY DEF Init, Merged
  <1> QED
    BY <1>1, <1>2 DEF Init, ExecInv, PlacedClosed, SkippedClosed, PlacedMerged, WorkersReady,
       ResultsKept, OnlySoundMerged, OutcomeWhenDone, LeastFailureReported, NoResult, Running

\* A step that moves the main thread, the clock or the token and nothing else.
LEMMA ControlStepKeepsInv ==
  ASSUME ExecInv, UNCHANGED given, UNCHANGED <<placed, skipped, worker, result, trace>>,
         now' \in Nat, cancelled' \in BOOLEAN, phase' \in {"wave", "run", "merge", "done"},
         ResultsKept', OutcomeWhenDone', LeastFailureReported'
  PROVE  ExecInv'
  <1>1. Merged' = Merged
    BY DEF Merged
  <1>2. ExecTypeOK'
    BY SameGraph DEF ExecInv, ExecTypeOK
  <1>3. PlacedClosed' /\ SkippedClosed' /\ PlacedMerged' /\ WorkersReady'
    BY <1>1, SameGraph DEF ExecInv, PlacedClosed, SkippedClosed, PlacedMerged, WorkersReady
  <1>4. OnlySoundMerged'
    BY <1>1, SameGraph DEF ExecInv, OnlySoundMerged
  <1> QED
    BY <1>2, <1>3, <1>4 DEF ExecInv

\* The main thread leaves a wave behind whose runnable nodes are merged.
LEMMA WaveBehindKeepsInv ==
  ASSUME ExecInv, UNCHANGED given, UNCHANGED <<now, cancelled, skipped, worker, result, trace, outcome>>,
         placed' = placed \cup Wave, Runnable \subseteq Merged, phase # "done", phase' = "wave"
  PROVE  ExecInv'
  <1>1. Merged' = Merged
    BY DEF Merged
  <1>2. ExecTypeOK'
    BY SameGraph DEF ExecInv, ExecTypeOK, Wave
  <1>3. PlacedClosed'
    BY SameGraph DEF ExecInv, PlacedClosed, Wave
  <1>4. SkippedClosed' /\ WorkersReady'
    BY SameGraph DEF ExecInv, SkippedClosed, WorkersReady
  <1>5. PlacedMerged'
    BY <1>1 DEF ExecInv, PlacedMerged, Runnable
  <1>6. ResultsKept' /\ OutcomeWhenDone' /\ LeastFailureReported'
    BY DEF ExecInv, ResultsKept, OutcomeWhenDone, LeastFailureReported, Running
  <1>7. OnlySoundMerged'
    BY <1>1, SameGraph DEF ExecInv, OnlySoundMerged
  <1> QED
    BY <1>2, <1>3, <1>4, <1>5, <1>6, <1>7 DEF ExecInv

\* The runnable nodes are handed to workers: their dependencies are placed.
LEMMA WaveStartKeepsInv == ExecInv /\ WaveStart => ExecInv'
  <1> SUFFICES ASSUME ExecInv, WaveStart PROVE ExecInv'
    OBVIOUS
  <1>0. UNCHANGED given
    BY DEF WaveStart
  <1>1. Merged' = Merged /\ Runnable' = Runnable
    BY <1>0, SameGraph DEF WaveStart, Merged, Runnable, Wave
  <1>2. ExecTypeOK'
    BY <1>0, SameGraph DEF WaveStart, ExecInv, ExecTypeOK
  <1>3. PlacedClosed' /\ SkippedClosed' /\ PlacedMerged'
    BY <1>0, <1>1, SameGraph DEF WaveStart, ExecInv, PlacedClosed, SkippedClosed, PlacedMerged
  <1>4. WorkersReady'
    <2> SUFFICES ASSUME NEW n \in Nodes, worker'[n] # "idle"
                 PROVE  Deps[n] \subseteq placed /\ n \notin skipped
      BY <1>0, SameGraph DEF WaveStart, WorkersReady
    <2>1. CASE n \in Runnable
      BY <2>1 DEF Runnable, Wave
    <2>2. CASE n \notin Runnable
      BY <2>2 DEF WaveStart, ExecInv, WorkersReady
    <2> QED
      BY <2>1, <2>2
  <1>5. ResultsKept'
    <2>1. \A n \in Runnable : worker'[n] = "spawned"
      BY DEF WaveStart, Runnable, Wave
    <2> QED
      BY <1>1, <2>1 DEF WaveStart, ResultsKept
  <1>6. OnlySoundMerged' /\ OutcomeWhenDone' /\ LeastFailureReported'
    BY <1>0, <1>1, SameGraph DEF WaveStart, ExecInv, OnlySoundMerged, OutcomeWhenDone,
       LeastFailureReported, Running
  <1> QED
    BY <1>2, <1>3, <1>4, <1>5, <1>6 DEF ExecInv

\* A worker moves on: it starts, or joins with a result of its own.
LEMMA WorkerStepKeepsInv ==
  ASSUME ExecInv, phase = "run", UNCHANGED given, UNCHANGED <<now, cancelled, control>>,
         NEW n \in Nodes, worker[n] # "idle",
         NEW w \in {"working", "joined"}, worker' = [worker EXCEPT ![n] = w],
         NEW r \in Results, result' = [result EXCEPT ![n] = r],
         w = "joined" => r # NoResult,
         r.kind = "ok" => verdict[n] \notin Faults
  PROVE  ExecInv'
  <1>1. Merged' = Merged /\ Runnable' = Runnable
    BY SameGraph DEF control, Merged, Runnable, Wave
  <1>2. ExecTypeOK'
    BY SameGraph DEF control, ExecInv, ExecTypeOK
  <1>3. PlacedClosed' /\ SkippedClosed' /\ PlacedMerged'
    BY <1>1, SameGraph DEF control, ExecInv, PlacedClosed, SkippedClosed, PlacedMerged
  <1>4. /\ \A m \in Nodes : worker'[m] = IF m = n THEN w ELSE worker[m]
        /\ \A m \in Nodes : result'[m] = IF m = n THEN r ELSE result[m]
    BY DEF ExecInv, ExecTypeOK
  <1>5. WorkersReady'
    BY <1>4, SameGraph DEF control, ExecInv, WorkersReady
  <1>6. ResultsKept'
    BY <1>1, <1>4 DEF control, ExecInv, ResultsKept, Runnable, Wave
  <1>7. OnlySoundMerged'
    BY <1>1, <1>4, SameGraph DEF control, ExecInv, OnlySoundMerged
  <1>8. OutcomeWhenDone' /\ LeastFailureReported'
    BY <1>1, SameGraph DEF control, ExecInv, OutcomeWhenDone, LeastFailureReported
  <1> QED
    BY <1>2, <1>3, <1>5, <1>6, <1>7, <1>8 DEF ExecInv

\* Merging a node: what a silent branch adds to the skipped nodes has no worker.
LEMMA MergeOkKeepsInv ==
  ASSUME ExecInv, NEW n \in Nodes, MergeOk(n)
  PROVE  ExecInv'
  <1> DEFINE S == IF Kind[n] = "branch" /\ ~result[n].fired THEN Downstream(Dependents(n)) ELSE {}
  <1>0. UNCHANGED given
    BY DEF MergeOk
  <1>1. n \in Runnable /\ n \in Wave /\ result[n].kind = "ok"
    BY DEF MergeOk, MergesNext, Unmerged, Runnable
  <1>2. /\ S \subseteq Nodes
        /\ \A m \in S : Dependents(m) \subseteq S /\ ~(Deps[m] \subseteq placed)
    BY <1>1, DownstreamOfWave
  <1>3. skipped' = skipped \cup S
    BY DEF MergeOk
  <1> HIDE DEF S
  <1>4. Merged' = Merged \cup {n}
    BY AppendMerged DEF MergeOk, ExecInv, ExecTypeOK
  <1>5. Runnable' \subseteq Runnable
    BY <1>0, <1>3, SameGraph DEF MergeOk, Runnable, Wave
  <1>6. ExecTypeOK'
    <2>1. trace' \in Seq(Nodes)
      BY DEF MergeOk, ExecInv, ExecTypeOK
    <2>2. result' \in [Nodes -> Results]
      BY DEF MergeOk, ExecInv, ExecTypeOK, Results
    <2> QED
      BY <1>0, <1>2, <1>3, <2>1, <2>2, SameGraph DEF MergeOk, ExecInv, ExecTypeOK
  <1>7. PlacedClosed'
    BY <1>0, SameGraph DEF MergeOk, ExecInv, PlacedClosed
  <1>8. SkippedClosed'
    BY <1>0, <1>2, <1>3, SameGraph DEF ExecInv, SkippedClosed
  <1>9. PlacedMerged'
    BY <1>3, <1>4 DEF MergeOk, ExecInv, PlacedMerged
  <1>10. WorkersReady'
    BY <1>0, <1>2, <1>3, SameGraph DEF MergeOk, ExecInv, WorkersReady
  <1>11. \A m \in Nodes : result'[m] = IF m = n THEN NoResult ELSE result[m]
    BY DEF MergeOk, ExecInv, ExecTypeOK
  <1>12. ResultsKept'
    BY <1>4, <1>5, <1>11 DEF MergeOk, ExecInv, ResultsKept, Runnable, Wave
  <1>13. OnlySoundMerged'
    BY <1>0, <1>1, <1>4, <1>11, SameGraph DEF ExecInv, OnlySoundMerged, NoResult
  <1>14. OutcomeWhenDone' /\ LeastFailureReported'
    BY DEF MergeOk, ExecInv, OutcomeWhenDone, LeastFailureReported, Running
  <1> QED
    BY <1>6, <1>7, <1>8, <1>9, <1>10, <1>12, <1>13, <1>14 DEF ExecInv

\* The failure that ends a run: every smaller runnable node has been merged.
LEMMA MergeErrorKeepsInv ==
  ASSUME ExecInv, NEW n \in Nodes, MergeError(n)
  PROVE  ExecInv'
  <1>0. UNCHANGED given
    BY DEF MergeError
  <1>1. phase' = "done" /\ phase = "merge" /\ n \in Unmerged /\ Unmerged \subseteq Nodes
        /\ \A m \in Unmerged : n <= m
    BY DEF MergeError, MergesNext, Stop, Unmerged, Runnable, Wave
  <1>2. Runnable' = Runnable /\ Runnable \subseteq Nodes
    BY <1>0, SameGraph DEF MergeError, Runnable, Wave
  <1>3. LeastFailureReported'
    <2> SUFFICES ASSUME outcome'.kind = "NodeFailed", NEW m \in Runnable, m < outcome'.node
                 PROVE  verdict[m] \notin Faults
      BY <1>0, <1>2, SameGraph DEF LeastFailureReported
    <2>1. outcome'.node = n
      BY DEF MergeError, Stop
    <2>2. m \notin Unmerged
      BY <1>1, <1>2, <2>1, GraphShape DEF ExecInv, ExecTypeOK
    <2>3. m \in Merged
      BY <1>1, <2>2 DEF Unmerged, ExecInv, ResultsKept
    <2> QED
      BY <2>3 DEF ExecInv, OnlySoundMerged
  <1>4. ResultsKept' /\ OutcomeWhenDone'
    BY <1>1 DEF ResultsKept, OutcomeWhenDone
  <1> QED
    BY <1>0, <1>1, <1>3, <1>4, ControlStepKeepsInv DEF MergeError, ExecInv, ExecTypeOK

\* The guard of a worker, passed or not.
LEMMA ExecuteGuardKeepsInv ==
  ASSUME ExecInv, NEW n \in Nodes, ExecuteGuard(n)
  PROVE  ExecInv'
  <1>1. /\ phase = "run" /\ worker[n] = "spawned"
        /\ UNCHANGED given /\ UNCHANGED <<now, cancelled, control>>
    BY DEF ExecuteGuard
  <1>2. CASE Guard = "pass" /\ worker' = [worker EXCEPT ![n] = "working"] /\ UNCHANGED result
    <2>1. result' = [result EXCEPT ![n] = result[n]] /\ result[n] \in Results
      BY <1>2 DEF ExecInv, ExecTypeOK
    <2>2. result[n].kind = "ok" => verdict[n] \notin Faults
      BY DEF ExecInv, OnlySoundMerged
    <2> QED
      BY <1>1, <1>2, <2>1, <2>2, WorkerStepKeepsInv
  <1>3. CASE /\ Guard # "pass" /\ worker' = [worker EXCEPT ![n] = "joined"]
             /\ result' = [result EXCEPT ![n] = [kind |-> Guard]]
    <2>1. Guard \in GuardErrors
      BY <1>3 DEF Guard, GuardErrors
    <2>2. [kind |-> Guard] \in Results /\ [kind |-> Guard] # NoResult /\ [kind |-> Guard].kind # "ok"
      BY <2>1 DEF Results, NoResult, GuardErrors
    <2> QED
      BY <1>1, <1>3, <2>2, WorkerStepKeepsInv
  <1> QED
    BY <1>2, <1>3 DEF ExecuteGuard

\* The work of a node.
LEMMA ExecuteWorkKeepsInv ==
  ASSUME ExecInv, NEW n \in Nodes, ExecuteWork(n)
  PROVE  ExecInv'
  <1>1. /\ phase = "run" /\ worker[n] = "working"
        /\ UNCHANGED given /\ UNCHANGED <<now, cancelled, control>>
        /\ worker' = [worker EXCEPT ![n] = "joined"]
        /\ result' = [result EXCEPT ![n] = ResultOf(n)]
    BY DEF ExecuteWork
  <1>2. ResultOf(n) \in Results
    <2>1. (Kind[n] = "branch" /\ Fires(n)) \in BOOLEAN
      OBVIOUS
    <2> QED
      BY <2>1 DEF ResultOf, Results
  <1>3. ResultOf(n) # NoResult /\ (ResultOf(n).kind = "ok" => verdict[n] \notin Faults)
    BY DEF ResultOf, NoResult
  <1> QED
    BY <1>1, <1>2, <1>3, WorkerStepKeepsInv

\* Every step of a run keeps the inductive invariant.
LEMMA ExecStepInv == ExecInv /\ [Next]_vars => ExecInv'
  <1> SUFFICES ASSUME ExecInv, [Next]_vars PROVE ExecInv'
    OBVIOUS
  <1>1. CASE WaveRefused
    BY <1>1, ControlStepKeepsInv DEF WaveRefused, Stop, ExecInv, ExecTypeOK, ResultsKept, OutcomeWhenDone,
       LeastFailureReported, Guard
  <1>2. CASE WaveSkipped
    BY <1>2, WaveBehindKeepsInv DEF WaveSkipped
  <1>3. CASE WaveStart
    BY <1>3, WaveStartKeepsInv
  <1>4. CASE WaveJoin
    <2>1. Runnable' = Runnable /\ Merged' = Merged /\ \A n \in Runnable : worker[n] = "joined"
      BY <1>4, SameGraph DEF WaveJoin, Runnable, Wave, Merged, Unfinished
    <2>2. ResultsKept' /\ OutcomeWhenDone' /\ LeastFailureReported'
      BY <1>4, <2>1 DEF WaveJoin, ExecInv, ResultsKept, OutcomeWhenDone, LeastFailureReported, Running
    <2> QED
      BY <1>4, <2>2, ControlStepKeepsInv DEF WaveJoin, ExecInv, ExecTypeOK
  <1>5. CASE WaveEnd
    <2>1. Runnable \subseteq Merged
      BY <1>5 DEF WaveEnd, Unmerged, ExecInv, ResultsKept
    <2> QED
      BY <1>5, <2>1, WaveBehindKeepsInv DEF WaveEnd
  <1>6. CASE Assemble
    BY <1>6, ControlStepKeepsInv DEF Assemble, Stop, ExecInv, ExecTypeOK, ResultsKept, OutcomeWhenDone,
       LeastFailureReported
  <1>7. ASSUME NEW n \in Nodes, MergeError(n) PROVE ExecInv'
    BY <1>7, MergeErrorKeepsInv
  <1>8. ASSUME NEW n \in Nodes, MergeOk(n) PROVE ExecInv'
    BY <1>8, MergeOkKeepsInv
  <1>9. ASSUME NEW n \in Nodes, ExecuteGuard(n) PROVE ExecInv'
    BY <1>9, ExecuteGuardKeepsInv
  <1>10. ASSUME NEW n \in Nodes, ExecuteWork(n) PROVE ExecInv'
    BY <1>10, ExecuteWorkKeepsInv
  <1>11. ASSUME NEW n \in Nodes, ExecutePanic(n) PROVE ExecInv'
    BY <1>11, ControlStepKeepsInv DEF ExecutePanic, Stop, ExecInv, ExecTypeOK, ResultsKept, OutcomeWhenDone,
       LeastFailureReported
  <1>12. CASE Tick \/ Cancel \/ UNCHANGED vars
    <2>1. /\ UNCHANGED given /\ UNCHANGED <<placed, skipped, worker, result, trace>>
          /\ phase' = phase /\ outcome' = outcome
      BY <1>12 DEF Tick, Cancel, vars, given, control
    <2>2. now' \in Nat
      BY <1>12 DEF Tick, Cancel, vars, ExecInv, ExecTypeOK
    <2>3. cancelled' \in BOOLEAN
      BY <1>12, Zenon DEF Tick, Cancel, vars, ExecInv, ExecTypeOK
    <2>4. Runnable' = Runnable /\ Merged' = Merged
      BY <2>1, SameGraph DEF Runnable, Wave, Merged
    <2>5. ResultsKept' /\ OutcomeWhenDone' /\ LeastFailureReported'
      BY <2>1, <2>4, SameGraph DEF ExecInv, ResultsKept, OutcomeWhenDone, LeastFailureReported
    <2> QED
      BY <2>1, <2>2, <2>3, <2>5, ControlStepKeepsInv DEF ExecInv, ExecTypeOK
  <1> QED
    BY <1>1, <1>2, <1>3, <1>4, <1>5, <1>6, <1>7, <1>8, <1>9, <1>10, <1>11, <1>12
       DEF Next, Main, Execute, Finished

\* The inductive invariant holds in every reachable state of a run.
THEOREM ExecInvariant == Spec => []ExecInv
  BY ExecInitInv, ExecStepInv, PTL DEF Spec

\* For every graph: a node is handed to a worker only when all it depends on has
\* been executed and merged, and nothing behind a silent branch ever is
\* (executor.rs run, mark_skipped).
THEOREM DependenciesComeFirst == Spec => []DependenciesFirst
  <1>1. ExecInv => DependenciesFirst
    <2> SUFFICES ASSUME ExecInv, NEW n \in Nodes, worker[n] # "idle"
                 PROVE  /\ Deps[n] \subseteq Merged
                        /\ n \notin skipped
                        /\ Deps[n] \cap skipped = {}
      BY DEF DependenciesFirst
    <2>1. Deps[n] \subseteq placed /\ n \notin skipped
      BY DEF ExecInv, WorkersReady
    <2>2. Deps[n] \cap skipped = {}
      BY <2>1 DEF ExecInv, SkippedClosed, Dependents
    <2> QED
      BY <2>1, <2>2 DEF ExecInv, PlacedMerged
  <1> QED
    BY <1>1, ExecInvariant, PTL

\* For every graph and every interleaving of the workers: the failure reported
\* is that of the least failing node of its wave (executor.rs run_wave).
THEOREM LeastFailureIsReported == Spec => []LeastFailureReported
  <1>1. ExecInv => LeastFailureReported
    BY DEF ExecInv
  <1> QED
    BY <1>1, ExecInvariant, PTL
-----------------------------------------------------------------------------
(* A stop that some guard is still to see.                                 *)

Stopped == cancelled \/ now >= Limit

\* A worker found its guard failing and its error has yet to be merged.
Refusal == \E n \in Runnable : worker[n] = "joined" /\ result[n].kind \in GuardErrors

\* The run is stopped, and the stop ahead of it will be or has been seen.
Doomed ==
    /\ Stopped
    /\ \/ phase = "wave" /\ Wave # {}
       \/ phase = "run" /\ \E n \in Runnable : worker[n] = "spawned"
       \/ phase \in {"run", "merge"} /\ Refusal
       \/ phase = "done" /\ outcome.kind # "assembled"

\* A stop is never taken back.
LEMMA StopLasts ==
  ASSUME ExecInv, Stopped, [Next]_vars
  PROVE  Stopped'
  <1>1. cancelled' = cancelled \/ cancelled' = TRUE
    BY DEF Next, Main, Execute, WaveRefused, WaveSkipped, WaveStart, WaveJoin, WaveEnd, Assemble, MergeError,
       MergeOk, ExecuteGuard, ExecuteWork, ExecutePanic, Tick, Cancel, Finished, vars
  <1>2. now' = now \/ now' = now + 1
    BY DEF Next, Main, Execute, WaveRefused, WaveSkipped, WaveStart, WaveJoin, WaveEnd, Assemble, MergeError,
       MergeOk, ExecuteGuard, ExecuteWork, ExecutePanic, Tick, Cancel, Finished, vars
  <1>3. now \in Nat /\ Limit \in Nat
    BY ExecutorAssumption DEF ExecInv, ExecTypeOK
  <1>4. now >= Limit => now' >= Limit
    BY <1>2, <1>3
  <1> QED
    BY <1>1, <1>4 DEF Stopped

\* While a run is stopped every guard fails.
LEMMA StoppedGuard ==
  ASSUME Stopped
  PROVE  Guard # "pass" /\ Guard \in GuardErrors
  BY DEF Stopped, Guard, GuardErrors

\* A refusal that waits to be merged is not moved past.
LEMMA RefusalUnmerged ==
  ASSUME Refusal
  PROVE  Unmerged # {}
  BY DEF Refusal, Unmerged, NoResult, GuardErrors

\* No step leads out of a stop that a guard is to see.
LEMMA DoomedStep ==
  ASSUME ExecInv, Doomed, [Next]_vars
  PROVE  Doomed'
  <1>1. Stopped /\ Stopped' /\ Guard # "pass" /\ Guard \in GuardErrors
    BY StopLasts, StoppedGuard DEF Doomed
  <1>2. CASE WaveRefused
    BY <1>1, <1>2 DEF WaveRefused, Stop, Doomed, GuardErrors
  <1>3. CASE WaveSkipped \/ WaveStart
    BY <1>1, <1>3 DEF WaveSkipped, WaveStart
  <1>4. CASE WaveJoin
    <2>1. Refusal
      BY <1>4 DEF WaveJoin, Doomed, Unfinished
    <2>2. UNCHANGED given /\ UNCHANGED <<placed, skipped, worker, result>> /\ phase' = "merge"
      BY <1>4 DEF WaveJoin
    <2>3. Refusal'
      BY <2>1, <2>2, SameGraph DEF Refusal, Runnable, Wave
    <2> QED
      BY <1>1, <2>2, <2>3 DEF Doomed
  <1>5. CASE WaveEnd
    BY <1>5, RefusalUnmerged DEF WaveEnd, Doomed
  <1>6. CASE Assemble
    BY <1>6, RefusalUnmerged DEF Assemble, Doomed
  <1>7. ASSUME NEW n \in Nodes, MergeError(n) PROVE Doomed'
    <2>1. result[n] \in Results
      BY DEF ExecInv, ExecTypeOK
    <2>2. result[n].kind # "assembled"
      BY <2>1 DEF Results, NoResult, GuardErrors
    <2>3. phase' = "done" /\ outcome'.kind # "assembled"
      BY <1>7, <2>2 DEF MergeError, Stop
    <2> QED
      BY <1>1, <2>3 DEF Doomed
  <1>8. ASSUME NEW n \in Nodes, MergeOk(n) PROVE Doomed'
    <2>1. Refusal /\ phase' = "merge"
      BY <1>8 DEF MergeOk, Doomed
    <2>2. PICK m \in Runnable : worker[m] = "joined" /\ result[m].kind \in GuardErrors
      BY <2>1 DEF Refusal
    <2>3. UNCHANGED given /\ UNCHANGED <<placed, worker>>
      BY <1>8 DEF MergeOk
    <2>4. Wave' = Wave
      BY <2>3, SameGraph DEF Wave
    <2>5. n # m /\ n \in Wave
      BY <1>8, <2>2 DEF MergeOk, MergesNext, Unmerged, Runnable, GuardErrors
    <2>6. m \notin skipped'
      BY <1>8, <2>2, <2>5, DownstreamOfWave DEF MergeOk, Runnable, Wave
    <2>7. m \in Nodes /\ result \in [Nodes -> Results]
      BY <2>2 DEF Runnable, Wave, ExecInv, ExecTypeOK
    <2>8. result'[m] = result[m]
      BY <1>8, <2>5, <2>7 DEF MergeOk
    <2>9. m \in Runnable'
      BY <2>2, <2>4, <2>6 DEF Runnable
    <2> QED
      BY <1>1, <2>1, <2>2, <2>3, <2>8, <2>9 DEF Doomed, Refusal
  <1>9. ASSUME NEW n \in Nodes, ExecuteGuard(n) PROVE Doomed'
    <2>1. UNCHANGED given /\ UNCHANGED <<placed, skipped>> /\ phase' = "run" /\ n \in Runnable
      BY <1>9 DEF ExecuteGuard, control, MayRun
    <2>2. Runnable' = Runnable
      BY <2>1, SameGraph DEF Runnable, Wave
    <2>3. worker \in [Nodes -> {"idle", "spawned", "working", "joined"}] /\ result \in [Nodes -> Results]
      BY DEF ExecInv, ExecTypeOK
    <2>4. worker' = [worker EXCEPT ![n] = "joined"] /\ result' = [result EXCEPT ![n] = [kind |-> Guard]]
      BY <1>1, <1>9 DEF ExecuteGuard
    <2>5. worker'[n] = "joined" /\ result'[n].kind \in GuardErrors
      BY <1>1, <2>3, <2>4
    <2> QED
      BY <1>1, <2>1, <2>2, <2>5 DEF Doomed, Refusal
  <1>10. ASSUME NEW n \in Nodes, ExecuteWork(n) PROVE Doomed'
    <2>1. UNCHANGED given /\ UNCHANGED <<placed, skipped>> /\ phase = "run" /\ phase' = "run"
      BY <1>10 DEF ExecuteWork, control
    <2>2. Runnable' = Runnable /\ Runnable \subseteq Nodes
      BY <2>1, SameGraph DEF Runnable, Wave
    <2>3. worker \in [Nodes -> {"idle", "spawned", "working", "joined"}] /\ result \in [Nodes -> Results]
      BY DEF ExecInv, ExecTypeOK
    <2>4. \A m \in Nodes \ {n} : worker'[m] = worker[m] /\ result'[m] = result[m]
      BY <1>10, <2>3 DEF ExecuteWork
    <2>5. worker[n] = "working"
      BY <1>10 DEF ExecuteWork
    <2>6. CASE \E m \in Runnable : worker[m] = "spawned"
      BY <1>1, <2>1, <2>2, <2>4, <2>5, <2>6 DEF Doomed
    <2>7. CASE Refusal
      BY <1>1, <2>1, <2>2, <2>4, <2>5, <2>7 DEF Doomed, Refusal
    <2> QED
      BY <2>1, <2>6, <2>7 DEF Doomed
  <1>11. ASSUME NEW n \in Nodes, ExecutePanic(n) PROVE Doomed'
    BY <1>1, <1>11 DEF ExecutePanic, Stop, Doomed
  <1>12. CASE Tick \/ Cancel \/ UNCHANGED vars
    <2>1. /\ UNCHANGED given /\ UNCHANGED <<placed, skipped, worker, result>>
          /\ phase' = phase /\ outcome' = outcome
      BY <1>12 DEF Tick, Cancel, vars, given, control
    <2>2. Wave' = Wave /\ Runnable' = Runnable
      BY <2>1, SameGraph DEF Runnable, Wave
    <2> QED
      BY <1>1, <2>1, <2>2 DEF Doomed, Refusal
  <1> QED
    BY <1>2, <1>3, <1>4, <1>5, <1>6, <1>7, <1>8, <1>9, <1>10, <1>11, <1>12
       DEF Next, Main, Execute, Finished

\* For every graph and every interleaving of the workers: a run that was
\* cancelled or timed out while a guard was still ahead of it never answers
\* (executor.rs guard, called by run before a wave and by execute).
THEOREM StoppedRunsStayStopped == Spec => StoppedRunNeverAnswers
  <1>1. StopAhead => Doomed
    BY DEF StopAhead, Doomed, Stopped
  <1>2. ExecInv /\ Doomed => outcome.kind # "assembled"
    BY DEF ExecInv, OutcomeWhenDone, Running, Doomed
  <1>3. ExecInv /\ Doomed /\ [Next]_vars => Doomed'
    BY DoomedStep
  <1> QED
    BY <1>1, <1>2, <1>3, ExecInvariant, PTL DEF Spec, StoppedRunNeverAnswers

-----------------------------------------------------------------------------
(* The reference run beside the real one.                                  *)

\* What the nodes S of a wave do to a run that began the wave with facts f.
FactsOf(S) == {n \in S : Kind[n] = "rule" /\ verdict[n] = "ok"}
Silent(S, f) == {b \in S : Kind[b] = "branch" /\ When[b] \notin {Always} \cup f}
Silenced(S, f) == Downstream(UNION {Dependents(b) : b \in Silent(S, f)})

RefState == [ran : SUBSET Nodes, skipped : SUBSET Nodes, facts : SUBSET Nodes]

\* The nodes of wave i that the reference executes, and what it does with them.
RefRan(i, before) == Level[i] \ (Level[i - 1] \cup before.skipped)
RefStep(i, before) ==
    IF \E n \in before.ran : Kind[n] = "output" THEN before
    ELSE [ran     |-> before.ran \cup RefRan(i, before),
          skipped |-> before.skipped \cup Silenced(RefRan(i, before), before.facts),
          facts   |-> before.facts \cup FactsOf(RefRan(i, before))]

\* A graph has finitely many nodes.
LEMMA FiniteNodes ==
  graph \in Graphs => IsFiniteSet(Nodes) /\ Cardinality(Nodes) \in Nat
  BY ExecutorAssumption, FS_CardinalityType DEF Nodes

\* The levels, one at a time.
LEMMA LevelUnfold ==
  graph \in Graphs =>
    /\ Level \in [0 .. Cardinality(Nodes) -> SUBSET Nodes]
    /\ Level[0] = {}
    /\ \A i \in 1 .. Cardinality(Nodes) :
          Level[i] = Level[i - 1] \cup {n \in Nodes : Deps[n] \subseteq Level[i - 1]}
  <1> SUFFICES ASSUME graph \in Graphs
               PROVE  /\ Level \in [0 .. Cardinality(Nodes) -> SUBSET Nodes]
                      /\ Level[0] = {}
                      /\ \A i \in 1 .. Cardinality(Nodes) :
                            Level[i] = Level[i - 1] \cup {n \in Nodes : Deps[n] \subseteq Level[i - 1]}
    OBVIOUS
  <1> DEFINE Up(e) == e \cup {n \in Nodes : Deps[n] \subseteq e}
             Body(f) == [i \in 0 .. Cardinality(Nodes) |-> IF i = 0 THEN {} ELSE Up(f[i - 1])]
  <1>0. PICK V : V = SUBSET Nodes
    OBVIOUS
  <1>1. PICK N \in Nat, b \in V : N = Cardinality(Nodes) /\ b = {}
    BY <1>0, FiniteNodes
  <1>2. Level = CHOOSE f : f = Body(f)
    BY DEF Level
  <1>3. \A e \in V : Up(e) \in V
    BY <1>0
  <1> HIDE DEF Up
  <1>4. \E f : f = Body(f)
    <2>1. PICK next \in [1 .. N -> [V -> V]] : next = [i \in 1 .. N |-> [e \in V |-> Up(e)]]
      BY <1>3
    <2>2. PICK f \in [0 .. N -> V] : Follows(f, N, b, next)
      BY RecursionUpTo
    <2>3. ASSUME NEW i \in 0 .. N PROVE f[i] = IF i = 0 THEN b ELSE Up(f[i - 1])
      <3>1. i # 0 => i \in 1 .. N /\ i - 1 \in 0 .. N
        OBVIOUS
      <3> QED
        BY <2>1, <2>2, <3>1 DEF Follows
    <2>4. f = [i \in 0 .. N |-> IF i = 0 THEN b ELSE Up(f[i - 1])]
      BY <2>3
    <2>5. f = Body(f)
      BY <1>1, <2>4
    <2> HIDE DEF Body
    <2> QED
      BY <2>5
  <1>5. Level = Body(Level)
    <2> HIDE DEF Body
    <2> QED
      BY <1>2, <1>4
  <1>6. Level = [i \in 0 .. N |-> IF i = 0 THEN b ELSE Up(Level[i - 1])]
    BY <1>1, <1>5
  <1>7. Level[0] = b /\ \A i \in 1 .. N : Level[i] = Up(Level[i - 1])
    <2>1. 0 \in 0 .. N /\ \A i \in 1 .. N : i \in 0 .. N /\ i # 0
      OBVIOUS
    <2> QED
      BY <1>6, <2>1
  <1> DEFINE T == {i \in 0 .. N : Level[i] \in V}
  <1>8. 0 \in T
    BY <1>7
  <1>9. ASSUME NEW i \in 0 .. N, i > 0, i - 1 \in T PROVE i \in T
    BY <1>3, <1>7, <1>9
  <1>10. 0 .. N \subseteq T
    <2> HIDE DEF T
    <2> QED
      BY <1>8, <1>9, UpTo
  <1>11. Level \in [0 .. N -> V]
    BY <1>6, <1>10
  <1> QED
    BY <1>0, <1>1, <1>7, <1>11 DEF Up

\* Later levels hold the earlier ones.
LEMMA LevelGrows ==
  ASSUME graph \in Graphs, NEW i \in 0 .. Cardinality(Nodes), NEW j \in 0 .. Cardinality(Nodes), i <= j
  PROVE  Level[i] \subseteq Level[j]
  <1>1. PICK N \in Nat : N = Cardinality(Nodes)
    BY FiniteNodes
  <1> DEFINE T == {k \in 0 .. N : i <= k => Level[i] \subseteq Level[k]}
  <1>2. 0 \in T
    BY <1>1
  <1>3. ASSUME NEW k \in 0 .. N, k > 0, k - 1 \in T PROVE k \in T
    <2>1. k \in 1 .. N /\ Level[k - 1] \subseteq Level[k]
      BY <1>1, <1>3, LevelUnfold
    <2>2. i <= k => i = k \/ i <= k - 1
      BY <1>1
    <2> QED
      BY <1>3, <2>1, <2>2
  <1>4. 0 .. N \subseteq T
    <2> HIDE DEF T
    <2> QED
      BY <1>2, <1>3, UpTo
  <1> QED
    BY <1>1, <1>4

\* A node's wave is the first level that holds it.
LEMMA WaveNoIs ==
  ASSUME graph \in Graphs, NEW k \in 0 .. Cardinality(Nodes)
  PROVE  /\ \A n \in Level[k] : WaveNo(n) \in 0 .. k
         /\ k > 0 => \A n \in Level[k] \ Level[k - 1] : WaveNo(n) = k
  <1>1. PICK N \in Nat : N = Cardinality(Nodes)
    BY FiniteNodes
  <1>2. DOMAIN Level = 0 .. N
    BY <1>1, LevelUnfold
  <1>3. ASSUME NEW n \in Level[k]
        PROVE  WaveNo(n) \in 0 .. k /\ n \in Level[WaveNo(n)]
    <2> DEFINE S == {i \in DOMAIN Level : n \in Level[i]}
    <2>1. S \in SUBSET Nat /\ S # {} /\ k \in S
      BY <1>1, <1>2
    <2>2. WaveNo(n) = CHOOSE x \in S : \A y \in S : x <= y
      BY DEF WaveNo, Min
    <2>3. \E x \in S : \A y \in S : x <= y
      <3> HIDE DEF S
      <3> QED
        BY <2>1, LeastNumber
    <2>4. WaveNo(n) \in S /\ \A y \in S : WaveNo(n) <= y
      <3> HIDE DEF S
      <3> QED
        BY <2>2, <2>3
    <2> QED
      BY <1>1, <1>2, <2>1, <2>4
  <1>4. ASSUME k > 0, NEW n \in Level[k] \ Level[k - 1]
        PROVE  WaveNo(n) = k
    <2>1. WaveNo(n) \in 0 .. k /\ n \in Level[WaveNo(n)]
      BY <1>3
    <2>2. CASE WaveNo(n) # k
      <3>1. WaveNo(n) \in 0 .. N /\ k - 1 \in 0 .. N /\ WaveNo(n) <= k - 1
        BY <1>1, <1>4, <2>1, <2>2
      <3>2. PICK i \in 0 .. N : i = WaveNo(n)
        BY <3>1
      <3>3. Level[i] \subseteq Level[k - 1]
        BY <1>1, <3>1, <3>2, LevelGrows
      <3> QED
        BY <1>4, <2>1, <3>2, <3>3
    <2> QED
      BY <2>2
  <1> QED
    BY <1>3, <1>4

\* What a silent branch silences are nodes.
LEMMA SilencedNodes ==
  ASSUME NEW S, NEW f
  PROVE  Silenced(S, f) \subseteq Nodes
  <1>1. \A b : Dependents(b) \subseteq Nodes
    BY DEF Dependents
  <1>2. \A n \in Nodes : Below[n] \subseteq Nodes
    BY DEF Below
  <1> QED
    BY <1>1, <1>2 DEF Silenced, Downstream

\* The reference run, one wave at a time.
LEMMA ReferenceUnfold ==
  graph \in Graphs =>
    /\ Reference \in [0 .. Cardinality(Nodes) -> RefState]
    /\ Reference[0] = [ran |-> {}, skipped |-> {}, facts |-> {}]
    /\ \A i \in 1 .. Cardinality(Nodes) : Reference[i] = RefStep(i, Reference[i - 1])
  <1> SUFFICES ASSUME graph \in Graphs
               PROVE  /\ Reference \in [0 .. Cardinality(Nodes) -> RefState]
                      /\ Reference[0] = [ran |-> {}, skipped |-> {}, facts |-> {}]
                      /\ \A i \in 1 .. Cardinality(Nodes) : Reference[i] = RefStep(i, Reference[i - 1])
    OBVIOUS
  <1> DEFINE Empty == [ran |-> {}, skipped |-> {}, facts |-> {}]
             Body(f) == [i \in 0 .. Cardinality(Nodes) |-> IF i = 0 THEN Empty ELSE RefStep(i, f[i - 1])]
  <1>0. PICK V : V = RefState
    OBVIOUS
  <1>1. PICK N \in Nat, b \in V : N = Cardinality(Nodes) /\ b = Empty
    <2>1. Empty \in V
      BY <1>0 DEF RefState
    <2> QED
      BY <2>1, FiniteNodes
  <1> HIDE DEF Empty
  <1>2. Reference = CHOOSE f : f = Body(f)
    BY DEF Reference, RefStep, RefRan, Silenced, Silent, FactsOf, Empty
  <1>3. \A i \in 1 .. N, e \in V : RefStep(i, e) \in V
    <2> SUFFICES ASSUME NEW i \in 1 .. N, NEW e \in V PROVE RefStep(i, e) \in V
      OBVIOUS
    <2>1. Level[i] \subseteq Nodes
      BY <1>1, LevelUnfold
    <2>2. RefRan(i, e) \subseteq Nodes /\ FactsOf(RefRan(i, e)) \subseteq Nodes
      BY <2>1 DEF RefRan, FactsOf
    <2>3. Silenced(RefRan(i, e), e.facts) \subseteq Nodes
      BY SilencedNodes
    <2> QED
      BY <1>0, <2>2, <2>3 DEF RefStep, RefState
  <1>4. \E f : f = Body(f)
    <2>1. PICK next \in [1 .. N -> [V -> V]] : next = [i \in 1 .. N |-> [e \in V |-> RefStep(i, e)]]
      BY <1>3
    <2>2. PICK f \in [0 .. N -> V] : Follows(f, N, b, next)
      BY RecursionUpTo
    <2>3. ASSUME NEW i \in 0 .. N PROVE f[i] = IF i = 0 THEN b ELSE RefStep(i, f[i - 1])
      <3>1. i # 0 => i \in 1 .. N /\ i - 1 \in 0 .. N
        OBVIOUS
      <3> QED
        BY <2>1, <2>2, <3>1 DEF Follows
    <2>4. f = [i \in 0 .. N |-> IF i = 0 THEN b ELSE RefStep(i, f[i - 1])]
      BY <2>3
    <2>5. f = Body(f)
      BY <1>1, <2>4
    <2> HIDE DEF Body
    <2> QED
      BY <2>5
  <1>5. Reference = Body(Reference)
    <2> HIDE DEF Body
    <2> QED
      BY <1>2, <1>4
  <1>6. Reference = [i \in 0 .. N |-> IF i = 0 THEN b ELSE RefStep(i, Reference[i - 1])]
    BY <1>1, <1>5
  <1>7. Reference[0] = b /\ \A i \in 1 .. N : Reference[i] = RefStep(i, Reference[i - 1])
    <2>1. 0 \in 0 .. N /\ \A i \in 1 .. N : i \in 0 .. N /\ i # 0
      OBVIOUS
    <2> QED
      BY <1>6, <2>1
  <1> DEFINE T == {i \in 0 .. N : Reference[i] \in V}
  <1>8. 0 \in T
    BY <1>7
  <1>9. ASSUME NEW i \in 0 .. N, i > 0, i - 1 \in T PROVE i \in T
    BY <1>3, <1>7, <1>9
  <1>10. 0 .. N \subseteq T
    <2> HIDE DEF T
    <2> QED
      BY <1>8, <1>9, UpTo
  <1>11. Reference \in [0 .. N -> V]
    BY <1>6, <1>10
  <1> QED
    BY <1>0, <1>1, <1>7, <1>11 DEF Empty

\* The reference is a function of the graph and the verdicts, which no step changes.
LEMMA SameReference ==
  ASSUME graph \in Graphs, UNCHANGED given
  PROVE  /\ Level' = Level /\ Reference' = Reference
         /\ \A n : WaveNo(n)' = WaveNo(n)
         /\ \A S, f : Silenced(S, f)' = Silenced(S, f) /\ FactsOf(S)' = FactsOf(S)
  <1>1. PICK N \in Nat : N = Cardinality(Nodes) /\ N = Cardinality(Nodes)'
    BY FiniteNodes, SameGraph
  <1>2. (graph \in Graphs)'
    BY SameGraph
  <1>3. /\ Level' \in [0 .. N -> SUBSET Nodes] /\ Level'[0] = {}
        /\ \A i \in 1 .. N : Level'[i] = Level'[i - 1] \cup {n \in Nodes : Deps[n] \subseteq Level'[i - 1]}
    <2>1. (/\ Level \in [0 .. Cardinality(Nodes) -> SUBSET Nodes]
           /\ Level[0] = {}
           /\ \A i \in 1 .. Cardinality(Nodes) :
                 Level[i] = Level[i - 1] \cup {n \in Nodes : Deps[n] \subseteq Level[i - 1]})'
      BY <1>2, LevelUnfold, PTL
    <2> QED
      BY <1>1, <2>1, SameGraph
  <1>4. /\ Level \in [0 .. N -> SUBSET Nodes] /\ Level[0] = {}
        /\ \A i \in 1 .. N : Level[i] = Level[i - 1] \cup {n \in Nodes : Deps[n] \subseteq Level[i - 1]}
    BY <1>1, LevelUnfold
  <1>5. Level' = Level
    <2> DEFINE T == {i \in 0 .. N : Level'[i] = Level[i]}
    <2>1. 0 \in T
      BY <1>3, <1>4
    <2>2. ASSUME NEW i \in 0 .. N, i > 0, i - 1 \in T PROVE i \in T
      <3>1. i \in 1 .. N /\ Level'[i - 1] = Level[i - 1]
        BY <2>2
      <3>2. Level'[i] = Level'[i - 1] \cup {n \in Nodes : Deps[n] \subseteq Level'[i - 1]}
        BY <1>3, <3>1
      <3>3. Level[i] = Level[i - 1] \cup {n \in Nodes : Deps[n] \subseteq Level[i - 1]}
        BY <1>4, <3>1
      <3>4. Level'[i] = Level[i]
        BY <3>1, <3>2, <3>3
      <3> QED
        BY <3>4
    <2>3. 0 .. N \subseteq T
      <3> HIDE DEF T
      <3> QED
        BY <2>1, <2>2, UpTo
    <2> QED
      BY <1>3, <1>4, <2>3
  <1>6. ASSUME NEW S, NEW f PROVE Silenced(S, f)' = Silenced(S, f) /\ FactsOf(S)' = FactsOf(S)
    <2>1. Below' = Below
      BY SameGraph DEF Below
    <2> QED
      BY <2>1, SameGraph DEF Silenced, Silent, FactsOf, Downstream
  <1>7. RefState' = RefState /\ \A i, e : RefStep(i, e)' = RefStep(i, e)
    <2>1. RefState' = RefState
      BY SameGraph DEF RefState
    <2>2. \A i, e : RefRan(i, e)' = RefRan(i, e)
      BY <1>5 DEF RefRan
    <2> QED
      BY <1>6, <2>1, <2>2, SameGraph DEF RefStep
  <1>8. /\ Reference' \in [0 .. N -> RefState]
        /\ Reference'[0] = [ran |-> {}, skipped |-> {}, facts |-> {}]
        /\ \A i \in 1 .. N : Reference'[i] = RefStep(i, Reference'[i - 1])
    <2>1. (/\ Reference \in [0 .. Cardinality(Nodes) -> RefState]
           /\ Reference[0] = [ran |-> {}, skipped |-> {}, facts |-> {}]
           /\ \A i \in 1 .. Cardinality(Nodes) : Reference[i] = RefStep(i, Reference[i - 1]))'
      BY <1>2, ReferenceUnfold, PTL
    <2> QED
      BY <1>1, <1>7, <2>1
  <1>9. Reference' = Reference
    <2>1. /\ Reference \in [0 .. N -> RefState]
          /\ Reference[0] = [ran |-> {}, skipped |-> {}, facts |-> {}]
          /\ \A i \in 1 .. N : Reference[i] = RefStep(i, Reference[i - 1])
      BY <1>1, ReferenceUnfold
    <2> DEFINE T == {i \in 0 .. N : Reference'[i] = Reference[i]}
    <2>2. 0 \in T
      <3>1. Reference'[0] = Reference[0] /\ 0 \in 0 .. N
        BY <1>8, <2>1
      <3> QED
        BY <3>1
    <2>3. ASSUME NEW i \in 0 .. N, i > 0, i - 1 \in T PROVE i \in T
      BY <1>8, <2>1, <2>3
    <2>4. 0 .. N \subseteq T
      <3> HIDE DEF T
      <3> QED
        BY <2>2, <2>3, UpTo
    <2> QED
      BY <1>8, <2>1, <2>4
  <1>10. \A n : WaveNo(n)' = WaveNo(n)
    BY <1>5 DEF WaveNo, Min
  <1> QED
    BY <1>5, <1>6, <1>9, <1>10

\* The reference executes nodes of the levels it has gone through.
LEMMA RanWithin ==
  ASSUME graph \in Graphs, NEW k \in 0 .. Cardinality(Nodes)
  PROVE  Reference[k].ran \subseteq Level[k]
  <1>1. PICK N \in Nat : N = Cardinality(Nodes)
    BY FiniteNodes
  <1> DEFINE T == {i \in 0 .. N : Reference[i].ran \subseteq Level[i]}
  <1>2. 0 \in T
    <2>1. Reference[0] = [ran |-> {}, skipped |-> {}, facts |-> {}]
      BY ReferenceUnfold
    <2>2. Reference[0].ran = {}
      BY <2>1
    <2>3. Reference[0].ran \subseteq Level[0]
      BY <2>2
    <2>4. 0 \in 0 .. N
      OBVIOUS
    <2> QED
      BY <2>3, <2>4, Zenon
  <1>3. ASSUME NEW i \in 0 .. N, i > 0, i - 1 \in T PROVE i \in T
    <2>1. i \in 1 .. N
      BY <1>3
    <2>2. Reference[i] = RefStep(i, Reference[i - 1]) /\ Level[i - 1] \subseteq Level[i]
      BY <1>1, <2>1, LevelUnfold, ReferenceUnfold
    <2>3. RefStep(i, Reference[i - 1]).ran \subseteq Level[i]
      BY <1>3, <2>2 DEF RefStep, RefRan
    <2> QED
      BY <2>2, <2>3
  <1>4. 0 .. N \subseteq T
    <2> HIDE DEF T
    <2> QED
      BY <1>2, <1>3, UpTo
  <1> QED
    BY <1>1, <1>4

\* A reference run that has executed an output node, or has no level ahead of it
\* that holds anything new, stays as it is.
LEMMA Settles ==
  ASSUME graph \in Graphs, NEW k \in 0 .. Cardinality(Nodes),
         \/ \E n \in Reference[k].ran : Kind[n] = "output"
         \/ \A n \in Nodes : Deps[n] \subseteq Level[k] => n \in Level[k]
  PROVE  Reference[Cardinality(Nodes)] = Reference[k]
  <1>1. PICK N \in Nat : N = Cardinality(Nodes)
    BY FiniteNodes
  <1>2. /\ \A i \in 1 .. N : Level[i] = Level[i - 1] \cup {n \in Nodes : Deps[n] \subseteq Level[i - 1]}
        /\ \A i \in 1 .. N : Reference[i] = RefStep(i, Reference[i - 1])
        /\ \A i \in 0 .. N : Reference[i] \in RefState
    BY <1>1, LevelUnfold, ReferenceUnfold
  <1>3. CASE \E n \in Reference[k].ran : Kind[n] = "output"
    <2> DEFINE T == {i \in 0 .. N : k <= i => Reference[i] = Reference[k]}
    <2>1. 0 \in T
      BY <1>1
    <2>2. ASSUME NEW i \in 0 .. N, i > 0, i - 1 \in T PROVE i \in T
      <3>1. k <= i => k = i \/ k <= i - 1
        BY <1>1, <2>2
      <3>2. i \in 1 .. N /\ RefStep(i, Reference[k]) = Reference[k]
        BY <1>3, <2>2 DEF RefStep
      <3> QED
        BY <1>2, <2>2, <3>1, <3>2
    <2>3. 0 .. N \subseteq T
      <3> HIDE DEF T
      <3> QED
        BY <2>1, <2>2, UpTo
    <2> QED
      BY <1>1, <2>3
  <1>4. CASE \A n \in Nodes : Deps[n] \subseteq Level[k] => n \in Level[k]
    <2> DEFINE T == {i \in 0 .. N : k <= i => Reference[i] = Reference[k] /\ Level[i] = Level[k]}
    <2>1. 0 \in T
      BY <1>1
    <2>2. ASSUME NEW i \in 0 .. N, i > 0, i - 1 \in T PROVE i \in T
      <3>1. k <= i => k = i \/ k <= i - 1
        BY <1>1, <2>2
      <3>2. ASSUME k <= i - 1 PROVE Reference[i] = Reference[k] /\ Level[i] = Level[k]
        <4>1. i \in 1 .. N /\ Level[i - 1] = Level[k] /\ Reference[i - 1] = Reference[k]
          BY <2>2, <3>2
        <4>2. Level[i] = Level[k]
          <5>1. Level[i] = Level[k] \cup {n \in Nodes : Deps[n] \subseteq Level[k]}
            BY <1>2, <4>1
          <5> QED
            BY <1>4, <5>1
        <4>3. RefRan(i, Reference[k]) = {}
          BY <4>1, <4>2 DEF RefRan
        <4>4. Silenced({}, Reference[k].facts) = {} /\ FactsOf({}) = {}
          BY DEF Silenced, Silent, FactsOf, Downstream
        <4>5. Reference[k] \in RefState
          BY <1>1, <1>2
        <4>6. RefStep(i, Reference[k]) = Reference[k]
          BY <4>3, <4>4, <4>5 DEF RefStep, RefState
        <4> QED
          BY <1>2, <4>1, <4>2, <4>6
      <3> QED
        BY <2>2, <3>1, <3>2
    <2>3. 0 .. N \subseteq T
      <3> HIDE DEF T
      <3> QED
        BY <2>1, <2>2, UpTo
    <2> QED
      BY <1>1, <2>3
  <1> QED
    BY <1>3, <1>4

-----------------------------------------------------------------------------
(* The run keeps up with the reference.                                    *)

\* Nodes of the present wave that have been merged.
Taken == {n \in Runnable : phase = "merge" /\ result[n] = NoResult}

\* The run state is that of the reference after k waves, with the effects of the
\* nodes taken since; what a branch found is what it finds in the reference.
Tracks(k) ==
    /\ placed = Level[k]
    /\ k <= Cardinality(placed)
    /\ \A n \in Reference[k].ran : Kind[n] # "output"
    /\ Merged = Reference[k].ran \cup Taken
    /\ facts = Reference[k].facts \cup FactsOf(Taken)
    /\ skipped = Reference[k].skipped \cup Silenced(Taken, Reference[k].facts)
    /\ \A n \in Runnable : result[n].kind = "ok" /\ Kind[n] = "branch" =>
          (result[n].fired <=> When[n] \in {Always} \cup Reference[k].facts)

\* Workers are busy with, and results come from, the wave that is under way.
WorkersCurrent ==
    /\ \A n \in Nodes : result[n] # NoResult => phase \in {"run", "merge"} /\ n \in Runnable
    /\ \A n \in Nodes : worker[n] \in {"spawned", "working"} => phase = "run" /\ n \in Runnable
    /\ phase \in {"run", "merge"} => Runnable # {}

\* Nodes are merged by id.
TakenInOrder == \A m \in Taken, n \in Unmerged : m < n

TraceBefore(m, n) == WaveNo(m) < WaveNo(n) \/ (WaveNo(m) = WaveNo(n) /\ m < n)
TraceOrdered == \A i, j \in DOMAIN trace : i < j => TraceBefore(trace[i], trace[j])

KeepsUp == \E k \in 0 .. Cardinality(Nodes) : Tracks(k)

SchedInv ==
    /\ TraceOrdered
    /\ phase # "done" => WorkersCurrent /\ TakenInOrder /\ KeepsUp
    /\ ScheduleIndependent

\* What the nodes taken silence is not in their own wave.
LEMMA TakenSparesWave ==
  ASSUME ExecInv, NEW S \in SUBSET Wave, NEW f
  PROVE  Silenced(S, f) \cap Wave = {}
  <1>1. ASSUME NEW b \in S, NEW m \in Downstream(Dependents(b)) PROVE ~(Deps[m] \subseteq placed)
    BY <1>1, DownstreamOfWave
  <1>2. \A m \in Silenced(S, f) : \E b \in S : m \in Downstream(Dependents(b))
    BY DEF Silenced, Silent, Downstream
  <1> QED
    BY <1>1, <1>2 DEF Wave

\* When the runnable nodes of a wave are all merged, the run is where the
\* reference is one wave on.
LEMMA NextWave ==
  ASSUME ExecInv, NEW k \in 0 .. Cardinality(Nodes), Tracks(k), Wave # {}
  PROVE  /\ k + 1 \in 0 .. Cardinality(Nodes)
         /\ Level[k + 1] = placed \cup Wave
         /\ k + 1 <= Cardinality(placed \cup Wave)
         /\ Taken = Runnable =>
               /\ Reference[k + 1].ran = Merged
               /\ Reference[k + 1].facts = facts
               /\ Reference[k + 1].skipped = skipped
  <1>1. PICK N \in Nat : N = Cardinality(Nodes)
    BY FiniteNodes DEF ExecInv, ExecTypeOK
  <1>2. /\ placed \subseteq Nodes /\ Wave \subseteq Nodes \ placed /\ graph \in Graphs
        /\ IsFiniteSet(Nodes)
    BY FiniteNodes DEF ExecInv, ExecTypeOK, Wave
  <1>3. k + 1 <= Cardinality(placed \cup Wave)
    <2>1. PICK w \in Wave : TRUE
      OBVIOUS
    <2>2. IsFiniteSet(placed) /\ IsFiniteSet(placed \cup Wave) /\ Cardinality(placed) \in Nat
          /\ Cardinality(placed \cup Wave) \in Nat
      <3>1. placed \in SUBSET Nodes /\ placed \cup Wave \in SUBSET Nodes
        BY <1>2
      <3>2. IsFiniteSet(placed) /\ IsFiniteSet(placed \cup Wave)
        BY <1>2, <3>1, FS_Subset
      <3> QED
        BY <3>2, FS_CardinalityType
    <2>3. Cardinality(placed \cup {w}) = Cardinality(placed) + 1
      BY <1>2, <2>2, FS_AddElement
    <2>4. Cardinality(placed \cup {w}) <= Cardinality(placed \cup Wave)
      <3>1. placed \cup {w} \in SUBSET (placed \cup Wave)
        OBVIOUS
      <3> QED
        BY <2>2, <3>1, FS_Subset
    <2>5. k <= Cardinality(placed) /\ k \in Nat
      BY <1>1 DEF Tracks
    <2> QED
      BY <2>2, <2>3, <2>4, <2>5
  <1>4. k + 1 \in 1 .. N
    <2>1. placed \cup Wave \in SUBSET Nodes
      BY <1>2
    <2>2. Cardinality(placed \cup Wave) <= N /\ Cardinality(placed \cup Wave) \in Nat
      BY <1>1, <1>2, <2>1, FS_Subset, FS_CardinalityType
    <2> QED
      BY <1>1, <1>3, <2>2
  <1>5. Level[k + 1] = placed \cup Wave
    <2>1. Level[k + 1] = Level[k] \cup {n \in Nodes : Deps[n] \subseteq Level[k]}
      <3>1. (k + 1) - 1 = k
        BY <1>1
      <3> QED
        BY <1>1, <1>2, <1>4, <3>1, LevelUnfold
    <2> QED
      BY <2>1 DEF Tracks, Wave
  <1>6. ASSUME Taken = Runnable
        PROVE  /\ Reference[k + 1].ran = Merged
               /\ Reference[k + 1].facts = facts
               /\ Reference[k + 1].skipped = skipped
    <2>1. Reference[k + 1] = RefStep(k + 1, Reference[k])
      <3>1. (k + 1) - 1 = k
        BY <1>1
      <3> QED
        BY <1>1, <1>2, <1>4, <3>1, ReferenceUnfold
    <2>2. RefRan(k + 1, Reference[k]) = Wave \ Reference[k].skipped
      <3>1. (k + 1) - 1 = k
        BY <1>1
      <3> QED
        BY <1>2, <1>5, <3>1 DEF RefRan, Tracks
    <2>3. Silenced(Taken, Reference[k].facts) \cap Wave = {}
      <3>1. PICK S, f : S \in SUBSET Wave /\ S = Taken /\ f = Reference[k].facts
        BY DEF Taken, Runnable
      <3> QED
        BY <3>1, TakenSparesWave
    <2>4. RefRan(k + 1, Reference[k]) = Taken
      BY <1>6, <2>2, <2>3 DEF Runnable, Tracks
    <2>5. Reference[k + 1] = [ran     |-> Reference[k].ran \cup Taken,
                              skipped |-> Reference[k].skipped \cup Silenced(Taken, Reference[k].facts),
                              facts   |-> Reference[k].facts \cup FactsOf(Taken)]
      BY <2>1, <2>4 DEF RefStep, Tracks
    <2> QED
      BY <2>5 DEF Tracks
  <1> QED
    BY <1>1, <1>3, <1>4, <1>5, <1>6

LEMMA SchedInitInv ==
  ASSUME Init
  PROVE  SchedInv
  <1>1. graph \in Graphs
    BY DEF Init
  <1>2. TraceOrdered
    BY DEF Init, TraceOrdered
  <1>3. Taken = {} /\ Unmerged = {} /\ Merged = {}
    BY DEF Init, Taken, Unmerged, Runnable, Wave, Merged
  <1>4. WorkersCurrent /\ TakenInOrder
    BY <1>3 DEF Init, WorkersCurrent, TakenInOrder
  <1>5. 0 \in 0 .. Cardinality(Nodes) /\ Tracks(0)
    <2>1. Level[0] = {} /\ Reference[0] = [ran |-> {}, skipped |-> {}, facts |-> {}]
      BY <1>1, LevelUnfold, ReferenceUnfold
    <2>2. 0 <= Cardinality({})
      BY FS_EmptySet
    <2>3. FactsOf({}) = {} /\ \A f : Silenced({}, f) = {}
      BY DEF FactsOf, Silenced, Silent, Downstream
    <2>4. \A n \in Runnable : result[n].kind # "ok"
      BY DEF Init, Runnable, Wave, NoResult
    <2>5. Reference[0].ran = {} /\ Reference[0].skipped = {} /\ Reference[0].facts = {}
      BY <2>1
    <2>6. placed = {} /\ skipped = {} /\ facts = {}
      BY DEF Init
    <2>7. Tracks(0)
      BY <1>3, <2>1, <2>2, <2>3, <2>4, <2>5, <2>6 DEF Tracks
    <2> QED
      BY <1>1, <2>7, FiniteNodes
  <1>6. ScheduleIndependent
    BY DEF Init, ScheduleIndependent, Running
  <1> QED
    BY <1>2, <1>4, <1>5, <1>6 DEF SchedInv, KeepsUp

\* A run that has nothing left to do has done what the reference does.
LEMMA AssembledAgrees ==
  ASSUME ExecInv, SchedInv, Assemble
  PROVE  SchedInv'
  <1>1. graph \in Graphs /\ UNCHANGED given /\ phase' = "done" /\ phase # "done"
        /\ UNCHANGED <<trace, skipped, facts>>
    BY DEF Assemble, Stop, ExecInv, ExecTypeOK
  <1>2. Merged' = Merged /\ Nodes' = Nodes
    BY <1>1, SameGraph DEF Merged
  <1>3. PICK k \in 0 .. Cardinality(Nodes) : Tracks(k)
    BY <1>1 DEF SchedInv, KeepsUp
  <1>4. LET ref == Reference[Cardinality(Nodes)]
        IN  Merged = ref.ran /\ skipped = ref.skipped /\ facts = ref.facts
    <2>1. CASE phase = "merge" /\ Unmerged = {} /\ \E n \in Runnable : Kind[n] = "output"
      <3>1. Taken = Runnable /\ Wave # {}
        BY <2>1 DEF Taken, Unmerged, Runnable
      <3>2. PICK j \in 0 .. Cardinality(Nodes) : j = k + 1
        BY <1>3, <3>1, NextWave
      <3>3. Reference[j].ran = Merged /\ Reference[j].facts = facts /\ Reference[j].skipped = skipped
        BY <1>3, <3>1, <3>2, NextWave
      <3>4. \E n \in Reference[j].ran : Kind[n] = "output"
        BY <1>3, <2>1, <3>1, <3>3 DEF Tracks
      <3>5. Reference[Cardinality(Nodes)] = Reference[j]
        BY <1>1, <3>4, Settles
      <3> QED
        BY <3>3, <3>5
    <2>2. CASE phase = "wave" /\ Wave = {}
      <3>1. Taken = {}
        BY <2>2 DEF Taken
      <3>2. FactsOf({}) = {} /\ \A f : Silenced({}, f) = {}
        BY DEF FactsOf, Silenced, Silent, Downstream
      <3>3. Merged = Reference[k].ran /\ facts = Reference[k].facts /\ skipped = Reference[k].skipped
        BY <1>3, <3>1, <3>2 DEF Tracks
      <3>4. \A n \in Nodes : Deps[n] \subseteq Level[k] => n \in Level[k]
        BY <1>3, <2>2 DEF Tracks, Wave
      <3>5. Reference[Cardinality(Nodes)] = Reference[k]
        BY <1>1, <3>4, Settles
      <3> QED
        BY <3>3, <3>5
    <2> QED
      BY <2>1, <2>2 DEF Assemble
  <1>5. TraceOrdered' /\ \A i, j \in DOMAIN trace : i < j => TraceBefore(trace[i], trace[j])'
    BY <1>1, SameReference DEF SchedInv, TraceOrdered, TraceBefore
  <1>6. ScheduleIndependent'
    <2>1. LET ref == Reference'[Cardinality(Nodes)]
          IN  Merged = ref.ran /\ skipped = ref.skipped /\ facts = ref.facts
      BY <1>1, <1>4, SameReference
    <2> QED
      BY <1>1, <1>2, <1>5, <2>1 DEF ScheduleIndependent, TraceBefore
  <1> QED
    BY <1>1, <1>5, <1>6 DEF SchedInv

\* A step to or within a run that has not answered keeps the conclusion.
LEMMA NoAnswerYet ==
  ASSUME outcome'.kind # "assembled"
  PROVE  ScheduleIndependent'
  BY DEF ScheduleIndependent

\* A run that ends without an answer, its trace as it was.
LEMMA EndedWithoutAnswer ==
  ASSUME ExecInv, SchedInv, UNCHANGED given, UNCHANGED trace,
         phase' = "done", outcome'.kind # "assembled"
  PROVE  SchedInv'
  <1>1. graph \in Graphs
    BY DEF ExecInv, ExecTypeOK
  <1>2. TraceOrdered'
    BY <1>1, SameReference DEF SchedInv, TraceOrdered, TraceBefore
  <1> QED
    BY <1>2, NoAnswerYet DEF SchedInv

\* A step that leaves the run state alone and takes no node keeps up.
LEMMA StillTracks ==
  ASSUME ExecInv, UNCHANGED given, UNCHANGED <<placed, skipped, facts, trace>>,
         Taken' = Taken, NEW k \in 0 .. Cardinality(Nodes), Tracks(k),
         \A n \in Runnable : result'[n].kind = "ok" /\ Kind[n] = "branch" =>
            (result'[n].fired <=> When[n] \in {Always} \cup Reference[k].facts)
  PROVE  KeepsUp' /\ (TraceOrdered => TraceOrdered')
  <1>1. graph \in Graphs
    BY DEF ExecInv, ExecTypeOK
  <1>2. Runnable' = Runnable /\ Merged' = Merged /\ Nodes' = Nodes
    BY SameGraph DEF Runnable, Wave, Merged
  <1>3. PICK T, f : T = Taken /\ f = Reference[k].facts
    OBVIOUS
  <1>4. Silenced(T, f)' = Silenced(T, f) /\ FactsOf(T)' = FactsOf(T)
        /\ Level' = Level /\ Reference' = Reference
    BY <1>1, SameReference
  <1>5. Silenced(Taken, Reference[k].facts)' = Silenced(Taken, Reference[k].facts)
        /\ FactsOf(Taken)' = FactsOf(Taken)
    <2>1. Taken' = T /\ Reference'[k].facts = f
      BY <1>3, <1>4
    <2> QED
      BY <1>3, <1>4, <2>1 DEF Silenced, Silent, FactsOf
  <1>6. Tracks(k)'
    BY <1>2, <1>4, <1>5, SameGraph DEF Tracks
  <1>7. TraceOrdered => TraceOrdered'
    BY <1>1, SameReference DEF TraceOrdered, TraceBefore
  <1> QED
    BY <1>2, <1>6, <1>7 DEF KeepsUp

\* While a run is under way it has no answer.
LEMMA UnderWay ==
  ASSUME ExecInv', phase' # "done"
  PROVE  ScheduleIndependent'
  <1>1. outcome' = Running
    BY DEF ExecInv, OutcomeWhenDone
  <1> QED
    BY <1>1, NoAnswerYet DEF Running

\* A wave is behind the main thread.
LEMMA WaveBehindSched ==
  ASSUME ExecInv, ExecInv', SchedInv, UNCHANGED given,
         UNCHANGED <<skipped, facts, worker, result, trace>>,
         placed' = placed \cup Wave, Wave # {}, phase # "done", phase' = "wave",
         Taken = Runnable, \A n \in Nodes : result[n] = NoResult,
         \A n \in Nodes : worker[n] \notin {"spawned", "working"},
         \A n \in Runnable : Kind[n] # "output"
  PROVE  SchedInv'
  <1>1. graph \in Graphs /\ Nodes' = Nodes /\ Merged' = Merged
    BY SameGraph DEF ExecInv, ExecTypeOK, Merged
  <1>2. PICK k \in 0 .. Cardinality(Nodes) : Tracks(k)
    BY DEF SchedInv, KeepsUp
  <1>3. PICK j \in 0 .. Cardinality(Nodes) : j = k + 1
    BY <1>2, NextWave
  <1>4. /\ Level[j] = placed \cup Wave /\ j <= Cardinality(placed \cup Wave)
        /\ Reference[j].ran = Merged /\ Reference[j].facts = facts /\ Reference[j].skipped = skipped
    BY <1>2, <1>3, NextWave
  <1>5. \A n \in Merged : Kind[n] # "output"
    BY <1>2 DEF Tracks
  <1>6. Taken' = {}
    BY DEF Taken
  <1>7. FactsOf({})' = {} /\ \A f : Silenced({}, f)' = {}
    BY DEF FactsOf, Silenced, Silent, Downstream
  <1>8. Tracks(j)'
    <2>1. Level' = Level /\ Reference' = Reference
      BY <1>1, SameReference
    <2>2. FactsOf(Taken)' = {} /\ Silenced(Taken, Reference[j].facts)' = {}
      BY <1>6, <1>7 DEF FactsOf, Silenced, Silent, Downstream
    <2>3. \A n \in Runnable' : result'[n].kind # "ok"
      BY <1>1 DEF Runnable, Wave, NoResult
    <2> QED
      BY <1>1, <1>4, <1>5, <1>6, <2>1, <2>2, <2>3, SameGraph DEF Tracks
  <1>9. TraceOrdered'
    BY <1>1, SameReference DEF SchedInv, TraceOrdered, TraceBefore
  <1>10. WorkersCurrent' /\ TakenInOrder'
    BY <1>1, <1>6 DEF WorkersCurrent, TakenInOrder
  <1> QED
    BY <1>1, <1>8, <1>9, <1>10, UnderWay DEF SchedInv, KeepsUp

LEMMA WaveStartSched ==
  ASSUME ExecInv, ExecInv', SchedInv, WaveStart
  PROVE  SchedInv'
  <1>1. UNCHANGED given /\ UNCHANGED <<placed, skipped, facts, result, trace>> /\ phase = "wave" /\ phase' = "run"
    BY DEF WaveStart
  <1>2. Runnable' = Runnable /\ Nodes' = Nodes /\ Runnable # {} /\ Runnable \subseteq Nodes
    BY <1>1, SameGraph DEF WaveStart, Runnable, Wave
  <1>3. Taken = {} /\ Taken' = {}
    BY <1>1 DEF Taken
  <1>4. PICK k \in 0 .. Cardinality(Nodes) : Tracks(k)
    BY <1>1 DEF SchedInv, KeepsUp
  <1>5. KeepsUp' /\ TraceOrdered'
    <2>1. \A n \in Runnable : result'[n].kind = "ok" /\ Kind[n] = "branch" =>
             (result'[n].fired <=> When[n] \in {Always} \cup Reference[k].facts)
      BY <1>1, <1>4 DEF Tracks
    <2> QED
      BY <1>1, <1>3, <1>4, <2>1, StillTracks DEF SchedInv
  <1>6. WorkersCurrent'
    <2>1. \A n \in Nodes : result[n] = NoResult
      BY <1>1 DEF SchedInv, WorkersCurrent
    <2>2. \A n \in Nodes : worker[n] \notin {"spawned", "working"}
      BY <1>1 DEF SchedInv, WorkersCurrent
    <2>3. \A n \in Nodes : worker'[n] = IF n \in Runnable THEN "spawned" ELSE worker[n]
      BY DEF WaveStart
    <2> QED
      BY <1>1, <1>2, <2>1, <2>2, <2>3 DEF WorkersCurrent
  <1>7. TakenInOrder'
    BY <1>3 DEF TakenInOrder
  <1> QED
    BY <1>1, <1>5, <1>6, <1>7, UnderWay DEF SchedInv

LEMMA WaveJoinSched ==
  ASSUME ExecInv, ExecInv', SchedInv, WaveJoin
  PROVE  SchedInv'
  <1>1. /\ UNCHANGED given /\ UNCHANGED <<placed, skipped, facts, worker, result, trace>>
        /\ phase = "run" /\ phase' = "merge"
    BY DEF WaveJoin
  <1>2. Runnable' = Runnable /\ Nodes' = Nodes /\ Runnable \subseteq Nodes
    BY <1>1, SameGraph DEF Runnable, Wave
  <1>3. \A n \in Runnable : worker[n] = "joined" /\ result[n] # NoResult
    BY <1>1 DEF WaveJoin, Unfinished, ExecInv, ResultsKept
  <1>4. Taken = {} /\ Taken' = {}
    BY <1>1, <1>2, <1>3 DEF Taken
  <1>5. PICK k \in 0 .. Cardinality(Nodes) : Tracks(k)
    BY <1>1 DEF SchedInv, KeepsUp
  <1>6. KeepsUp' /\ TraceOrdered'
    <2>1. \A n \in Runnable : result'[n].kind = "ok" /\ Kind[n] = "branch" =>
             (result'[n].fired <=> When[n] \in {Always} \cup Reference[k].facts)
      BY <1>1, <1>5 DEF Tracks
    <2> QED
      BY <1>1, <1>4, <1>5, <2>1, StillTracks DEF SchedInv
  <1>7. WorkersCurrent'
    BY <1>1, <1>2, <1>3 DEF SchedInv, WorkersCurrent
  <1>8. TakenInOrder'
    BY <1>4 DEF TakenInOrder
  <1> QED
    BY <1>1, <1>6, <1>7, <1>8, UnderWay DEF SchedInv

\* A worker moves on: its result, if any, is what the reference finds.
LEMMA WorkerSched ==
  ASSUME ExecInv, ExecInv', SchedInv, phase = "run", UNCHANGED given, UNCHANGED control,
         NEW n \in Runnable, NEW w \in {"working", "joined"}, worker' = [worker EXCEPT ![n] = w],
         NEW r \in Results, result' = [result EXCEPT ![n] = r],
         r.kind = "ok" /\ Kind[n] = "branch" => (r.fired <=> When[n] \in {Always} \cup facts)
  PROVE  SchedInv'
  <1>1. UNCHANGED <<placed, skipped, facts, trace>> /\ phase' = "run"
    BY DEF control
  <1>2. Runnable' = Runnable /\ Nodes' = Nodes /\ Runnable \subseteq Nodes
    BY <1>1, SameGraph DEF Runnable, Wave
  <1>3. Taken = {} /\ Taken' = {}
    BY <1>1 DEF Taken
  <1>4. PICK k \in 0 .. Cardinality(Nodes) : Tracks(k)
    BY DEF SchedInv, KeepsUp
  <1>5. facts = Reference[k].facts
    BY <1>3, <1>4 DEF Tracks, FactsOf
  <1>6. /\ \A m \in Nodes : worker'[m] = IF m = n THEN w ELSE worker[m]
        /\ \A m \in Nodes : result'[m] = IF m = n THEN r ELSE result[m]
    BY <1>2 DEF ExecInv, ExecTypeOK
  <1>7. KeepsUp' /\ TraceOrdered'
    <2>1. \A m \in Runnable : result'[m].kind = "ok" /\ Kind[m] = "branch" =>
             (result'[m].fired <=> When[m] \in {Always} \cup Reference[k].facts)
      BY <1>2, <1>4, <1>5, <1>6 DEF Tracks
    <2> QED
      BY <1>1, <1>3, <1>4, <2>1, StillTracks DEF SchedInv
  <1>8. WorkersCurrent'
    BY <1>1, <1>2, <1>6 DEF SchedInv, WorkersCurrent
  <1>9. TakenInOrder'
    BY <1>3 DEF TakenInOrder
  <1> QED
    BY <1>1, <1>7, <1>8, <1>9, UnderWay DEF SchedInv

\* One more node of the wave is merged, the least that is left.
LEMMA MergeOkSched ==
  ASSUME ExecInv, ExecInv', SchedInv, NEW n \in Nodes, MergeOk(n)
  PROVE  SchedInv'
  <1>1. /\ UNCHANGED given /\ UNCHANGED <<placed, worker>> /\ phase = "merge" /\ phase' = "merge"
        /\ n \in Unmerged /\ result[n].kind = "ok" /\ graph \in Graphs
    BY DEF MergeOk, MergesNext, ExecInv, ExecTypeOK
  <1>2. n \in Runnable /\ n \in Wave /\ Runnable \subseteq Nodes /\ Wave # {} /\ n \notin Taken
    BY <1>1 DEF Unmerged, Runnable, Wave, Taken
  <1>3. PICK k \in 0 .. Cardinality(Nodes) : Tracks(k)
    BY <1>1 DEF SchedInv, KeepsUp
  <1> DEFINE S == IF Kind[n] = "branch" /\ ~result[n].fired THEN Downstream(Dependents(n)) ELSE {}
  <1>4. skipped' = skipped \cup S /\ S \cap Wave = {}
    <2>1. \A m \in Downstream(Dependents(n)) : ~(Deps[m] \subseteq placed)
      BY <1>2, DownstreamOfWave
    <2> QED
      BY <2>1 DEF MergeOk, Wave
  <1>5. Runnable' = Runnable /\ Nodes' = Nodes
    <2>1. Wave' = Wave
      BY <1>1, SameGraph DEF Wave
    <2> HIDE DEF S
    <2> QED
      BY <1>1, <1>4, <2>1, SameGraph DEF Runnable
  <1>6. \A m \in Nodes : result'[m] = IF m = n THEN NoResult ELSE result[m]
    BY DEF MergeOk, ExecInv, ExecTypeOK
  <1>7. Taken' = Taken \cup {n} /\ Unmerged' = Unmerged \ {n}
    BY <1>1, <1>2, <1>5, <1>6 DEF Taken, Unmerged
  <1>8. Merged' = Merged \cup {n}
    BY AppendMerged DEF MergeOk, ExecInv, ExecTypeOK
  <1>9. PICK T, f : T = Taken /\ f = Reference[k].facts
    OBVIOUS
  <1>10. Kind[n] = "branch" => (result[n].fired <=> When[n] \in {Always} \cup f)
    BY <1>1, <1>2, <1>3, <1>9 DEF Tracks
  <1>11. Silenced(T \cup {n}, f) = Silenced(T, f) \cup S
    <2>1. CASE Kind[n] = "branch" /\ ~result[n].fired
      <3>1. Silent(T \cup {n}, f) = Silent(T, f) \cup {n}
        BY <1>10, <2>1 DEF Silent
      <3> DEFINE U == UNION {Dependents(b) : b \in Silent(T, f)}
                 W == UNION {Dependents(b) : b \in Silent(T \cup {n}, f)}
      <3>2. W = U \cup Dependents(n)
        BY <3>1
      <3>3. \A A, B : Downstream(A \cup B) = Downstream(A) \cup Downstream(B)
        BY DEF Downstream
      <3>4. Silenced(T, f) = Downstream(U) /\ Silenced(T \cup {n}, f) = Downstream(W)
        BY DEF Silenced
      <3>5. S = Downstream(Dependents(n))
        BY <2>1
      <3> HIDE DEF S, U, W
      <3> QED
        BY <3>2, <3>3, <3>4, <3>5
    <2>2. CASE ~(Kind[n] = "branch" /\ ~result[n].fired)
      <3>1. Silent(T \cup {n}, f) = Silent(T, f)
        BY <1>10, <2>2 DEF Silent
      <3> QED
        BY <2>2, <3>1 DEF Silenced
    <2> QED
      BY <2>1, <2>2
  <1>12. FactsOf(T \cup {n}) = FactsOf(T) \cup (IF Kind[n] = "rule" /\ verdict[n] = "ok" THEN {n} ELSE {})
    BY DEF FactsOf
  <1>13. /\ Level' = Level /\ Reference' = Reference
         /\ Silenced(T \cup {n}, f)' = Silenced(T \cup {n}, f)
         /\ FactsOf(T \cup {n})' = FactsOf(T \cup {n})
         /\ \A m : WaveNo(m)' = WaveNo(m)
    BY <1>1, SameReference
  <1>14. Silenced(Taken, Reference[k].facts)' = Silenced(T \cup {n}, f)
         /\ FactsOf(Taken)' = FactsOf(T \cup {n})
    <2>1. Taken' = T \cup {n} /\ Reference'[k].facts = f
      BY <1>7, <1>9, <1>13
    <2> QED
      BY <1>13, <2>1 DEF Silenced, Silent, FactsOf
  <1>15. Tracks(k)'
    <2>1. facts' = Reference[k].facts \cup FactsOf(T \cup {n})
      BY <1>3, <1>9, <1>12 DEF MergeOk, Tracks
    <2>2. skipped' = Reference[k].skipped \cup Silenced(T \cup {n}, f)
      <3> HIDE DEF S
      <3> QED
        BY <1>3, <1>4, <1>9, <1>11 DEF Tracks
    <2>3. Merged' = Reference[k].ran \cup Taken'
      BY <1>3, <1>7, <1>8 DEF Tracks
    <2>4. \A m \in Runnable : result'[m].kind = "ok" /\ Kind[m] = "branch" =>
             (result'[m].fired <=> When[m] \in {Always} \cup Reference[k].facts)
      BY <1>2, <1>3, <1>6 DEF Tracks, NoResult
    <2> QED
      BY <1>1, <1>3, <1>5, <1>13, <1>14, <2>1, <2>2, <2>3, <2>4, SameGraph DEF Tracks
  <1>16. TakenInOrder'
    <2>1. \A m \in Unmerged : n <= m
      BY DEF MergeOk, MergesNext
    <2>2. Unmerged \subseteq Nat /\ n \in Nat
      BY <1>1, <1>2, GraphShape DEF Unmerged
    <2>3. \A m \in Unmerged \ {n} : n < m
      BY <2>1, <2>2
    <2> QED
      BY <1>1, <1>7, <2>3 DEF SchedInv, TakenInOrder
  <1>17. \A m \in Merged : TraceBefore(m, n)
    <2>1. k + 1 \in 0 .. Cardinality(Nodes) /\ Level[k + 1] = placed \cup Wave /\ k \in Nat
          /\ (k + 1) - 1 = k /\ k + 1 > 0
      BY <1>1, <1>2, <1>3, NextWave, FiniteNodes
    <2>2. placed = Level[k] /\ placed \cap Wave = {}
      BY <1>3 DEF Tracks, Wave
    <2>3. \A m \in Wave : WaveNo(m) = k + 1
      <3>1. PICK j \in 0 .. Cardinality(Nodes) : j = k + 1
        BY <2>1
      <3>2. \A m \in Level[j] \ Level[j - 1] : WaveNo(m) = j
        BY <1>1, <2>1, <3>1, WaveNoIs
      <3> QED
        BY <2>1, <2>2, <3>1, <3>2
    <2>4. \A m \in placed : WaveNo(m) \in 0 .. k
      BY <1>1, <2>2, WaveNoIs
    <2>5. ASSUME NEW m \in Merged PROVE TraceBefore(m, n)
      <3>1. CASE m \in Taken
        <4>1. m < n /\ m \in Wave
          BY <1>1, <3>1 DEF SchedInv, TakenInOrder, Taken, Runnable
        <4> QED
          BY <1>2, <2>3, <4>1 DEF TraceBefore
      <3>2. CASE m \in Reference[k].ran
        <4>1. m \in placed
          BY <1>1, <2>2, <3>2, RanWithin
        <4> QED
          BY <1>2, <2>1, <2>3, <2>4, <4>1 DEF TraceBefore
      <3> QED
        BY <1>3, <3>1, <3>2 DEF Tracks
    <2> QED
      BY <2>5
  <1>18. TraceOrdered'
    <2>1. trace \in Seq(Nodes) /\ trace' = Append(trace, n)
      BY DEF MergeOk, ExecInv, ExecTypeOK
    <2>2. /\ Len(trace) \in Nat /\ DOMAIN trace = 1 .. Len(trace)
          /\ DOMAIN trace' = 1 .. Len(trace) + 1
          /\ \A i \in 1 .. Len(trace) : trace'[i] = trace[i] /\ trace[i] \in Merged
          /\ trace'[Len(trace) + 1] = n
      BY <2>1 DEF Merged
    <2>3. ASSUME NEW i \in DOMAIN trace', NEW j \in DOMAIN trace', i < j
          PROVE  TraceBefore(trace'[i], trace'[j])
      <3>1. i \in 1 .. Len(trace)
        BY <2>2, <2>3
      <3>2. CASE j = Len(trace) + 1
        BY <1>17, <2>2, <3>1, <3>2
      <3>3. CASE j # Len(trace) + 1
        <4>1. j \in 1 .. Len(trace)
          BY <2>2, <3>3
        <4> QED
          BY <2>2, <2>3, <3>1, <4>1 DEF SchedInv, TraceOrdered
      <3> QED
        BY <3>2, <3>3
    <2> QED
      BY <1>13, <2>3 DEF TraceOrdered, TraceBefore
  <1>19. WorkersCurrent'
    BY <1>1, <1>2, <1>5, <1>6 DEF SchedInv, WorkersCurrent
  <1> QED
    BY <1>1, <1>5, <1>15, <1>16, <1>18, <1>19, UnderWay DEF SchedInv, KeepsUp

\* A step that changes neither the run's state nor its end.
LEMMA OutsideSched ==
  ASSUME ExecInv, ExecInv', SchedInv, UNCHANGED given,
         UNCHANGED <<phase, placed, skipped, facts, worker, result, trace, outcome>>
  PROVE  SchedInv'
  <1>1. graph \in Graphs /\ Nodes' = Nodes /\ Merged' = Merged
    BY SameGraph DEF ExecInv, ExecTypeOK, Merged
  <1>2. CASE phase = "done"
    <2>1. TraceOrdered'
      BY <1>1, SameReference DEF SchedInv, TraceOrdered, TraceBefore
    <2>2. ScheduleIndependent'
      BY <1>1, SameReference DEF SchedInv, ScheduleIndependent
    <2> QED
      BY <1>2, <2>1, <2>2 DEF SchedInv
  <1>3. CASE phase # "done"
    <2>1. PICK k \in 0 .. Cardinality(Nodes) : Tracks(k)
      BY <1>3 DEF SchedInv, KeepsUp
    <2>2. Runnable' = Runnable /\ Taken' = Taken /\ Unmerged' = Unmerged
      BY SameGraph DEF Runnable, Wave, Taken, Unmerged
    <2>3. KeepsUp' /\ TraceOrdered'
      <3>1. \A n \in Runnable : result'[n].kind = "ok" /\ Kind[n] = "branch" =>
               (result'[n].fired <=> When[n] \in {Always} \cup Reference[k].facts)
        BY <2>1 DEF Tracks
      <3> QED
        BY <2>1, <2>2, <3>1, StillTracks DEF SchedInv
    <2>4. WorkersCurrent' /\ TakenInOrder'
      BY <1>1, <1>3, <2>2 DEF SchedInv, WorkersCurrent, TakenInOrder
    <2> QED
      BY <1>3, <2>3, <2>4, UnderWay DEF SchedInv
  <1> QED
    BY <1>2, <1>3

\* The guard of a worker says nothing about the branch.
LEMMA ExecuteGuardSched ==
  ASSUME ExecInv, ExecInv', SchedInv, NEW n \in Nodes, ExecuteGuard(n)
  PROVE  SchedInv'
  <1>1. phase = "run" /\ UNCHANGED given /\ UNCHANGED control /\ n \in Runnable
    BY DEF ExecuteGuard, MayRun
  <1>2. CASE Guard = "pass" /\ worker' = [worker EXCEPT ![n] = "working"] /\ UNCHANGED result
    <2>1. result' = [result EXCEPT ![n] = result[n]] /\ result[n] \in Results
      BY <1>2 DEF ExecInv, ExecTypeOK
    <2>2. PICK k \in 0 .. Cardinality(Nodes) : Tracks(k)
      BY <1>1 DEF SchedInv, KeepsUp
    <2>3. facts = Reference[k].facts
      BY <1>1, <2>2 DEF Tracks, Taken, FactsOf
    <2>4. result[n].kind = "ok" /\ Kind[n] = "branch" =>
             (result[n].fired <=> When[n] \in {Always} \cup facts)
      BY <1>1, <2>2, <2>3 DEF Tracks
    <2> QED
      BY <1>1, <1>2, <2>1, <2>4, WorkerSched
  <1>3. CASE /\ Guard # "pass" /\ worker' = [worker EXCEPT ![n] = "joined"]
             /\ result' = [result EXCEPT ![n] = [kind |-> Guard]]
    <2>1. Guard \in GuardErrors
      BY <1>3 DEF Guard, GuardErrors
    <2>2. [kind |-> Guard] \in Results /\ [kind |-> Guard].kind # "ok"
      BY <2>1 DEF Results, GuardErrors
    <2> QED
      BY <1>1, <1>3, <2>2, WorkerSched
  <1> QED
    BY <1>2, <1>3 DEF ExecuteGuard

\* A branch reads the facts of the waves before its own, which no worker changes.
LEMMA ExecuteWorkSched ==
  ASSUME ExecInv, ExecInv', SchedInv, NEW n \in Nodes, ExecuteWork(n)
  PROVE  SchedInv'
  <1>1. /\ phase = "run" /\ worker[n] = "working" /\ UNCHANGED given /\ UNCHANGED control
        /\ worker' = [worker EXCEPT ![n] = "joined"]
        /\ result' = [result EXCEPT ![n] = ResultOf(n)]
    BY DEF ExecuteWork
  <1>2. n \in Runnable
    BY <1>1 DEF SchedInv, WorkersCurrent
  <1>3. ResultOf(n) \in Results
    <2>1. (Kind[n] = "branch" /\ Fires(n)) \in BOOLEAN
      OBVIOUS
    <2> QED
      BY <2>1 DEF ResultOf, Results
  <1>4. ResultOf(n).kind = "ok" /\ Kind[n] = "branch" =>
           (ResultOf(n).fired <=> When[n] \in {Always} \cup facts)
    BY DEF ResultOf, Fires
  <1> QED
    BY <1>1, <1>2, <1>3, <1>4, WorkerSched

\* Every step of a run keeps it beside the reference.
LEMMA SchedStepInv ==
  ASSUME ExecInv, ExecInv', SchedInv, [Next]_vars
  PROVE  SchedInv'
  <1>1. CASE WaveRefused
    BY <1>1, EndedWithoutAnswer DEF WaveRefused, Stop, Guard
  <1>2. CASE WaveSkipped
    <2>1. Taken = Runnable
      BY <1>2 DEF WaveSkipped, Taken
    <2>2. \A n \in Nodes : result[n] = NoResult /\ worker[n] \notin {"spawned", "working"}
      BY <1>2 DEF WaveSkipped, SchedInv, WorkersCurrent
    <2> QED
      BY <1>2, <2>1, <2>2, WaveBehindSched DEF WaveSkipped
  <1>3. CASE WaveStart
    BY <1>3, WaveStartSched
  <1>4. CASE WaveJoin
    BY <1>4, WaveJoinSched
  <1>5. CASE WaveEnd
    <2>1. Taken = Runnable
      BY <1>5 DEF WaveEnd, Taken, Unmerged
    <2>2. \A n \in Nodes : result[n] = NoResult /\ worker[n] \notin {"spawned", "working"}
      BY <1>5 DEF WaveEnd, Unmerged, SchedInv, WorkersCurrent
    <2>3. Wave # {}
      BY <1>5 DEF WaveEnd, SchedInv, WorkersCurrent, Runnable
    <2> QED
      BY <1>5, <2>1, <2>2, <2>3, WaveBehindSched DEF WaveEnd
  <1>6. CASE Assemble
    BY <1>6, AssembledAgrees
  <1>7. ASSUME NEW n \in Nodes, MergeError(n) PROVE SchedInv'
    <2>1. result[n] \in Results /\ result[n] # NoResult
      BY <1>7 DEF MergeError, MergesNext, Unmerged, ExecInv, ExecTypeOK
    <2>2. result[n].kind # "assembled"
      BY <2>1 DEF Results, GuardErrors
    <2>3. outcome'.kind # "assembled"
      BY <1>7, <2>2 DEF MergeError, Stop
    <2> QED
      BY <1>7, <2>3, EndedWithoutAnswer DEF MergeError, Stop
  <1>8. ASSUME NEW n \in Nodes, MergeOk(n) PROVE SchedInv'
    BY <1>8, MergeOkSched
  <1>9. ASSUME NEW n \in Nodes, ExecuteGuard(n) PROVE SchedInv'
    BY <1>9, ExecuteGuardSched
  <1>10. ASSUME NEW n \in Nodes, ExecuteWork(n) PROVE SchedInv'
    BY <1>10, ExecuteWorkSched
  <1>11. ASSUME NEW n \in Nodes, ExecutePanic(n) PROVE SchedInv'
    BY <1>11, EndedWithoutAnswer DEF ExecutePanic, Stop
  <1>12. CASE Tick \/ Cancel \/ UNCHANGED vars
    <2>1. UNCHANGED given /\ UNCHANGED <<phase, placed, skipped, facts, worker, result, trace, outcome>>
      BY <1>12 DEF Tick, Cancel, vars, given, control
    <2> QED
      BY <2>1, OutsideSched
  <1> QED
    BY <1>1, <1>2, <1>3, <1>4, <1>5, <1>6, <1>7, <1>8, <1>9, <1>10, <1>11, <1>12
       DEF Next, Main, Execute, Finished

\* For every graph, every parallelism and every interleaving of the workers: a
\* run that answers has executed, skipped and written what the run without
\* workers has, and its trace is in wave and id order (executor.rs run_wave,
\* merge, mark_skipped).
THEOREM ScheduleShowsNowhere == Spec => []ScheduleIndependent
  <1>1. Init => SchedInv
    BY SchedInitInv
  <1>2. ExecInv /\ ExecInv' /\ SchedInv /\ [Next]_vars => SchedInv'
    BY SchedStepInv
  <1>3. SchedInv => ScheduleIndependent
    BY DEF SchedInv
  <1> QED
    BY <1>1, <1>2, <1>3, ExecInvariant, PTL DEF Spec

=============================================================================

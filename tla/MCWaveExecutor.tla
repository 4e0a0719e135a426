--------------------------- MODULE MCWaveExecutor ---------------------------
(* Two graphs for the wave executor: the built-in pipeline and a graph with *)
(* conditional branches.                                                    *)
EXTENDS WaveExecutor

\* DecisionGraph::default_pipeline.  Ids by rank: boolean 1, cache 2, choice 3,
\* filter 4, lexical 5, normalize 6, output 7, rule 8, score 9, threshold 10.
PipelineDeps ==
    [n \in 1 .. 10 |->
        CASE n = 1 -> {8} [] n = 2 -> {6} [] n = 3 -> {5} [] n = 4 -> {2, 8} [] n = 5 -> {4}
          [] n = 6 -> {}  [] n = 7 -> {10} [] n = 8 -> {6} [] n = 9 -> {8} [] n = 10 -> {1, 3, 9}]

PipelineKind ==
    [n \in 1 .. 10 |-> CASE n = 7 -> "output" [] n = 8 -> "rule" [] OTHER -> "inert"]

PipelineWhen == [n \in 1 .. 10 |-> Always]

\* A root (4), a rule (6) and a branch (2) in one wave, a branch (3) on the
\* rule's fact, what each branch guards (1 and 5), and the output (7).  Branch
\* 2 reads the fact of a rule in its own wave, so it never fires.
BranchDeps ==
    [n \in 1 .. 8 |->
        CASE n = 1 -> {2} [] n = 2 -> {4} [] n = 3 -> {6} [] n = 4 -> {}
          [] n = 5 -> {3} [] n = 6 -> {4} [] n = 7 -> {5, 6} [] n = 8 -> {1, 6}]

BranchKind ==
    [n \in 1 .. 8 |-> CASE n \in {2, 3} -> "branch" [] n = 6 -> "rule"
                       [] n = 7 -> "output" [] OTHER -> "inert"]

BranchWhen == [n \in 1 .. 8 |-> IF n \in {2, 3} THEN 6 ELSE Always]

Configured ==
    {[nodes |-> 1 .. 10, deps |-> PipelineDeps, kind |-> PipelineKind, when |-> PipelineWhen],
     [nodes |-> 1 .. 8, deps |-> BranchDeps, kind |-> BranchKind, when |-> BranchWhen]}
=============================================================================

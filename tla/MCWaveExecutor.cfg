\* The built-in pipeline and a graph with branches; two faulty nodes, a deadline.
CONSTANTS
    Graphs <- Configured
    Parallelism = 2
    Limit = 1
    MaxTime = 1
    MaxFaults = 2
SPECIFICATION FairSpec
INVARIANTS DependenciesFirst LeastFailureReported ScheduleIndependent
PROPERTIES StoppedRunNeverAnswers Terminates

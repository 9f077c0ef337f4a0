------------------------ MODULE MCPipelineRuntimeLive ------------------------
\* The output pipeline 0 probes a hash join that pipeline 1 builds with two
\* workers: two RUN and two COMBINE tasks share a counter.
EXTENDS PipelineRuntime

MCDependsOn == [p \in Pipelines |-> IF p = 0 THEN {1} ELSE {}]
MCSink == [p \in Pipelines |-> <<"OUTPUT", "HASH_JOIN">>[p + 1]]
MCRunTasks == [p \in Pipelines |-> <<1, 2>>[p + 1]]
==============================================================================

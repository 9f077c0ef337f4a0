-------------------------- MODULE MCPipelineRuntime --------------------------
EXTENDS PipelineRuntime

\* Output(HashJoin(HashAggregate(scan), scan)): the output pipeline 0 reads the
\* aggregate that pipeline 2 makes in two partitions, and probes the join that
\* pipeline 1 builds.
MCDependsOn == [p \in Pipelines |-> IF p = 0 THEN {1, 2} ELSE {}]
MCSink == [p \in Pipelines |-> <<"OUTPUT", "HASH_JOIN", "HASH_AGGREGATE">>[p + 1]]
MCRunTasks == [p \in Pipelines |-> 1]
==============================================================================

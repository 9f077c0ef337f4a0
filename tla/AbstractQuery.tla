---------------------------- MODULE AbstractQuery ----------------------------
(****************************************************************************)
(* What running a query on the pipeline runtime promises its caller         *)
(* (PgYaapPipelineRun): every task runs after the tasks it reads from and   *)
(* is completed once, the result is emitted only when all of them are       *)
(* complete, and a query that met an error is reported as failed.           *)
(****************************************************************************)
CONSTANTS
    Tasks,        \* the tasks of the query's plan
    LeaderTasks,  \* those the leader runs itself, the finalizations: in Tasks
    Before        \* the pairs <<s, t>> of Tasks where t reads what s produces

VARIABLES
    started, completed,   \* the tasks begun, and those run to their end
    doomed,               \* an error was met: the query can only fail
    outcome               \* "running", "emitted", "done" or "failed"

vars == <<started, completed, doomed, outcome>>

Init ==
    /\ started = {}
    /\ completed = {}
    /\ doomed = FALSE
    /\ outcome = "running"

Ready(t) == \A s \in Tasks : <<s, t>> \in Before => s \in completed

Start(t) ==
    /\ outcome = "running"
    /\ Ready(t)
    /\ started' = started \cup {t}
    /\ UNCHANGED <<completed, doomed, outcome>>

Complete(t) ==
    /\ outcome = "running"
    /\ t \in started \ completed
    /\ completed' = completed \cup {t}
    /\ UNCHANGED <<started, doomed, outcome>>

\* A finalization is one step of the leader.  Once the query is doomed it may
\* also run over tasks that were cut short: nothing of it is ever emitted.
Finalize(t) ==
    /\ outcome = "running"
    /\ t \notin started
    /\ Ready(t) \/ doomed
    /\ started' = started \cup {t}
    /\ completed' = completed \cup {t}
    /\ UNCHANGED <<doomed, outcome>>

Doom ==
    /\ outcome \in {"running", "emitted"}
    /\ doomed' = TRUE
    /\ UNCHANGED <<started, completed, outcome>>

Emit ==
    /\ outcome = "running"
    /\ completed = Tasks
    /\ outcome' = "emitted"
    /\ UNCHANGED <<started, completed, doomed>>

Succeed ==
    /\ outcome = "emitted"
    /\ ~doomed
    /\ outcome' = "done"
    /\ UNCHANGED <<started, completed, doomed>>

Fail ==
    /\ doomed
    /\ outcome \in {"running", "emitted"}
    /\ outcome' = "failed"
    /\ UNCHANGED <<started, completed, doomed>>

Next ==
    \/ \E t \in Tasks : Start(t) \/ Complete(t)
    \/ \E t \in LeaderTasks : Finalize(t)
    \/ Doom \/ Emit \/ Succeed \/ Fail

Spec == Init /\ [][Next]_vars
==============================================================================

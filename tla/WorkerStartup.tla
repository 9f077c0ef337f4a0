---------------------------- MODULE WorkerStartup ----------------------------
(****************************************************************************)
(* The start of a query on the pipeline runtime: the leader registers its   *)
(* background workers with the postmaster, waits for the ready bit of each  *)
(* and lists their pids for the task queue (pipeline_leader.cpp, before the *)
(* event loop that PipelineRuntime models), while the workers attach to the *)
(* DSM segment, connect and report (pipeline_worker_main.cpp).              *)
(*                                                                          *)
(* A worker is its own pid and its index in the ready array; the setting    *)
(* pg_yaap.parallel_max_workers does not change meanwhile.                  *)
(****************************************************************************)
EXTENDS Integers, FiniteSets

CONSTANTS
    NumWorkers,
    MaxFaults      \* bound: errors, cancels and kills, together

ASSUME StartupAssumption == NumWorkers \in Nat \ {0} /\ MaxFaults \in Nat

Workers == 0 .. NumWorkers - 1

VARIABLES
    leader,        \* program point, the worker it is at, why it failed
    status,        \* BgwHandleStatus of each worker in the postmaster
    worker,        \* program point of each worker
    in_proc_array, \* workers that BackendPidGetProc finds
    ready,         \* the ready array of the segment
    control,       \* PipelineSharedControl: error, its message, shutdown
    worker_pids,   \* the registry of the queue
    leader_latch, latch,
    segment,       \* the processes the DSM segment is attached to
    faults

vars == <<leader, status, worker, in_proc_array, ready, control, worker_pids,
          leader_latch, latch, segment, faults>>

Leader == -1

LeaderPoints == {"register", "startup", "ready", "poll", "recheck", "wait", "proc",
                 "enlist", "running", "signal", "wake", "grace", "join", "failed",
                 "raised"}
WorkerPoints == {"none", "attach", "connect", "publish", "notify", "setup", "check",
                 "wait", "exit", "report", "message", "shutdown", "tell", "gone"}

Init ==
    \* cancelled: the failure is an ERROR of the leader itself (PG_CATCH).
    /\ leader = [pc |-> "register", at |-> 0, reason |-> "none", cancelled |-> FALSE]
    /\ status = [w \in Workers |-> "unregistered"]
    \* sigterm: TerminateBackgroundWorker was called; won, killed (history): its
    \* error is the one in worker_error, it ended by SIGTERM.
    /\ worker = [w \in Workers |-> [pc |-> "none", sigterm |-> FALSE, won |-> FALSE,
                                    killed |-> FALSE]]
    /\ in_proc_array = {}
    /\ ready = [w \in Workers |-> 0]
    /\ control = [worker_error |-> 0, message |-> FALSE, shutdown_requested |-> 0]
    /\ worker_pids = {}
    /\ leader_latch = FALSE
    /\ latch = [w \in Workers |-> FALSE]
    /\ segment = {Leader}
    /\ faults = 0

LeaderAt(point) == leader.pc = point
At(w, point) == worker[w].pc = point
MoveTo(w, point) == worker' = [worker EXCEPT ![w].pc = point]
Current == leader.at

Fault ==
    /\ faults < MaxFaults
    /\ faults' = faults + 1

FailEarly(reason) == leader' = [leader EXCEPT !.pc = "signal", !.reason = reason]

\* Variant: the last worker is passed by.
NextWorkerLate(point, done) ==
    leader' = IF Current < NumWorkers
              THEN [leader EXCEPT !.pc = point, !.at = @ + 1]
              ELSE [leader EXCEPT !.pc = done, !.at = 0]

\* The leader goes on with the next worker, or with `done` after the last.
NextWorker(point, done) ==
    leader' = IF Current + 1 < NumWorkers
              THEN [leader EXCEPT !.pc = point, !.at = @ + 1]
              ELSE [leader EXCEPT !.pc = done, !.at = 0]

------------------------------------------------------------------------------
(* The leader. *)

RegisterDynamicBackgroundWorker ==
    /\ LeaderAt("register")
    /\ \/ /\ status' = [status EXCEPT ![Current] = "not_yet_started"]
          /\ NextWorker("register", "startup")
          /\ UNCHANGED faults
       \/ /\ Fault                    \* no slot
          /\ FailEarly("no slot")
          /\ UNCHANGED status
    /\ UNCHANGED <<worker, in_proc_array, ready, control, worker_pids, leader_latch,
                   latch, segment>>

\* WaitForBackgroundWorkerStartup (external) sleeps on the leader's latch.
WaitForStartup ==
    /\ LeaderAt("startup")
    /\ \/ /\ status[Current] = "started"
          /\ leader' = [leader EXCEPT !.pc = "ready"]
          /\ UNCHANGED leader_latch
       \/ /\ status[Current] = "stopped"
          /\ FailEarly("exited before startup")
          /\ UNCHANGED leader_latch
       \/ /\ status[Current] = "not_yet_started"
          /\ leader_latch
          /\ leader_latch' = FALSE
          /\ UNCHANGED leader
    /\ UNCHANGED <<status, worker, in_proc_array, ready, control, worker_pids, latch,
                   segment, faults>>

\* Variant: the leader takes a started worker for a ready one.
ReadReadyTrusting ==
    /\ LeaderAt("ready")
    /\ leader' = [leader EXCEPT !.pc = "proc"]
    /\ UNCHANGED <<status, worker, in_proc_array, ready, control, worker_pids,
                   leader_latch, latch, segment, faults>>

\* The head of the loop that waits for the ready bit.
ReadReady ==
    /\ LeaderAt("ready")
    /\ leader' = [leader EXCEPT !.pc = IF ready[Current] = 0 THEN "poll" ELSE "proc"]
    /\ UNCHANGED <<status, worker, in_proc_array, ready, control, worker_pids,
                   leader_latch, latch, segment, faults>>

\* GetBackgroundWorkerPid, and the message of a worker that has stopped.
Poll ==
    /\ LeaderAt("poll")
    /\ IF status[Current] = "stopped"
       THEN FailEarly(IF control.message THEN "message" ELSE "exited before ready")
       ELSE leader' = [leader EXCEPT !.pc = "recheck"]
    /\ UNCHANGED <<status, worker, in_proc_array, ready, control, worker_pids,
                   leader_latch, latch, segment, faults>>

RecheckReady ==
    /\ LeaderAt("recheck")
    /\ leader' = [leader EXCEPT !.pc = IF ready[Current] = 0 THEN "wait" ELSE "proc"]
    /\ UNCHANGED <<status, worker, in_proc_array, ready, control, worker_pids,
                   leader_latch, latch, segment, faults>>

\* WaitLatch and ResetLatch.
WaitReady ==
    /\ LeaderAt("wait")
    /\ leader_latch
    /\ leader_latch' = FALSE
    /\ leader' = [leader EXCEPT !.pc = "ready"]
    /\ UNCHANGED <<status, worker, in_proc_array, ready, control, worker_pids, latch,
                   segment, faults>>

\* The second is over.
WaitReadyTimeout ==
    /\ LeaderAt("wait")
    /\ ~leader_latch
    /\ leader' = [leader EXCEPT !.pc = "ready"]
    /\ UNCHANGED <<status, worker, in_proc_array, ready, control, worker_pids,
                   leader_latch, latch, segment, faults>>

\* BackendPidGetProc of the worker that is ready.
FindProc ==
    /\ LeaderAt("proc")
    /\ IF Current \in in_proc_array THEN NextWorker("startup", "enlist")
       ELSE FailEarly("no proc")
    /\ UNCHANGED <<status, worker, in_proc_array, ready, control, worker_pids,
                   leader_latch, latch, segment, faults>>

RegisterWorkerPids ==
    /\ LeaderAt("enlist")
    /\ worker_pids' = Workers
    /\ leader' = [leader EXCEPT !.pc = "running"]
    /\ UNCHANGED <<status, worker, in_proc_array, ready, control, leader_latch, latch,
                   segment, faults>>

\* CHECK_FOR_INTERRUPTS in the waits: PG_CATCH terminates the workers.
Cancel ==
    /\ leader.pc \in {"startup", "ready", "poll", "wait"}
    /\ Fault
    /\ leader' = [leader EXCEPT !.pc = "signal", !.reason = "cancel", !.cancelled = TRUE]
    /\ UNCHANGED <<status, worker, in_proc_array, ready, control, worker_pids,
                   leader_latch, latch, segment>>

------------------------------------------------------------------------------
(* SignalShutdownAndWait and DestroyRuntimeDsm. *)

SignalShutdown ==
    /\ LeaderAt("signal")
    /\ control' = [control EXCEPT !.shutdown_requested = 1]
    /\ leader' = [leader EXCEPT !.pc = "wake"]
    /\ UNCHANGED <<status, worker, in_proc_array, ready, worker_pids, leader_latch,
                   latch, segment, faults>>

WakeStartedWorkers ==
    /\ LeaderAt("wake")
    /\ latch' = [w \in Workers |-> latch[w] \/ (status[w] = "started"
                                                /\ w \in in_proc_array)]
    /\ leader' = [leader EXCEPT !.pc = IF leader.cancelled THEN "grace" ELSE "join"]
    /\ UNCHANGED <<status, worker, in_proc_array, ready, control, worker_pids,
                   leader_latch, segment, faults>>

\* After the grace of 250 ms per worker: TerminateBackgroundWorker for those that
\* are running.
Terminate ==
    /\ LeaderAt("grace")
    /\ worker' = [w \in Workers |->
                     IF status[w] = "started" THEN [worker[w] EXCEPT !.sigterm = TRUE]
                     ELSE worker[w]]
    /\ leader' = [leader EXCEPT !.pc = "join"]
    /\ UNCHANGED <<status, in_proc_array, ready, control, worker_pids, leader_latch,
                   latch, segment, faults>>

\* Variant: the leader does not wait for workers that have not started yet.
JoinStarted ==
    /\ LeaderAt("join")
    /\ \A w \in Workers : status[w] # "started"
    /\ leader' = [leader EXCEPT !.pc = "failed"]
    /\ segment' = segment \ {Leader}
    /\ UNCHANGED <<status, worker, in_proc_array, ready, control, worker_pids,
                   leader_latch, latch, faults>>

\* WaitForBackgroundWorkerShutdown of every handle, then the segment is detached.
Join ==
    /\ LeaderAt("join")
    /\ \A w \in Workers : status[w] \in {"unregistered", "stopped"}
    /\ leader' = [leader EXCEPT !.pc = "failed"]
    /\ segment' = segment \ {Leader}
    /\ UNCHANGED <<status, worker, in_proc_array, ready, control, worker_pids,
                   leader_latch, latch, faults>>

\* The ERROR: pg_yaap_execute_query reads the reason that FailEarly left, which for
\* "message" is a pointer to worker_error_msg.
Raise ==
    /\ LeaderAt("failed")
    /\ leader' = [leader EXCEPT !.pc = "raised"]
    /\ UNCHANGED <<status, worker, in_proc_array, ready, control, worker_pids,
                   leader_latch, latch, segment, faults>>

------------------------------------------------------------------------------
(* The postmaster (external): it starts workers, notices that they have stopped *)
(* and signals the leader, whose handler sets its latch, in either case.        *)

StartWorker(w) ==
    /\ status[w] = "not_yet_started"
    /\ status' = [status EXCEPT ![w] = "started"]
    /\ MoveTo(w, "attach")
    /\ leader_latch' = TRUE
    /\ UNCHANGED <<leader, in_proc_array, ready, control, worker_pids, latch, segment,
                   faults>>

ReapWorker(w) ==
    /\ status[w] = "started"
    /\ At(w, "gone")
    /\ status' = [status EXCEPT ![w] = "stopped"]
    /\ leader_latch' = TRUE
    /\ UNCHANGED <<leader, worker, in_proc_array, ready, control, worker_pids, latch,
                   segment, faults>>

------------------------------------------------------------------------------
(* pg_yaap_pipeline_worker_main. *)

\* The process ends: its PGPROC and its mapping go.
ProcExit(w, killed) ==
    /\ worker' = [worker EXCEPT ![w].pc = "gone", ![w].killed = killed]
    /\ in_proc_array' = in_proc_array \ {w}
    /\ segment' = segment \ {w}

\* dsm_attach; an error before PG_TRY ends the worker without a report.
Attach(w) ==
    /\ At(w, "attach")
    /\ \/ /\ segment # {}
          /\ segment' = segment \cup {w}
          /\ MoveTo(w, "connect")
          /\ UNCHANGED <<in_proc_array, faults>>
       \/ /\ Fault \/ (segment = {} /\ UNCHANGED faults)
          /\ ProcExit(w, FALSE)
    /\ UNCHANGED <<leader, status, ready, control, worker_pids, leader_latch, latch>>

\* Variant: the worker goes on to publish its ready bit without a connection.
ConnectLate(w) ==
    /\ At(w, "connect")
    /\ MoveTo(w, "publish")
    /\ UNCHANGED <<leader, status, in_proc_array, ready, control, worker_pids,
                   leader_latch, latch, segment, faults>>

\* BackgroundWorkerInitializeConnectionByOid enters the worker in the ProcArray,
\* also when what follows it fails.
Connect(w) ==
    /\ At(w, "connect")
    /\ in_proc_array' = in_proc_array \cup {w}
    /\ \/ MoveTo(w, "publish") /\ UNCHANGED faults
       \/ Fault /\ MoveTo(w, "report")
    /\ UNCHANGED <<leader, status, ready, control, worker_pids, leader_latch, latch,
                   segment>>

PublishReady(w) ==
    /\ At(w, "publish")
    /\ ready' = [ready EXCEPT ![w] = 1]
    /\ MoveTo(w, "notify")
    /\ UNCHANGED <<leader, status, in_proc_array, control, worker_pids, leader_latch,
                   latch, segment, faults>>

\* Variant: the leader is not woken when a worker is ready.
NotifyNobody(w) ==
    /\ At(w, "notify")
    /\ MoveTo(w, "setup")
    /\ UNCHANGED <<leader, status, in_proc_array, ready, control, worker_pids,
                   leader_latch, latch, segment, faults>>

NotifyLeader(w) ==
    /\ At(w, "notify")
    /\ leader_latch' = TRUE
    /\ MoveTo(w, "setup")
    /\ UNCHANGED <<leader, status, in_proc_array, ready, control, worker_pids, latch,
                   segment, faults>>

\* WorkerReconstructPipelines and what else may fail before the loop.
Setup(w) ==
    /\ At(w, "setup")
    /\ \/ MoveTo(w, "check") /\ UNCHANGED faults
       \/ Fault /\ MoveTo(w, "report")
    /\ UNCHANGED <<leader, status, in_proc_array, ready, control, worker_pids,
                   leader_latch, latch, segment>>

\* WorkerShutdownRequested, then an empty queue and the wait for the latch.
CheckShutdown(w) ==
    /\ At(w, "check")
    /\ MoveTo(w, IF control.shutdown_requested = 1 \/ control.worker_error = 1
                 THEN "exit" ELSE "wait")
    /\ UNCHANGED <<leader, status, in_proc_array, ready, control, worker_pids,
                   leader_latch, latch, segment, faults>>

WaitTask(w) ==
    /\ At(w, "wait")
    /\ latch[w]
    /\ latch' = [latch EXCEPT ![w] = FALSE]
    /\ MoveTo(w, "check")
    /\ UNCHANGED <<leader, status, in_proc_array, ready, control, worker_pids,
                   leader_latch, segment, faults>>

WaitTaskTimeout(w) ==
    /\ At(w, "wait")
    /\ ~latch[w]
    /\ MoveTo(w, "check")
    /\ UNCHANGED <<leader, status, in_proc_array, ready, control, worker_pids,
                   leader_latch, latch, segment, faults>>

Exit(w) ==
    /\ At(w, "exit")
    /\ ProcExit(w, FALSE)
    /\ UNCHANGED <<leader, status, ready, control, worker_pids, leader_latch, latch,
                   faults>>

\* bgworker_die (external): SIGTERM ends the process, without PG_CATCH.
Die(w) ==
    /\ worker[w].pc \notin {"none", "gone"}
    /\ (worker[w].sigterm /\ UNCHANGED faults) \/ Fault
    /\ ProcExit(w, TRUE)
    /\ UNCHANGED <<leader, status, ready, control, worker_pids, leader_latch, latch>>

\* ReportWorkerStartupError: the first error wins worker_error ...
ReportError(w) ==
    /\ At(w, "report")
    /\ IF control.worker_error = 0
       THEN /\ control' = [control EXCEPT !.worker_error = 1]
            /\ worker' = [worker EXCEPT ![w].pc = "message", ![w].won = TRUE]
       ELSE MoveTo(w, "shutdown") /\ UNCHANGED control
    /\ UNCHANGED <<leader, status, in_proc_array, ready, worker_pids, leader_latch,
                   latch, segment, faults>>

\* Variant: the message is not written.
WriteNoMessage(w) ==
    /\ At(w, "message")
    /\ MoveTo(w, "shutdown")
    /\ UNCHANGED <<leader, status, in_proc_array, ready, control, worker_pids,
                   leader_latch, latch, segment, faults>>

\* ... and then writes the message ...
WriteMessage(w) ==
    /\ At(w, "message")
    /\ control' = [control EXCEPT !.message = TRUE]
    /\ MoveTo(w, "shutdown")
    /\ UNCHANGED <<leader, status, in_proc_array, ready, worker_pids, leader_latch,
                   latch, segment, faults>>

\* ... the flag ...
RequestShutdown(w) ==
    /\ At(w, "shutdown")
    /\ control' = [control EXCEPT !.shutdown_requested = 1]
    /\ MoveTo(w, "tell")
    /\ UNCHANGED <<leader, status, in_proc_array, ready, worker_pids, leader_latch,
                   latch, segment, faults>>

\* ... and wakes the leader, but not the other workers.
TellLeader(w) ==
    /\ At(w, "tell")
    /\ leader_latch' = TRUE
    /\ MoveTo(w, "exit")
    /\ UNCHANGED <<leader, status, in_proc_array, ready, control, worker_pids, latch,
                   segment, faults>>

------------------------------------------------------------------------------
LeaderNext ==
    \/ RegisterDynamicBackgroundWorker \/ WaitForStartup \/ ReadReady \/ Poll
    \/ RecheckReady \/ WaitReady \/ FindProc \/ RegisterWorkerPids
    \/ SignalShutdown \/ WakeStartedWorkers \/ Terminate \/ Join \/ Raise

WorkerNext(w) ==
    \/ Attach(w) \/ Connect(w) \/ PublishReady(w) \/ NotifyLeader(w) \/ Setup(w)
    \/ CheckShutdown(w) \/ WaitTask(w) \/ Exit(w)
    \/ ReportError(w) \/ WriteMessage(w) \/ RequestShutdown(w) \/ TellLeader(w)

Next ==
    \/ LeaderNext \/ WaitReadyTimeout \/ Cancel
    \/ \E w \in Workers :
          \/ StartWorker(w) \/ ReapWorker(w)
          \/ WorkerNext(w) \/ WaitTaskTimeout(w) \/ Die(w)

\* The postmaster and every process go on; the timeouts need not happen.
Fairness ==
    /\ WF_vars(LeaderNext)
    /\ \A w \in Workers :
          /\ WF_vars(StartWorker(w)) /\ WF_vars(ReapWorker(w)) /\ WF_vars(WorkerNext(w))
          /\ WF_vars(Die(w) /\ worker[w].sigterm)

Spec == Init /\ [][Next]_vars /\ Fairness

------------------------------------------------------------------------------
(* What the start-up promises. *)

\* Every variable has a value of its type.
TypeOK ==
    /\ leader \in [pc : LeaderPoints, at : Workers, cancelled : BOOLEAN,
                   reason : {"none", "no slot", "exited before startup", "message",
                             "exited before ready", "no proc", "cancel"}]
    /\ status \in [Workers -> {"unregistered", "not_yet_started", "started", "stopped"}]
    /\ worker \in [Workers -> [pc : WorkerPoints, sigterm : BOOLEAN, won : BOOLEAN,
                            killed : BOOLEAN]]
    /\ in_proc_array \subseteq Workers
    /\ ready \in [Workers -> 0 .. 1]
    /\ control \in [worker_error : 0 .. 1, message : BOOLEAN, shutdown_requested : 0 .. 1]
    /\ worker_pids \in SUBSET Workers
    /\ leader_latch \in BOOLEAN
    /\ latch \in [Workers -> BOOLEAN]
    /\ segment \subseteq {Leader} \cup Workers
    /\ faults \in 0 .. MaxFaults

\* The leader gives up for want of a PGPROC only if the worker has ended: a worker
\* that is ready can be found, so that the pids it lists are those of workers it
\* can wake ("Oracle race-fix", pipeline_worker_main.cpp).
ReadyWorkersAreFound ==
    [][ leader'.reason = "no proc" /\ leader.reason = "none"
        => At(Current, "gone") ]_vars

\* The event loop begins only when every worker has attached and connected: what
\* is pushed is not addressed to a worker that never comes up.
LoopStartsWithWorkers ==
    LeaderAt("running") =>
        \A w \in Workers : worker[w].pc \notin {"none", "attach", "connect", "publish"}

\* Nobody uses the segment after the query gave up: the leader detaches it when
\* every worker it asked for has come and gone, those that start late included.
FailureLeavesNoWorker ==
    leader.pc \in {"failed", "raised"} =>
        \A w \in Workers : status[w] \in {"unregistered", "stopped"} /\ w \notin segment

\* "pipeline worker exited before reporting ready" is a guess for want of a text: if
\* any worker has an error to report, its own or that of a worker it lost the CAS to,
\* then the one that won worker_error is still about to write the text or was killed
\* before it could.  A text that is written but not used is the other reason's matter,
\* "exited before startup completed": that branch never looks for one.
GuessOnlyWithoutText ==
    [][ leader'.reason = "exited before ready" /\ leader.reason = "none"
        => ( control.worker_error = 1
             => \E v \in Workers : worker[v].won /\ (At(v, "message") \/ worker[v].killed) )
      ]_vars

\* The start-up ends: all workers listed, or the query failed and cleaned up.  No
\* timeout is needed, that is, no wake-up of the leader or of a worker is lost.
StartupEnds == <>(LeaderAt("running") \/ LeaderAt("raised"))
==============================================================================

------------------------ MODULE WorkerStartupProofs ------------------------
(****************************************************************************)
(* The start-up for every number of workers and any number of faults: an    *)
(* inductive invariant and the safety properties that follow from it.       *)
(****************************************************************************)
EXTENDS WorkerStartup, TLAPS

\* The worker has connected and published its ready bit, or it has failed.
Past(w) == worker[w].pc \notin {"none", "attach", "connect", "publish"}

\* A process exists between its start by the postmaster and its end.
StatusMatches(w) ==
    /\ worker[w].pc = "none" <=> status[w] \in {"unregistered", "not_yet_started"}
    /\ status[w] = "stopped" => worker[w].pc = "gone"

\* A worker that has connected is in the ProcArray until it ends.
Connected(w) ==
    worker[w].pc \notin {"none", "attach", "connect", "gone"} => w \in in_proc_array

\* No process has the segment mapped before it starts or after it ends.
Mapped(w) == worker[w].pc \in {"none", "gone"} => w \notin segment

\* A ready bit says that the worker has got so far.
ReadyIsPast(w) == ready[w] = 1 => Past(w)

\* The worker whose error is in worker_error has written its text, unless it is
\* about to or was killed before.
ErrorTold(w) ==
    /\ worker[w].killed => worker[w].pc = "gone"
    /\ worker[w].won =>
          /\ worker[w].pc \in {"message", "shutdown", "tell", "exit", "gone"}
          /\ worker[w].pc # "message" /\ ~worker[w].killed => control.message

\* An error that is reported is that of a worker.
ErrorHasAuthor == control.worker_error = 1 => \E w \in Workers : worker[w].won

WorkerInv(w) ==
    StatusMatches(w) /\ Connected(w) /\ Mapped(w) /\ ReadyIsPast(w) /\ ErrorTold(w)

\* The workers ahead of the leader's position have not been registered; those behind
\* are past the ready bit.
LeaderPassed ==
    /\ LeaderAt("register") =>
          \A w \in Workers : w >= leader.at => status[w] = "unregistered"
    /\ leader.pc \in {"startup", "ready", "poll", "recheck", "wait", "proc"}
       => \A w \in Workers : w < leader.at => Past(w)
    /\ LeaderAt("proc") => ready[leader.at] = 1
    /\ leader.pc \in {"enlist", "running"} => \A w \in Workers : Past(w)

IInv ==
    /\ TypeOK
    /\ \A w \in Workers : WorkerInv(w)
    /\ LeaderPassed
    /\ FailureLeavesNoWorker
    /\ ErrorHasAuthor

------------------------------------------------------------------------------
(* What the steps do to the records. *)

LeaderRecords ==
    [pc : LeaderPoints, at : Workers, cancelled : BOOLEAN,
     reason : {"none", "no slot", "exited before startup", "message",
               "exited before ready", "no proc", "cancel"}]
WorkerRecords == [pc : WorkerPoints, sigterm : BOOLEAN, won : BOOLEAN, killed : BOOLEAN]
ControlRecords == [worker_error : 0 .. 1, message : BOOLEAN, shutdown_requested : 0 .. 1]

\* TypeOK with names for its sets of records.
Types ==
    /\ leader \in LeaderRecords
    /\ status \in [Workers -> {"unregistered", "not_yet_started", "started", "stopped"}]
    /\ worker \in [Workers -> WorkerRecords]
    /\ in_proc_array \subseteq Workers
    /\ ready \in [Workers -> 0 .. 1]
    /\ control \in ControlRecords
    /\ worker_pids \in SUBSET Workers
    /\ leader_latch \in BOOLEAN
    /\ latch \in [Workers -> BOOLEAN]
    /\ segment \subseteq {Leader} \cup Workers
    /\ faults \in 0 .. MaxFaults

\* The names are only names.
LEMMA TypesNamed == TypeOK <=> Types
BY DEF TypeOK, Types, LeaderRecords, WorkerRecords, ControlRecords

Others(v) == \A w \in Workers : w # v => worker'[w] = worker[w]

\* A worker that goes to another point keeps the rest of its record, and so do the
\* others.
LEMMA MoveEffect ==
    ASSUME worker \in [Workers -> WorkerRecords], NEW v \in Workers,
           NEW p \in WorkerPoints, MoveTo(v, p)
    PROVE  /\ worker' \in [Workers -> WorkerRecords]
           /\ Others(v)
           /\ worker'[v].pc = p
           /\ worker'[v].won = worker[v].won
           /\ worker'[v].killed = worker[v].killed
<1>1. worker'[v] = [worker[v] EXCEPT !.pc = p] /\ Others(v)
    BY DEF MoveTo, Others, WorkerRecords
<1>2. worker'[v] \in WorkerRecords
    BY <1>1 DEF WorkerRecords
<1>3. worker' \in [Workers -> WorkerRecords]
    BY <1>1, <1>2 DEF MoveTo
<1> QED
    BY <1>1, <1>3 DEF WorkerRecords

\* The end of a process takes it out of the ProcArray and of the segment.
LEMMA ExitEffect ==
    ASSUME worker \in [Workers -> WorkerRecords], NEW v \in Workers,
           NEW k \in BOOLEAN, ProcExit(v, k)
    PROVE  /\ worker' \in [Workers -> WorkerRecords]
           /\ Others(v)
           /\ worker'[v].pc = "gone"
           /\ worker'[v].won = worker[v].won
           /\ worker'[v].killed = k
           /\ in_proc_array' = in_proc_array \ {v}
           /\ segment' = segment \ {v}
<1>1. worker'[v] = [worker[v] EXCEPT !.pc = "gone", !.killed = k] /\ Others(v)
    BY DEF ProcExit, Others, WorkerRecords
<1>2. worker'[v] \in WorkerRecords
    BY <1>1 DEF WorkerRecords, WorkerPoints
<1>3. worker' \in [Workers -> WorkerRecords]
    BY <1>1, <1>2 DEF ProcExit
<1> QED
    BY <1>1, <1>3 DEF WorkerRecords, ProcExit

\* A worker becomes the winner only on its way to write the message.
LEMMA ReportEffect ==
    ASSUME worker \in [Workers -> WorkerRecords], control \in ControlRecords,
           NEW v \in Workers, ReportError(v)
    PROVE  /\ worker' \in [Workers -> WorkerRecords]
           /\ control' \in ControlRecords
           /\ Others(v)
           /\ worker[v].pc = "report"
           /\ worker'[v].pc \in {"message", "shutdown"}
           /\ worker'[v].won => worker[v].won \/ worker'[v].pc = "message"
           /\ worker'[v].killed = worker[v].killed
           /\ control'.message = control.message
           /\ worker[v].won => worker'[v].won
           /\ worker'[v].won \/ UNCHANGED control
<1>1. worker[v].pc = "report"
    BY DEF ReportError, At
<1>2. CASE control.worker_error = 0
    <2>1. worker'[v] = [worker[v] EXCEPT !.pc = "message", !.won = TRUE] /\ Others(v)
        BY <1>2 DEF ReportError, Others, WorkerRecords
    <2>2. worker'[v] \in WorkerRecords
        BY <2>1 DEF WorkerRecords, WorkerPoints
    <2>3. worker' \in [Workers -> WorkerRecords]
        BY <1>2, <2>1, <2>2 DEF ReportError
    <2>4. control' \in ControlRecords /\ control'.message = control.message
        BY <1>2 DEF ReportError, ControlRecords
    <2> QED
        BY <1>1, <2>1, <2>3, <2>4 DEF WorkerRecords
<1>3. CASE control.worker_error # 0
    <2>1. MoveTo(v, "shutdown") /\ UNCHANGED control
        BY <1>3 DEF ReportError
    <2> QED
        BY <1>1, <2>1, MoveEffect DEF WorkerPoints
<1> QED
    BY <1>2, <1>3

\* TerminateBackgroundWorker only leaves a signal.
LEMMA TerminateEffect ==
    ASSUME worker \in [Workers -> WorkerRecords], Terminate
    PROVE  /\ worker' \in [Workers -> WorkerRecords]
           /\ \A w \in Workers : /\ worker'[w].pc = worker[w].pc
                                 /\ worker'[w].won = worker[w].won
                                 /\ worker'[w].killed = worker[w].killed
BY DEF Terminate, WorkerRecords

\* The positions the leader compares.
LEMMA WorkersAreNumbers ==
    \A w \in Workers : w \in Int /\ 0 <= w /\ w < NumWorkers
BY StartupAssumption DEF Workers, StartupAssumption

\* The leader goes to the worker that follows, or to the next phase after the last.
LEMMA NextWorkerEffect ==
    ASSUME leader \in LeaderRecords, NEW p \in LeaderPoints, NEW q \in LeaderPoints,
           NextWorker(p, q)
    PROVE  /\ leader' \in LeaderRecords
           /\ \/ leader.at + 1 < NumWorkers /\ leader'.pc = p /\ leader'.at = leader.at + 1
              \/ leader.at + 1 >= NumWorkers /\ leader'.pc = q /\ leader'.at = 0
           /\ leader'.reason = leader.reason
<1>0. leader.at \in Workers
    BY DEF LeaderRecords
<1>1. leader.at \in Int /\ 0 <= leader.at /\ 0 \in Workers /\ NumWorkers \in Int
    BY <1>0, StartupAssumption DEF Workers, StartupAssumption
<1>2. CASE leader.at + 1 < NumWorkers
    <2>1. leader.at + 1 \in Workers
        BY <1>1, <1>2 DEF Workers
    <2> QED
        BY <1>2, <2>1 DEF NextWorker, Current, LeaderRecords
<1>3. CASE leader.at + 1 >= NumWorkers
    <2>1. ~(leader.at + 1 < NumWorkers)
        BY <1>1, <1>3
    <2> QED
        BY <1>1, <1>3, <2>1 DEF NextWorker, Current, LeaderRecords
<1> QED
    BY <1>1, <1>2, <1>3

\* The bound on faults is kept.
LEMMA FaultEffect ==
    ASSUME faults \in 0 .. MaxFaults, Fault \/ UNCHANGED faults
    PROVE  faults' \in 0 .. MaxFaults
BY StartupAssumption DEF StartupAssumption, Fault

\* The steps of the leader that leave the workers alone.
LeaderOnly ==
    /\ UNCHANGED <<status, worker, in_proc_array, ready, control, segment>>

------------------------------------------------------------------------------
\* It holds at first.
LEMMA IInvInit == ASSUME StartupAssumption, Init PROVE IInv
<1> USE DEF Init, Workers, Leader, StartupAssumption
<1>1. leader \in LeaderRecords
    BY DEF LeaderRecords, LeaderPoints
<1>2. worker \in [Workers -> WorkerRecords] /\ control \in ControlRecords
    BY DEF WorkerRecords, WorkerPoints, ControlRecords
<1>3. /\ status \in [Workers -> {"unregistered", "not_yet_started", "started", "stopped"}]
      /\ ready \in [Workers -> 0 .. 1] /\ latch \in [Workers -> BOOLEAN]
      /\ in_proc_array \subseteq Workers /\ worker_pids \in SUBSET Workers
      /\ segment \subseteq {Leader} \cup Workers /\ faults \in 0 .. MaxFaults
    OBVIOUS
<1>6. TypeOK
    BY <1>1, <1>2, <1>3, TypesNamed DEF Types
<1>4. ASSUME NEW w \in Workers PROVE WorkerInv(w)
    BY <1>4 DEF WorkerInv, StatusMatches, Connected, Mapped, ReadyIsPast, ErrorTold
<1>5. LeaderPassed /\ FailureLeavesNoWorker /\ ErrorHasAuthor
    BY DEF LeaderPassed, FailureLeavesNoWorker, LeaderAt, ErrorHasAuthor
<1> QED
    BY <1>6, <1>4, <1>5 DEF IInv

------------------------------------------------------------------------------
\* Every step keeps what holds of a worker.
LEMMA WorkerStep ==
    ASSUME Types, \A u \in Workers : WorkerInv(u), LeaderPassed, [Next]_vars,
           NEW w \in Workers
    PROVE  WorkerInv(w)'
<1> USE DEF Types
<1>1. CASE LeaderOnly
    BY <1>1 DEF LeaderOnly, WorkerInv, StatusMatches, Connected, Mapped, ReadyIsPast,
         ErrorTold, Past
<1>2. CASE RegisterDynamicBackgroundWorker
    <2>1. UNCHANGED <<worker, in_proc_array, ready, control, segment>>
        BY <1>2 DEF RegisterDynamicBackgroundWorker
    <2>2. status'[w] = status[w] \/ (status'[w] = "not_yet_started" /\ w = leader.at)
        BY <1>2 DEF RegisterDynamicBackgroundWorker, Current
    <2>3. w = leader.at => status[w] = "unregistered"
        <3>1. LeaderAt("register")
            BY <1>2 DEF RegisterDynamicBackgroundWorker
        <3>2. w \in Int
            BY StartupAssumption DEF Workers
        <3> QED
            BY <3>1, <3>2 DEF LeaderPassed
    <2> QED
        BY <2>1, <2>2, <2>3 DEF WorkerInv, StatusMatches, Connected, Mapped,
             ReadyIsPast, ErrorTold, Past
<1>3. CASE SignalShutdown
    BY <1>3 DEF SignalShutdown, ControlRecords, WorkerInv, StatusMatches, Connected,
         Mapped, ReadyIsPast, ErrorTold, Past
<1>4. CASE Terminate
    BY <1>4, TerminateEffect DEF Terminate, WorkerInv, StatusMatches, Connected,
         Mapped, ReadyIsPast, ErrorTold, Past
<1>5. CASE Join
    BY <1>5 DEF Join, WorkerInv, StatusMatches, Connected, Mapped, ReadyIsPast,
         ErrorTold, Past
<1>6. ASSUME NEW v \in Workers, Attach(v) PROVE WorkerInv(w)'
    <2>1. worker[v].pc = "attach" /\ UNCHANGED <<status, ready, control>>
        BY <1>6 DEF Attach, At
    <2>2. CASE segment' = segment \cup {v} /\ MoveTo(v, "connect") /\ UNCHANGED in_proc_array
        BY <2>1, <2>2, MoveEffect DEF Others, WorkerInv, StatusMatches, Connected,
             Mapped, ReadyIsPast, ErrorTold, Past, WorkerPoints
    <2>3. CASE ProcExit(v, FALSE)
        BY <2>1, <2>3, ExitEffect DEF Others, WorkerInv, StatusMatches, Connected,
             Mapped, ReadyIsPast, ErrorTold, Past
    <2> QED
        BY <1>6, <2>2, <2>3 DEF Attach
<1>7. ASSUME NEW v \in Workers, Connect(v) PROVE WorkerInv(w)'
    BY <1>7, MoveEffect DEF Connect, At, Fault, WorkerPoints, Others, WorkerInv,
         StatusMatches, Connected, Mapped, ReadyIsPast, ErrorTold, Past
<1>8. ASSUME NEW v \in Workers, PublishReady(v) PROVE WorkerInv(w)'
    BY <1>8, MoveEffect DEF PublishReady, At, WorkerPoints, Others, WorkerInv,
         StatusMatches, Connected, Mapped, ReadyIsPast, ErrorTold, Past
<1>9. ASSUME NEW v \in Workers, NotifyLeader(v) PROVE WorkerInv(w)'
    BY <1>9, MoveEffect DEF NotifyLeader, At, WorkerPoints, Others, WorkerInv,
         StatusMatches, Connected, Mapped, ReadyIsPast, ErrorTold, Past
<1>10. ASSUME NEW v \in Workers, Setup(v) PROVE WorkerInv(w)'
    BY <1>10, MoveEffect DEF Setup, At, Fault, WorkerPoints, Others, WorkerInv,
         StatusMatches, Connected, Mapped, ReadyIsPast, ErrorTold, Past
<1>11. ASSUME NEW v \in Workers, CheckShutdown(v) PROVE WorkerInv(w)'
    BY <1>11, MoveEffect DEF CheckShutdown, At, WorkerPoints, Others, WorkerInv,
         StatusMatches, Connected, Mapped, ReadyIsPast, ErrorTold, Past
<1>12. ASSUME NEW v \in Workers, WaitTask(v) PROVE WorkerInv(w)'
    BY <1>12, MoveEffect DEF WaitTask, At, WorkerPoints, Others, WorkerInv,
         StatusMatches, Connected, Mapped, ReadyIsPast, ErrorTold, Past
<1>13. ASSUME NEW v \in Workers, Exit(v) PROVE WorkerInv(w)'
    <2>1. worker[v].pc = "exit" /\ UNCHANGED <<status, ready, control>>
        BY <1>13 DEF Exit, At
    <2>2. ProcExit(v, FALSE)
        BY <1>13 DEF Exit
    <2>3. CASE w # v
        BY <2>1, <2>2, <2>3, ExitEffect DEF Others, WorkerInv, StatusMatches,
             Connected, Mapped, ReadyIsPast, ErrorTold, Past
    <2>4. CASE w = v
        BY <2>1, <2>2, <2>4, ExitEffect DEF WorkerInv, StatusMatches, Connected,
             Mapped, ReadyIsPast, ErrorTold, Past
    <2> QED
        BY <2>3, <2>4
<1>14. ASSUME NEW v \in Workers, ReportError(v) PROVE WorkerInv(w)'
    BY <1>14, ReportEffect DEF Others, WorkerInv, StatusMatches, Connected, Mapped,
         ReadyIsPast, ErrorTold, Past, ReportError
<1>15. ASSUME NEW v \in Workers, WriteMessage(v) PROVE WorkerInv(w)'
    BY <1>15, MoveEffect DEF WriteMessage, At, WorkerPoints, Others, WorkerInv,
         StatusMatches, Connected, Mapped, ReadyIsPast, ErrorTold, Past,
         ControlRecords
<1>16. ASSUME NEW v \in Workers, RequestShutdown(v) PROVE WorkerInv(w)'
    BY <1>16, MoveEffect DEF RequestShutdown, At, WorkerPoints, Others, WorkerInv,
         StatusMatches, Connected, Mapped, ReadyIsPast, ErrorTold, Past,
         ControlRecords
<1>17. ASSUME NEW v \in Workers, TellLeader(v) PROVE WorkerInv(w)'
    BY <1>17, MoveEffect DEF TellLeader, At, WorkerPoints, Others, WorkerInv,
         StatusMatches, Connected, Mapped, ReadyIsPast, ErrorTold, Past
<1>18. ASSUME NEW v \in Workers, StartWorker(v) PROVE WorkerInv(w)'
    BY <1>18, MoveEffect DEF StartWorker, At, WorkerPoints, Others, WorkerInv,
         StatusMatches, Connected, Mapped, ReadyIsPast, ErrorTold, Past
<1>19. ASSUME NEW v \in Workers, ReapWorker(v) PROVE WorkerInv(w)'
    BY <1>19 DEF ReapWorker, At, Others, WorkerInv, StatusMatches, Connected, Mapped,
         ReadyIsPast, ErrorTold, Past
<1>20. ASSUME NEW v \in Workers, WaitTaskTimeout(v) PROVE WorkerInv(w)'
    BY <1>20, MoveEffect DEF WaitTaskTimeout, At, WorkerPoints, Others, WorkerInv,
         StatusMatches, Connected, Mapped, ReadyIsPast, ErrorTold, Past
<1>21. ASSUME NEW v \in Workers, Die(v) PROVE WorkerInv(w)'
    <2>1. worker[v].pc \notin {"none", "gone"} /\ UNCHANGED <<status, ready, control>>
        BY <1>21 DEF Die, At
    <2>2. ProcExit(v, TRUE)
        BY <1>21 DEF Die
    <2>3. CASE w # v
        BY <2>1, <2>2, <2>3, ExitEffect DEF Others, WorkerInv, StatusMatches,
             Connected, Mapped, ReadyIsPast, ErrorTold, Past
    <2>4. CASE w = v
        BY <2>1, <2>2, <2>4, ExitEffect DEF WorkerInv, StatusMatches, Connected,
             Mapped, ReadyIsPast, ErrorTold, Past
    <2> QED
        BY <2>3, <2>4
<1>22. CASE WaitForStartup \/ ReadReady \/ Poll \/ RecheckReady \/ WaitReady \/
            FindProc \/ RegisterWorkerPids \/ WakeStartedWorkers \/ Raise \/ WaitReadyTimeout
            \/ Cancel
    BY <1>1, <1>22 DEF LeaderOnly, WaitForStartup, ReadReady, Poll, RecheckReady,
         WaitReady, FindProc, RegisterWorkerPids, WakeStartedWorkers, Raise,
         WaitReadyTimeout, Cancel
<1>23. CASE UNCHANGED vars
    BY <1>1, <1>23 DEF LeaderOnly, vars
<1> QED
    BY <1>2, <1>3, <1>4, <1>5, <1>6, <1>7, <1>8, <1>9, <1>10, <1>11, <1>12, <1>13,
         <1>14, <1>15, <1>16, <1>17, <1>18, <1>19, <1>20, <1>21, <1>22, <1>23 DEF
         Next, LeaderNext, WorkerNext

\* What no step undoes: a worker past its ready bit, the bit, a worker that the
\* leader has not registered or that the postmaster has seen stopped.
Keeps(w) ==
    /\ Past(w) => Past(w)'
    /\ ready[w] = 1 => ready'[w] = 1
    /\ status[w] = "unregistered" /\ leader' = leader => status'[w] = "unregistered"
    /\ status[w] = "stopped" => status'[w] = "stopped"

\* Every step keeps them.
LEMMA WorkerKeeps ==
    ASSUME Types, \A u \in Workers : WorkerInv(u), LeaderPassed, [Next]_vars,
           NEW w \in Workers
    PROVE  Keeps(w)
<1> USE DEF Types, Keeps
<1>a. WorkerInv(w)
    OBVIOUS
<1>1. CASE LeaderOnly
    BY <1>1 DEF LeaderOnly, Past
<1>2. CASE RegisterDynamicBackgroundWorker
    <2>1. UNCHANGED <<worker, ready>>
        BY <1>2 DEF RegisterDynamicBackgroundWorker
    <2>2. status'[w] = status[w] \/ w = leader.at
        BY <1>2 DEF RegisterDynamicBackgroundWorker, Current
    <2>3. w = leader.at => status[w] = "unregistered"
        <3>1. LeaderAt("register")
            BY <1>2 DEF RegisterDynamicBackgroundWorker
        <3>2. w \in Int
            BY StartupAssumption DEF Workers
        <3> QED
            BY <3>1, <3>2 DEF LeaderPassed
    <2>4. leader' # leader
        <3>0. leader.at \in Workers
            BY DEF LeaderRecords
        <3>1. leader.at \in Int
            BY <3>0, WorkersAreNumbers
        <3>4. leader.pc = "register"
            BY <1>2 DEF RegisterDynamicBackgroundWorker, LeaderAt
        <3>2. NextWorker("register", "startup")
              => leader'.pc = "startup" \/ leader'.at # leader.at
            BY <3>1, NextWorkerEffect DEF LeaderPoints
        <3>3. FailEarly("no slot") => leader'.pc = "signal"
            BY DEF FailEarly, LeaderRecords
        <3> QED
            BY <1>2, <3>2, <3>3, <3>4 DEF RegisterDynamicBackgroundWorker
    <2> QED
        BY <1>2, <2>1, <2>2, <2>3, <2>4 DEF Past
<1>3. CASE SignalShutdown
    BY <1>3 DEF SignalShutdown, Past
<1>4. CASE Terminate
    BY <1>4, TerminateEffect DEF Terminate, Past
<1>5. CASE Join
    BY <1>5 DEF Join, Past
<1>6. ASSUME NEW v \in Workers, Attach(v) PROVE Keeps(w)
    BY <1>6, <1>a, MoveEffect, ExitEffect DEF Attach, At, Fault, WorkerPoints, Others,
         StatusMatches, WorkerInv, Past
<1>7. ASSUME NEW v \in Workers, Connect(v) PROVE Keeps(w)
    BY <1>7, <1>a, MoveEffect DEF Connect, At, Fault, WorkerPoints, Others,
         StatusMatches, WorkerInv, Past
<1>8. ASSUME NEW v \in Workers, PublishReady(v) PROVE Keeps(w)
    BY <1>8, <1>a, MoveEffect DEF PublishReady, At, WorkerPoints, Others,
         StatusMatches, WorkerInv, Past
<1>9. ASSUME NEW v \in Workers, NotifyLeader(v) PROVE Keeps(w)
    BY <1>9, <1>a, MoveEffect DEF NotifyLeader, At, WorkerPoints, Others,
         StatusMatches, WorkerInv, Past
<1>10. ASSUME NEW v \in Workers, Setup(v) PROVE Keeps(w)
    BY <1>10, <1>a, MoveEffect DEF Setup, At, Fault, WorkerPoints, Others,
         StatusMatches, WorkerInv, Past
<1>11. ASSUME NEW v \in Workers, CheckShutdown(v) PROVE Keeps(w)
    BY <1>11, <1>a, MoveEffect DEF CheckShutdown, At, WorkerPoints, Others,
         StatusMatches, WorkerInv, Past
<1>12. ASSUME NEW v \in Workers, WaitTask(v) PROVE Keeps(w)
    BY <1>12, <1>a, MoveEffect DEF WaitTask, At, WorkerPoints, Others, StatusMatches,
         WorkerInv, Past
<1>13. ASSUME NEW v \in Workers, Exit(v) PROVE Keeps(w)
    BY <1>13, <1>a, ExitEffect DEF Exit, At, Others, StatusMatches, WorkerInv, Past
<1>14. ASSUME NEW v \in Workers, ReportError(v) PROVE Keeps(w)
    BY <1>14, <1>a, ReportEffect DEF Others, StatusMatches, WorkerInv, Past,
         ReportError
<1>15. ASSUME NEW v \in Workers, WriteMessage(v) PROVE Keeps(w)
    BY <1>15, <1>a, MoveEffect DEF WriteMessage, At, WorkerPoints, Others,
         StatusMatches, WorkerInv, Past, ControlRecords
<1>16. ASSUME NEW v \in Workers, RequestShutdown(v) PROVE Keeps(w)
    BY <1>16, <1>a, MoveEffect DEF RequestShutdown, At, WorkerPoints, Others,
         StatusMatches, WorkerInv, Past, ControlRecords
<1>17. ASSUME NEW v \in Workers, TellLeader(v) PROVE Keeps(w)
    BY <1>17, <1>a, MoveEffect DEF TellLeader, At, WorkerPoints, Others,
         StatusMatches, WorkerInv, Past
<1>18. ASSUME NEW v \in Workers, StartWorker(v) PROVE Keeps(w)
    BY <1>18, <1>a, MoveEffect DEF StartWorker, At, WorkerPoints, Others,
         StatusMatches, WorkerInv, Past
<1>19. ASSUME NEW v \in Workers, ReapWorker(v) PROVE Keeps(w)
    BY <1>19, <1>a DEF ReapWorker, At, Others, StatusMatches, WorkerInv, Past
<1>20. ASSUME NEW v \in Workers, WaitTaskTimeout(v) PROVE Keeps(w)
    BY <1>20, <1>a, MoveEffect DEF WaitTaskTimeout, At, WorkerPoints, Others,
         StatusMatches, WorkerInv, Past
<1>21. ASSUME NEW v \in Workers, Die(v) PROVE Keeps(w)
    BY <1>21, <1>a, ExitEffect DEF Die, At, Fault, Others, StatusMatches, WorkerInv,
         Past
<1>22. CASE WaitForStartup \/ ReadReady \/ Poll \/ RecheckReady \/ WaitReady \/
            FindProc \/ RegisterWorkerPids \/ WakeStartedWorkers \/ Raise \/ WaitReadyTimeout
            \/ Cancel
    BY <1>1, <1>22 DEF LeaderOnly, WaitForStartup, ReadReady, Poll, RecheckReady,
         WaitReady, FindProc, RegisterWorkerPids, WakeStartedWorkers, Raise,
         WaitReadyTimeout, Cancel
<1>23. CASE UNCHANGED vars
    BY <1>1, <1>23 DEF LeaderOnly, vars
<1> QED
    BY <1>1, <1>2, <1>3, <1>4, <1>5, <1>6, <1>7, <1>8, <1>9, <1>10, <1>11, <1>12,
         <1>13, <1>14, <1>15, <1>16, <1>17, <1>18, <1>19, <1>20, <1>21, <1>22, <1>23
         DEF Next, LeaderNext, WorkerNext

\* The leader keeps its record.
LEMMA LeaderTypes ==
    ASSUME StartupAssumption, leader \in LeaderRecords, [Next]_vars
    PROVE  leader' \in LeaderRecords
<1> USE DEF LeaderRecords, LeaderPoints
<1>1. CASE RegisterDynamicBackgroundWorker
    <2>1. CASE NextWorker("register", "startup")
        BY <2>1, NextWorkerEffect
    <2>2. ASSUME NEW reason, FailEarly(reason), reason \in {"no slot", "no proc"}
          PROVE  leader' \in LeaderRecords
        BY <2>2 DEF FailEarly
    <2> QED
        BY <1>1, <2>1, <2>2 DEF RegisterDynamicBackgroundWorker
<1>2. CASE WaitForStartup
    BY <1>2 DEF WaitForStartup, FailEarly
<1>3. CASE ReadReady
    BY <1>3 DEF ReadReady
<1>4. CASE Poll
    <2>1. ASSUME NEW reason, FailEarly(reason), reason \in {"message", "exited before ready"}
          PROVE  leader' \in LeaderRecords
        BY <2>1 DEF FailEarly
    <2> QED
        BY <1>4, <2>1 DEF Poll
<1>5. CASE RecheckReady
    BY <1>5 DEF RecheckReady
<1>6. CASE WaitReady
    BY <1>6 DEF WaitReady
<1>7. CASE FindProc
    <2>1. CASE NextWorker("startup", "enlist")
        BY <2>1, NextWorkerEffect
    <2>2. ASSUME NEW reason, FailEarly(reason), reason \in {"no slot", "no proc"}
          PROVE  leader' \in LeaderRecords
        BY <2>2 DEF FailEarly
    <2> QED
        BY <1>7, <2>1, <2>2 DEF FindProc
<1>8. CASE RegisterWorkerPids
    BY <1>8 DEF RegisterWorkerPids
<1>9. CASE SignalShutdown
    BY <1>9 DEF SignalShutdown
<1>10. CASE WakeStartedWorkers
    BY <1>10 DEF WakeStartedWorkers
<1>11. CASE Terminate
    BY <1>11 DEF Terminate
<1>12. CASE Join
    BY <1>12 DEF Join
<1>13. CASE Raise
    BY <1>13 DEF Raise
<1>14. CASE WaitReadyTimeout
    BY <1>14 DEF WaitReadyTimeout
<1>15. CASE Cancel
    BY <1>15 DEF Cancel, Fault
<1>16. CASE UNCHANGED leader
    BY <1>16
<1> QED
    BY <1>1, <1>2, <1>3, <1>4, <1>5, <1>6, <1>7, <1>8, <1>9, <1>10, <1>11, <1>12,
         <1>13, <1>14, <1>15, <1>16 DEF Next, LeaderNext, WorkerNext, vars, Attach,
         Connect, PublishReady, NotifyLeader, Setup, CheckShutdown, WaitTask, Exit,
         ReportError, WriteMessage, RequestShutdown, TellLeader, StartWorker,
         ReapWorker, WaitTaskTimeout, Die

\* Every step keeps the types.
LEMMA TypeStep ==
    ASSUME StartupAssumption, Types, [Next]_vars
    PROVE  Types'
<1> USE DEF Types
<1>1. leader' \in LeaderRecords
    BY LeaderTypes
<1>2. CASE RegisterDynamicBackgroundWorker
    <2>1. status' = [status EXCEPT ![leader.at] = "not_yet_started"] \/ status' = status
        BY <1>2 DEF RegisterDynamicBackgroundWorker, Current
    <2>2. status' \in [Workers -> {"unregistered", "not_yet_started", "started", "stopped"}]
        BY <2>1
    <2>3. faults' \in 0 .. MaxFaults
        BY <1>2, FaultEffect DEF RegisterDynamicBackgroundWorker
    <2> QED
        BY <1>1, <1>2, <2>2, <2>3 DEF RegisterDynamicBackgroundWorker
<1>3. CASE WaitForStartup
    BY <1>1, <1>3 DEF WaitForStartup
<1>4. CASE ReadReady
    BY <1>1, <1>4 DEF ReadReady
<1>5. CASE Poll
    BY <1>1, <1>5 DEF Poll
<1>6. CASE RecheckReady
    BY <1>1, <1>6 DEF RecheckReady
<1>7. CASE WaitReady
    BY <1>1, <1>7 DEF WaitReady
<1>8. CASE FindProc
    BY <1>1, <1>8 DEF FindProc
<1>9. CASE RegisterWorkerPids
    BY <1>1, <1>9 DEF RegisterWorkerPids
<1>10. CASE SignalShutdown
    BY <1>1, <1>10 DEF SignalShutdown, ControlRecords
<1>11. CASE WakeStartedWorkers
    BY <1>1, <1>11 DEF WakeStartedWorkers
<1>12. CASE Terminate
    BY <1>1, <1>12, TerminateEffect DEF Terminate
<1>13. CASE Join
    BY <1>1, <1>13 DEF Join
<1>14. CASE Raise
    BY <1>1, <1>14 DEF Raise
<1>15. CASE WaitReadyTimeout
    BY <1>1, <1>15 DEF WaitReadyTimeout
<1>16. CASE Cancel
    BY <1>1, <1>16 DEF Cancel, Fault
<1>17. ASSUME NEW v \in Workers, Attach(v) PROVE Types'
    <2>1. CASE segment' = segment \cup {v} /\ MoveTo(v, "connect")
               /\ UNCHANGED <<in_proc_array, faults>>
        BY <1>1, <1>17, <2>1, MoveEffect DEF Attach, WorkerPoints
    <2>2. CASE ProcExit(v, FALSE)
        <3>1. faults' \in 0 .. MaxFaults
            BY <1>17, FaultEffect DEF Attach
        <3> QED
            BY <1>1, <1>17, <2>2, <3>1, ExitEffect DEF Attach
    <2> QED
        BY <1>17, <2>1, <2>2 DEF Attach
<1>18. ASSUME NEW v \in Workers, Connect(v) PROVE Types'
    BY <1>1, <1>18, MoveEffect DEF Connect, Fault, WorkerPoints
<1>19. ASSUME NEW v \in Workers, PublishReady(v) PROVE Types'
    BY <1>1, <1>19, MoveEffect DEF PublishReady, WorkerPoints
<1>20. ASSUME NEW v \in Workers, NotifyLeader(v) PROVE Types'
    BY <1>1, <1>20, MoveEffect DEF NotifyLeader, WorkerPoints
<1>21. ASSUME NEW v \in Workers, Setup(v) PROVE Types'
    BY <1>1, <1>21, MoveEffect DEF Setup, Fault, WorkerPoints
<1>22. ASSUME NEW v \in Workers, CheckShutdown(v) PROVE Types'
    BY <1>1, <1>22, MoveEffect DEF CheckShutdown, WorkerPoints
<1>23. ASSUME NEW v \in Workers, WaitTask(v) PROVE Types'
    BY <1>1, <1>23, MoveEffect DEF WaitTask, WorkerPoints
<1>24. ASSUME NEW v \in Workers, Exit(v) PROVE Types'
    BY <1>1, <1>24, ExitEffect DEF Exit, ProcExit
<1>25. ASSUME NEW v \in Workers, ReportError(v) PROVE Types'
    BY <1>1, <1>25, ReportEffect DEF ReportError
<1>26. ASSUME NEW v \in Workers, WriteMessage(v) PROVE Types'
    BY <1>1, <1>26, MoveEffect DEF WriteMessage, WorkerPoints, ControlRecords
<1>27. ASSUME NEW v \in Workers, RequestShutdown(v) PROVE Types'
    BY <1>1, <1>27, MoveEffect DEF RequestShutdown, WorkerPoints, ControlRecords
<1>28. ASSUME NEW v \in Workers, TellLeader(v) PROVE Types'
    BY <1>1, <1>28, MoveEffect DEF TellLeader, WorkerPoints
<1>29. ASSUME NEW v \in Workers, StartWorker(v) PROVE Types'
    BY <1>1, <1>29, MoveEffect DEF StartWorker, WorkerPoints
<1>30. ASSUME NEW v \in Workers, ReapWorker(v) PROVE Types'
    BY <1>1, <1>30 DEF ReapWorker
<1>31. ASSUME NEW v \in Workers, WaitTaskTimeout(v) PROVE Types'
    BY <1>1, <1>31, MoveEffect DEF WaitTaskTimeout, WorkerPoints
<1>32. ASSUME NEW v \in Workers, Die(v) PROVE Types'
    <2>1. faults' \in 0 .. MaxFaults
        BY <1>32, FaultEffect DEF Die
    <2>2. ProcExit(v, TRUE)
        BY <1>32 DEF Die
    <2> QED
        BY <1>1, <1>32, <2>1, <2>2, ExitEffect DEF Die
<1>33. CASE UNCHANGED vars
    BY <1>33 DEF vars
<1> QED
    BY <1>2, <1>3, <1>4, <1>5, <1>6, <1>7, <1>8, <1>9, <1>10, <1>11, <1>12, <1>13,
         <1>14, <1>15, <1>16, <1>17, <1>18, <1>19, <1>20, <1>21, <1>22, <1>23, <1>24,
         <1>25, <1>26, <1>27, <1>28, <1>29, <1>30, <1>31, <1>32, <1>33 DEF Next,
         LeaderNext, WorkerNext

\* The steps that move the leader.
LeaderMoves == LeaderNext \/ WaitReadyTimeout \/ Cancel

\* No other step does.
LEMMA OnlyTheLeader ==
    ASSUME [Next]_vars, ~LeaderMoves
    PROVE  leader' = leader
<1>1. ASSUME NEW w \in Workers, WorkerNext(w) PROVE leader' = leader
    BY <1>1 DEF WorkerNext, Attach, Connect, PublishReady, NotifyLeader, Setup,
         CheckShutdown, WaitTask, Exit, ReportError, WriteMessage, RequestShutdown,
         TellLeader
<1>2. ASSUME NEW w \in Workers,
             StartWorker(w) \/ ReapWorker(w) \/ WaitTaskTimeout(w) \/ Die(w)
      PROVE  leader' = leader
    BY <1>2 DEF StartWorker, ReapWorker, WaitTaskTimeout, Die
<1> QED
    BY <1>1, <1>2 DEF Next, LeaderMoves, vars

\* Every step keeps what holds of the leader.
LEMMA LeaderStep ==
    ASSUME StartupAssumption, Types, \A u \in Workers : WorkerInv(u), LeaderPassed,
           [Next]_vars
    PROVE  LeaderPassed'
<1> USE DEF Types
<1>1. \A w \in Workers :
          /\ Past(w) => Past(w)'
          /\ ready[w] = 1 => ready'[w] = 1
          /\ status[w] = "unregistered" /\ leader' = leader
             => status'[w] = "unregistered"
    BY WorkerKeeps DEF Keeps
<1>2. /\ leader.at \in Workers /\ leader'.at \in Workers
      /\ \A w \in Workers : w \in Int /\ 0 <= w /\ w < NumWorkers
    <2>1. leader.at \in Workers
        BY DEF LeaderRecords
    <2>2. leader'.at \in Workers
        BY LeaderTypes DEF LeaderRecords
    <2> QED
        BY <2>1, <2>2, StartupAssumption DEF Workers, StartupAssumption
<1>3. \A w \in Workers : ready[w] = 1 => Past(w)
    BY DEF WorkerInv, ReadyIsPast
<1>4. CASE leader' = leader
    BY <1>1, <1>2, <1>4 DEF LeaderPassed, LeaderAt
<1>5. CASE leader'.pc \in {"running"} /\ RegisterWorkerPids
    BY <1>1, <1>5 DEF LeaderPassed, LeaderAt, RegisterWorkerPids
<1>6. CASE leader'.pc \in {"signal", "wake", "grace", "join", "failed", "raised"}
    BY <1>6 DEF LeaderPassed, LeaderAt
<1>7. CASE /\ leader.pc \in {"startup", "ready", "poll", "recheck", "wait"}
           /\ leader'.pc \in {"startup", "ready", "poll", "recheck", "wait", "proc"}
           /\ leader'.at = leader.at
           /\ leader'.pc = "proc" => ready'[leader.at] = 1
    BY <1>1, <1>2, <1>7 DEF LeaderPassed, LeaderAt
<1>8. CASE RegisterDynamicBackgroundWorker /\ NextWorker("register", "startup")
    <2>1. \A w \in Workers : w >= leader.at => status[w] = "unregistered"
        BY <1>8 DEF RegisterDynamicBackgroundWorker, LeaderPassed
    <2>2. \A w \in Workers : w # leader.at => status'[w] = status[w]
        BY <1>8 DEF RegisterDynamicBackgroundWorker, Current
    <2>3. CASE leader.at + 1 < NumWorkers
        <3>1. leader'.pc = "register" /\ leader'.at = leader.at + 1
            BY <1>8, <2>3 DEF NextWorker, Current, LeaderRecords
        <3> QED
            BY <1>2, <2>1, <2>2, <3>1 DEF LeaderPassed, LeaderAt
    <2>4. CASE ~(leader.at + 1 < NumWorkers)
        <3>1. leader'.pc = "startup" /\ leader'.at = 0
            BY <1>8, <2>4 DEF NextWorker, Current, LeaderRecords
        <3> QED
            BY <1>2, <3>1 DEF LeaderPassed, LeaderAt
    <2> QED
        BY <2>3, <2>4
<1>9. CASE FindProc /\ NextWorker("startup", "enlist")
    <2>1. ASSUME NEW w \in Workers, w <= leader.at PROVE Past(w)
        <3>1. leader.pc = "proc"
            BY <1>9 DEF FindProc, LeaderAt
        <3>2. CASE w < leader.at
            BY <3>1, <3>2 DEF LeaderPassed
        <3>3. CASE w = leader.at
            BY <1>3, <3>1, <3>3 DEF LeaderPassed, LeaderAt
        <3> QED
            BY <1>2, <2>1, <3>2, <3>3
    <2>2. CASE leader.at + 1 < NumWorkers
        <3>1. leader'.pc = "startup" /\ leader'.at = leader.at + 1
            BY <1>9, <2>2 DEF NextWorker, Current, LeaderRecords
        <3> QED
            BY <1>1, <1>2, <2>1, <3>1 DEF LeaderPassed, LeaderAt
    <2>3. CASE ~(leader.at + 1 < NumWorkers)
        <3>1. leader'.pc = "enlist"
            BY <1>9, <2>3 DEF NextWorker, Current, LeaderRecords
        <3>2. \A w \in Workers : w <= leader.at
            BY <1>2, <2>3, StartupAssumption
        <3> QED
            BY <1>1, <2>1, <3>1, <3>2 DEF LeaderPassed, LeaderAt
    <2> QED
        BY <2>2, <2>3
<1>10. CASE RegisterDynamicBackgroundWorker
    <2>1. ASSUME FailEarly("no slot") PROVE LeaderPassed'
        BY <1>6, <2>1 DEF FailEarly, LeaderRecords
    <2> QED
        BY <1>8, <1>10, <2>1 DEF RegisterDynamicBackgroundWorker
<1>11. CASE FindProc
    <2>1. ASSUME FailEarly("no proc") PROVE LeaderPassed'
        BY <1>6, <2>1 DEF FailEarly, LeaderRecords
    <2> QED
        BY <1>9, <1>11, <2>1 DEF FindProc
<1>12. CASE WaitForStartup
    <2>1. CASE leader' = [leader EXCEPT !.pc = "ready"]
        <3>1. leader.pc = "startup" /\ leader'.pc = "ready" /\ leader'.at = leader.at
            BY <1>12, <2>1 DEF WaitForStartup, LeaderAt, LeaderRecords
        <3> QED
            BY <1>7, <3>1
    <2>2. CASE FailEarly("exited before startup")
        BY <1>6, <2>2 DEF FailEarly, LeaderRecords
    <2>3. CASE UNCHANGED leader
        BY <1>4, <2>3
    <2> QED
        BY <1>12, <2>1, <2>2, <2>3 DEF WaitForStartup
<1>13. CASE ReadReady
    <2>1. leader.pc = "ready" /\ leader'.pc \in {"poll", "proc"} /\ leader'.at = leader.at
        BY <1>13 DEF ReadReady, LeaderAt, LeaderRecords
    <2>2. leader'.pc = "proc" => ready'[leader.at] = 1
        <3>1. ready[leader.at] \in 0 .. 1
            BY <1>2
        <3>2. ready[leader.at] = 0 => leader'.pc # "proc"
            BY <1>13 DEF ReadReady, Current, LeaderRecords
        <3> QED
            BY <1>13, <3>1, <3>2 DEF ReadReady
    <2> QED
        BY <1>7, <2>2, <2>1
<1>14. CASE RecheckReady
    <2>1. leader.pc = "recheck" /\ leader'.pc \in {"wait", "proc"} /\ leader'.at = leader.at
        BY <1>14 DEF RecheckReady, LeaderAt, LeaderRecords
    <2>2. leader'.pc = "proc" => ready'[leader.at] = 1
        <3>1. ready[leader.at] \in 0 .. 1
            BY <1>2
        <3>2. ready[leader.at] = 0 => leader'.pc # "proc"
            BY <1>14 DEF RecheckReady, Current, LeaderRecords
        <3> QED
            BY <1>14, <3>1, <3>2 DEF RecheckReady
    <2> QED
        BY <1>7, <2>2, <2>1
<1>15. CASE Poll
    <2>1. CASE leader' = [leader EXCEPT !.pc = "recheck"]
        <3>1. leader.pc = "poll" /\ leader'.pc = "recheck" /\ leader'.at = leader.at
            BY <1>15, <2>1 DEF Poll, LeaderAt, LeaderRecords
        <3> QED
            BY <1>7, <3>1
    <2>2. ASSUME NEW reason, FailEarly(reason) PROVE LeaderPassed'
        BY <1>6, <2>2 DEF FailEarly, LeaderRecords
    <2> QED
        BY <1>15, <2>1, <2>2 DEF Poll
<1>16. CASE WaitReady
    <2>1. leader.pc = "wait" /\ leader'.pc \in {"ready"} /\ leader'.at = leader.at
        BY <1>16 DEF WaitReady, LeaderAt, LeaderRecords
    <2> QED
        BY <1>7, <2>1
<1>17. CASE WaitReadyTimeout
    <2>1. leader.pc = "wait" /\ leader'.pc \in {"ready"} /\ leader'.at = leader.at
        BY <1>17 DEF WaitReadyTimeout, LeaderAt, LeaderRecords
    <2> QED
        BY <1>7, <2>1
<1>18. CASE RegisterWorkerPids
    BY <1>5, <1>18 DEF RegisterWorkerPids, LeaderRecords
<1>19. CASE SignalShutdown \/ WakeStartedWorkers \/ Terminate \/ Join \/ Raise \/ Cancel
    BY <1>6, <1>19 DEF SignalShutdown, WakeStartedWorkers, Terminate, Join, Raise, Cancel,
         LeaderRecords
<1> QED
    BY <1>4, <1>10, <1>11, <1>12, <1>13, <1>14, <1>15, <1>16, <1>17, <1>18, <1>19,
       OnlyTheLeader DEF LeaderNext, LeaderMoves

\* A leader that has failed is past the join, and what it has joined stays.
LEMMA FailureStep ==
    ASSUME StartupAssumption, Types, \A u \in Workers : WorkerInv(u), LeaderPassed,
           FailureLeavesNoWorker, [Next]_vars
    PROVE  FailureLeavesNoWorker'
<1> DEFINE Over(w) == status[w] \in {"unregistered", "stopped"}
<1>1. ASSUME NEW w \in Workers, Over(w)' PROVE (Over(w) /\ w \notin segment)'
    <2>1. WorkerInv(w)'
        BY WorkerStep
    <2> QED
        BY <1>1, <2>1 DEF WorkerInv, StatusMatches, Mapped
<1>2. CASE leader' = leader
    <2>1. ASSUME leader.pc \in {"failed", "raised"}, NEW w \in Workers PROVE Over(w)'
        <3>1. Over(w)
            BY <2>1 DEF FailureLeavesNoWorker
        <3> QED
            BY <1>2, <3>1, WorkerKeeps DEF Keeps
    <2> QED
        BY <1>1, <1>2, <2>1 DEF FailureLeavesNoWorker
<1>3. CASE Join
    <2>1. ASSUME NEW w \in Workers PROVE Over(w)'
        BY <1>3 DEF Join
    <2> QED
        BY <1>1, <2>1 DEF FailureLeavesNoWorker
<1>4. CASE Raise
    <2>1. ASSUME NEW w \in Workers PROVE Over(w)'
        BY <1>4 DEF Raise, LeaderAt, FailureLeavesNoWorker
    <2> QED
        BY <1>1, <2>1 DEF FailureLeavesNoWorker
<1>5. CASE leader'.pc \notin {"failed", "raised"}
    BY <1>5 DEF FailureLeavesNoWorker
<1>6. CASE RegisterDynamicBackgroundWorker \/ FindProc
    <2>1. leader \in LeaderRecords
        BY DEF Types
    <2>2. NextWorker("register", "startup") => leader'.pc \in {"register", "startup"}
        BY <2>1, NextWorkerEffect DEF LeaderPoints
    <2>3. NextWorker("startup", "enlist") => leader'.pc \in {"enlist", "startup"}
        BY <2>1, NextWorkerEffect DEF LeaderPoints
    <2>4. ASSUME NEW reason, FailEarly(reason) PROVE leader'.pc = "signal"
        BY <2>1, <2>4 DEF FailEarly, LeaderRecords
    <2>5. leader'.pc \in {"register", "startup", "enlist", "signal"}
        BY <1>6, <2>2, <2>3, <2>4 DEF RegisterDynamicBackgroundWorker, FindProc
    <2> QED
        BY <1>5, <2>5
<1>7. CASE WaitForStartup \/ Poll
    <2>1. leader \in LeaderRecords
        BY DEF Types
    <2>2. ASSUME NEW reason, FailEarly(reason) PROVE leader'.pc = "signal"
        BY <2>1, <2>2 DEF FailEarly, LeaderRecords
    <2>3. leader' = leader \/ leader'.pc \in {"ready", "recheck", "signal"}
        BY <1>7, <2>1, <2>2 DEF WaitForStartup, Poll, LeaderRecords
    <2> QED
        BY <1>2, <1>5, <2>3
<1>8. CASE \/ ReadReady \/ RecheckReady \/ WaitReady \/ WaitReadyTimeout \/ RegisterWorkerPids
           \/ SignalShutdown \/ WakeStartedWorkers \/ Terminate \/ Cancel
    BY <1>5, <1>8 DEF Types, LeaderRecords, ReadReady, RecheckReady, WaitReady,
         WaitReadyTimeout, RegisterWorkerPids, SignalShutdown, WakeStartedWorkers,
         Terminate, Cancel
<1> QED
    BY <1>2, <1>3, <1>4, <1>6, <1>7, <1>8, OnlyTheLeader DEF LeaderNext, LeaderMoves

\* A worker that won keeps the title.
LEMMA WinnersStay ==
    ASSUME Types, [Next]_vars, NEW w \in Workers, worker[w].won
    PROVE  worker'[w].won
<1> USE DEF Types
<1>1. ASSUME NEW v \in Workers, NEW p \in WorkerPoints, MoveTo(v, p) PROVE worker'[w].won
    BY <1>1, MoveEffect DEF Others
<1>2. ASSUME NEW v \in Workers, NEW k \in BOOLEAN, ProcExit(v, k) PROVE worker'[w].won
    BY <1>2, ExitEffect DEF Others
<1>3. ASSUME NEW v \in Workers, ReportError(v) PROVE worker'[w].won
    BY <1>3, ReportEffect DEF Others
<1>4. CASE Terminate
    BY <1>4, TerminateEffect
<1>5. ASSUME NEW v \in Workers, Attach(v) \/ Exit(v) \/ Die(v) PROVE worker'[w].won
    BY <1>1, <1>2, <1>5 DEF Attach, Exit, Die, WorkerPoints
<1>6. ASSUME NEW v \in Workers,
             \/ Connect(v) \/ PublishReady(v) \/ NotifyLeader(v) \/ Setup(v)
             \/ WaitTask(v) \/ WriteMessage(v) \/ RequestShutdown(v) \/ TellLeader(v)
             \/ StartWorker(v) \/ WaitTaskTimeout(v)
      PROVE  worker'[w].won
    BY <1>1, <1>6 DEF Connect, PublishReady, NotifyLeader, Setup, WaitTask, WriteMessage,
         RequestShutdown, TellLeader, StartWorker, WaitTaskTimeout, WorkerPoints
<1>7. ASSUME NEW v \in Workers, CheckShutdown(v) PROVE worker'[w].won
    BY <1>1, <1>7 DEF CheckShutdown, WorkerPoints
<1>8. ASSUME NEW v \in Workers, ReapWorker(v) PROVE worker'[w].won
    BY <1>8 DEF ReapWorker
<1>9. CASE UNCHANGED worker
    BY <1>9
<1> QED
    BY <1>3, <1>4, <1>5, <1>6, <1>7, <1>8, <1>9 DEF Next, LeaderNext, WorkerNext, vars,
       RegisterDynamicBackgroundWorker, WaitForStartup, ReadReady, Poll, RecheckReady,
       WaitReady, FindProc, RegisterWorkerPids, SignalShutdown, WakeStartedWorkers, Join,
       Raise, WaitReadyTimeout, Cancel

\* Only ReportError sets worker_error.
LEMMA ErrorStays ==
    ASSUME Types, [Next]_vars, \A v \in Workers : ~ReportError(v)
    PROVE  control'.worker_error = control.worker_error
<1> control \in ControlRecords
    BY DEF Types
<1>1. CASE SignalShutdown
    BY <1>1 DEF SignalShutdown, ControlRecords
<1>2. ASSUME NEW v \in Workers, WriteMessage(v) \/ RequestShutdown(v)
      PROVE  control'.worker_error = control.worker_error
    BY <1>2 DEF WriteMessage, RequestShutdown, ControlRecords
<1>3. CASE UNCHANGED control
    BY <1>3
<1> QED
    BY <1>1, <1>2, <1>3 DEF Next, LeaderNext, WorkerNext, vars,
       RegisterDynamicBackgroundWorker, WaitForStartup, ReadReady, Poll, RecheckReady,
       WaitReady, FindProc, RegisterWorkerPids, WakeStartedWorkers, Terminate, Join, Raise,
       WaitReadyTimeout, Cancel, Attach, Connect, PublishReady, NotifyLeader, Setup,
       CheckShutdown, WaitTask, Exit, TellLeader, StartWorker, ReapWorker,
       WaitTaskTimeout, Die

\* Every step keeps the author of the error.
LEMMA AuthorStep ==
    ASSUME Types, ErrorHasAuthor, [Next]_vars
    PROVE  ErrorHasAuthor'
<1>1. CASE control.worker_error = 1
    <2>1. PICK w \in Workers : worker[w].won
        BY <1>1 DEF ErrorHasAuthor
    <2> QED
        BY <2>1, WinnersStay DEF ErrorHasAuthor, Workers
<1>2. ASSUME NEW v \in Workers, ReportError(v), control.worker_error # 1
      PROVE  ErrorHasAuthor'
    <2>1. worker'[v].won \/ UNCHANGED control
        BY <1>2, ReportEffect DEF Types
    <2> QED
        BY <1>2, <2>1 DEF ErrorHasAuthor, Workers
<1>3. CASE control.worker_error # 1 /\ \A v \in Workers : ~ReportError(v)
    BY <1>3, ErrorStays DEF ErrorHasAuthor
<1> QED
    BY <1>1, <1>2, <1>3

------------------------------------------------------------------------------
\* Every step keeps the invariant.
LEMMA IInvStep == ASSUME StartupAssumption, IInv, [Next]_vars PROVE IInv'
<1>1. Types
    BY TypesNamed DEF IInv
<1>2. TypeOK'
    <2>1. Types'
        BY <1>1, TypeStep
    <2>2. TypeOK' <=> Types'
        BY DEF TypeOK, Types, LeaderRecords, WorkerRecords, ControlRecords
    <2> QED
        BY <2>1, <2>2
<1>3. \A w \in Workers : WorkerInv(w)'
    BY <1>1, WorkerStep DEF IInv
<1>4. LeaderPassed' /\ FailureLeavesNoWorker' /\ ErrorHasAuthor'
    BY <1>1, LeaderStep, FailureStep, AuthorStep DEF IInv
<1> QED
    BY <1>2, <1>3, <1>4 DEF IInv, Workers

\* The inductive invariant holds in every reachable state.
LEMMA Invariant == Spec => []IInv
<1>1. Init => IInv
    BY StartupAssumption, IInvInit
<1>2. IInv /\ [Next]_vars => IInv'
    BY StartupAssumption, IInvStep
<1> QED
    BY <1>1, <1>2, PTL DEF Spec

\* Every variable keeps its type.
THEOREM TypeCorrect == Spec => []TypeOK
<1>1. IInv => TypeOK
    BY DEF IInv
<1> QED
    BY <1>1, Invariant, PTL

\* The event loop begins only when all workers have attached and connected, for any
\* number of workers and faults.
THEOREM LoopFindsWorkers == Spec => []LoopStartsWithWorkers
<1>1. IInv => LoopStartsWithWorkers
    BY DEF IInv, LeaderPassed, LoopStartsWithWorkers, Past, LeaderAt
<1> QED
    BY <1>1, Invariant, PTL

\* A start-up that failed leaves no worker to come and nobody in the segment.
THEOREM FailureCleansUp == Spec => []FailureLeavesNoWorker
<1>1. IInv => FailureLeavesNoWorker
    BY DEF IInv
<1> QED
    BY <1>1, Invariant, PTL

------------------------------------------------------------------------------
(* Why the leader gives up. *)

\* Only four steps give a reason, each its own.
LEMMA ReasonStep ==
    ASSUME Types, [Next]_vars, leader'.reason # leader.reason
    PROVE  \/ FindProc /\ leader'.reason = "no proc" /\ FailEarly("no proc")
           \/ Poll /\ leader'.reason \in {"message", "exited before ready"}
           \/ leader'.reason \in {"no slot", "exited before startup", "cancel"}
<1> leader \in LeaderRecords
    BY DEF Types
<1>1. ASSUME NEW reason, FailEarly(reason) PROVE leader'.reason = reason
    BY <1>1 DEF FailEarly, LeaderRecords
<1>2. ~(NextWorker("register", "startup") \/ NextWorker("startup", "enlist"))
    BY NextWorkerEffect DEF LeaderPoints
<1>3. CASE RegisterDynamicBackgroundWorker
    BY <1>1, <1>2, <1>3 DEF RegisterDynamicBackgroundWorker
<1>4. CASE FindProc
    BY <1>1, <1>2, <1>4 DEF FindProc
<1>5. CASE WaitForStartup
    BY <1>1, <1>5 DEF WaitForStartup, LeaderRecords
<1>6. CASE Poll
    BY <1>1, <1>6 DEF Poll, LeaderRecords
<1>7. CASE Cancel
    BY <1>7 DEF Cancel, LeaderRecords
<1>8. CASE \/ ReadReady \/ RecheckReady \/ WaitReady \/ WaitReadyTimeout \/ RegisterWorkerPids
           \/ SignalShutdown \/ WakeStartedWorkers \/ Terminate \/ Join \/ Raise
    BY <1>8 DEF LeaderRecords, ReadReady, RecheckReady, WaitReady, WaitReadyTimeout,
         RegisterWorkerPids, SignalShutdown, WakeStartedWorkers, Terminate, Join, Raise
<1> QED
    BY <1>3, <1>4, <1>5, <1>6, <1>7, <1>8, OnlyTheLeader DEF LeaderNext, LeaderMoves

\* The worker at "proc" has published its ready bit, so that it is connected or gone.
LEMMA FoundStep ==
    ASSUME StartupAssumption, IInv, [Next]_vars,
           leader'.reason = "no proc", leader.reason = "none"
    PROVE  At(Current, "gone")
<1>1. Types
    BY TypesNamed DEF IInv
<1>2. FindProc
    BY <1>1, ReasonStep
<1>3. leader.at \in Workers /\ LeaderAt("proc") /\ leader.at \notin in_proc_array
    <2>1. leader.at \in Workers
        BY <1>1 DEF Types, LeaderRecords
    <2>2. ~NextWorker("startup", "enlist")
        BY <1>1, NextWorkerEffect DEF Types, LeaderPoints
    <2> QED
        BY <1>2, <2>1, <2>2 DEF FindProc, Current
<1>4. ready[leader.at] = 1 /\ WorkerInv(leader.at)
    BY <1>3 DEF IInv, LeaderPassed
<1> QED
    BY <1>3, <1>4 DEF WorkerInv, ReadyIsPast, Past, Connected, At, Current

\* A worker that has published its ready bit is found in the ProcArray, unless it has
\* ended meanwhile.
THEOREM ReadyAreFound == Spec => ReadyWorkersAreFound
<1>1. IInv /\ [Next]_vars =>
          [leader'.reason = "no proc" /\ leader.reason = "none" => At(Current, "gone")]_vars
    BY StartupAssumption, FoundStep
<1> QED
    BY <1>1, Invariant, PTL DEF ReadyWorkersAreFound, Spec

\* The worker that won has written its text, unless it is about to or was killed: when
\* there is no text, the author of an error is one of these.
LEMMA GuessStep ==
    ASSUME StartupAssumption, IInv, [Next]_vars,
           leader'.reason = "exited before ready", leader.reason = "none",
           control.worker_error = 1
    PROVE  \E v \in Workers : worker[v].won /\ (At(v, "message") \/ worker[v].killed)
<1>1. Types
    BY TypesNamed DEF IInv
<1>2. Poll
    BY <1>1, ReasonStep
<1>3. ~control.message
    <2>1. leader \in LeaderRecords
        BY <1>1 DEF Types
    <2>2. ASSUME NEW reason, FailEarly(reason) PROVE leader'.reason = reason
        BY <2>1, <2>2 DEF FailEarly, LeaderRecords
    <2>3. leader' # [leader EXCEPT !.pc = "recheck"]
        BY <2>1 DEF LeaderRecords
    <2> QED
        BY <1>2, <2>2, <2>3 DEF Poll
<1>4. PICK v \in Workers : worker[v].won
    BY DEF IInv, ErrorHasAuthor
<1>5. ErrorTold(v)
    BY <1>4 DEF IInv, WorkerInv
<1> QED
    BY <1>3, <1>4, <1>5 DEF ErrorTold, At

\* For any number of workers and faults: the leader guesses that a worker exited only
\* where the worker that won worker_error has not written the text of the error.
THEOREM GuessesLackText == Spec => GuessOnlyWithoutText
<1>1. IInv /\ [Next]_vars =>
          [ leader'.reason = "exited before ready" /\ leader.reason = "none"
            => ( control.worker_error = 1
                 => \E v \in Workers :
                       worker[v].won /\ (At(v, "message") \/ worker[v].killed) ) ]_vars
    BY StartupAssumption, GuessStep
<1> QED
    BY <1>1, Invariant, PTL DEF GuessOnlyWithoutText, Spec
=============================================================================

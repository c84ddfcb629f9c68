------------------------ MODULE ConcurrentRunProofs ------------------------
(***************************************************************************)
(* Proofs about ConcurrentRun, for every number of workers and groups.     *)
(***************************************************************************)
EXTENDS ConcurrentRun, TLAPS

\* The variables of a worker step, for the DEF clauses below.
USE DEF workerVars, sharedVars, runtimeVars, busVars, supVars, histVars

---------------------------------------------------------------------------
(* Type correctness *)

\* Walking the worker list stays inside it.
LEMMA WorkerIndex ==
    /\ 1 \in Workers
    /\ \A w \in Workers : w # N => w + 1 \in Workers
  BY ConcurrentRunAssumption DEF Workers

\* The initial state is well typed.
LEMMA TypeInit == Init => TypeOK
<1> SUFFICES ASSUME Init PROVE TypeOK
  OBVIOUS
<1>1. /\ pc \in [Workers -> WorkerPC] /\ tgt \in [Workers -> WorkerState]
      /\ life \in [Workers -> WorkerState] /\ why \in [Workers -> Why]
      /\ sessions \in [Workers -> Sessions] /\ shutdown \in [Workers -> Verdict]
      /\ ret \in [Workers -> {"unwind2", "report", "dead", "after_run"}]
  BY DEF Init, WorkerPC, WorkerState, Why, Sessions, Verdict
<1>2. /\ grp \in [Workers -> Nat \ {0}] /\ completed \in [Workers -> Nat]
      /\ failed \in [Workers -> Nat] /\ current \in [Workers -> Nat]
      /\ begun \in [Workers -> Nat] /\ begunAtStop \in [Workers -> Nat]
  BY DEF Init
<1>3. /\ success \in [Workers -> BOOLEAN] /\ stopReq \in [Workers -> BOOLEAN]
      /\ cancel \in [Workers -> BOOLEAN] /\ storage \in [Workers -> BOOLEAN]
  BY DEF Init
<1>4. spc \in SupPC /\ faulted \in {"none", "TRUE", "FALSE"} /\ tripped \in BOOLEAN
  BY DEF Init, SupPC
<1>6. nxt \in Workers
  BY WorkerIndex DEF Init
<1>7. reports \in Seq(Report)
  BY DEF Init
<1>5. origin \in Report \cup {NoReport} /\ reason \in Report \cup {NoReport}
  BY DEF Init
<1> QED
  BY <1>1, <1>2, <1>3, <1>4, <1>5, <1>6, <1>7 DEF TypeOK

\* No step of a worker thread leaves the types.
LEMMA TypeWorker ==
    ASSUME TypeOK, NEW w \in Workers, WorkerStep(w) \/ OperatorAcknowledges(w)
    PROVE  TypeOK'
<1> USE DEF TypeOK
<1>1. CASE ConnectSucceeds(w)
  BY <1>1 DEF ConnectSucceeds, Goto, WorkerPC, Sessions
<1>2. CASE ConnectFails(w)
  BY <1>2 DEF ConnectFails, Goto, WorkerPC, Why
<1>3. CASE StorageFailsToOpen(w)
  BY <1>3 DEF StorageFailsToOpen, Goto, WorkerPC, Sessions
<1>4. CASE DisconnectAllVerified(w)
  BY <1>4 DEF DisconnectAllVerified, AfterDisconnectAll, WorkerPC, Sessions, Why
<1>5. CASE DisconnectAllUnverified(w)
  BY <1>5 DEF DisconnectAllUnverified, AfterDisconnectAll, WorkerPC, Sessions, Why
<1>6. CASE Enter(w)
  BY <1>6 DEF Enter, Goto, WorkerPC, WorkerState
<1>7. CASE Loop(w)
  BY <1>7 DEF Loop, Goto, WorkerPC, WorkerState
<1>8. CASE TransitionCheck(w)
  BY <1>8 DEF TransitionCheck, Goto, WorkerPC
<1>9. CASE TransitionAssign(w)
  <2>1. pc' \in [Workers -> WorkerPC]
    BY <1>9 DEF TransitionAssign, Goto, AfterTransition, WorkerPC
  <2>2. tgt' \in [Workers -> WorkerState] /\ life' \in [Workers -> WorkerState]
    BY <1>9 DEF TransitionAssign, NextTarget, WorkerState
  <2>3. grp' \in [Workers -> Nat \ {0}]
    <3>1. grp \in [Workers -> Nat \ {0}]
      BY DEF TypeOK
    <3>2. grp[w] + 1 \in Nat \ {0}
      BY <3>1
    <3> QED
      BY <1>9, <3>1, <3>2 DEF TransitionAssign
  <2>5. begun' \in [Workers -> Nat]
    <3>1. begun \in [Workers -> Nat] /\ begun[w] + 1 \in Nat
      BY DEF TypeOK
    <3> QED
      BY <1>9, <3>1 DEF TransitionAssign
  <2>4. current' \in [Workers -> Nat]
    BY <1>9 DEF TransitionAssign
  <2> QED
    BY <1>9, <2>1, <2>2, <2>3, <2>4, <2>5 DEF TransitionAssign
<1>10. CASE RunGroupReturns(w)
  BY <1>10 DEF RunGroupReturns, Goto, WorkerPC
<1>11. CASE RunGroupFails(w)
  BY <1>11 DEF RunGroupFails, Goto, WorkerPC
<1>12. CASE RunGroupBlocks(w)
  BY <1>12 DEF RunGroupBlocks, Goto, WorkerPC
<1>13. CASE AfterRun(w)
  <2>1. pc' \in [Workers -> WorkerPC]
    <3>1. \E p \in {"finish", "check"} : pc' = [pc EXCEPT ![w] = p]
      BY <1>13 DEF AfterRun
    <3> QED
      BY <3>1 DEF WorkerPC
  <2>4. tgt' \in [Workers -> WorkerState]
    <3>1. tgt' = tgt \/ \E t \in {"COMPLETED", "FAILED"} : tgt' = [tgt EXCEPT ![w] = t]
      BY <1>13 DEF AfterRun
    <3> QED
      BY <3>1 DEF WorkerState
  <2>2. completed' \in [Workers -> Nat]
    <3>1. completed \in [Workers -> Nat] /\ completed[w] + 1 \in Nat
      BY DEF TypeOK
    <3> QED
      BY <1>13, <3>1 DEF AfterRun
  <2>3. failed' \in [Workers -> Nat]
    <3>1. failed \in [Workers -> Nat] /\ grp[w] \in Nat
      BY DEF TypeOK
    <3> QED
      BY <1>13, <3>1 DEF AfterRun
  <2> QED
    BY <1>13, <2>1, <2>2, <2>3, <2>4 DEF AfterRun
<1>14. CASE Finish(w)
  BY <1>14 DEF Finish, Goto, WorkerPC, WorkerState
<1>15. CASE Status(w)
  BY <1>15 DEF Status, Goto, WorkerPC, Why
<1>16. CASE Escaped(w)
  BY <1>16 DEF Escaped, Goto, WorkerPC, Why
<1>17. CASE ReportRecord(w)
  <2> DEFINE record == [worker |-> w, why |-> why[w]]
  <2>1. record \in Report
    BY DEF Report
  <2>2. reports' = Append(reports, record) /\ origin' \in {origin, record}
    BY <1>17 DEF ReportRecord
  <2>3. reports' \in Seq(Report) /\ origin' \in Report \cup {NoReport}
    <3> HIDE DEF record
    <3> QED BY <2>1, <2>2
  <2> QED
    BY <1>17, <2>3 DEF ReportRecord, Goto, WorkerPC
<1>18. CASE ReportSetEvent(w)
  BY <1>18 DEF ReportSetEvent, Goto, WorkerPC
<1>19. CASE StorageCloses(w)
  BY <1>19 DEF StorageCloses, Goto, WorkerPC
<1>20. CASE StorageCloseFails(w)
  BY <1>20 DEF StorageCloseFails, Goto, WorkerPC, Why
<1>21. CASE OperatorAcknowledges(w)
  BY <1>21 DEF OperatorAcknowledges, Goto, WorkerPC
<1> QED
  BY <1>1, <1>2, <1>3, <1>4, <1>5, <1>6, <1>7, <1>8, <1>9, <1>10, <1>11,
     <1>12, <1>13, <1>14, <1>15, <1>16, <1>17, <1>18, <1>19, <1>20, <1>21
     DEF WorkerStep

\* No step of the supervisor thread leaves the types.
LEMMA TypeSupervisor ==
    ASSUME TypeOK, SupervisorStep
    PROVE  TypeOK'
<1> USE WorkerIndex DEF TypeOK
<1>1. CASE StartWorker
  BY <1>1 DEF StartWorker, WorkerPC, SupPC
<1>2. CASE WaitTripped
  BY <1>2 DEF WaitTripped, SupPC
<1>3. CASE WaitTimesOut
  BY <1>3 DEF WaitTimesOut, SupPC
<1>4. CASE Poll
  BY <1>4 DEF Poll, SupPC
<1>5. CASE ReadOrigin
  BY <1>5 DEF ReadOrigin, SupPC
<1>6. CASE RequestCancel
  BY <1>6 DEF RequestCancel, SupPC
<1>7. CASE StopSetsFlag
  BY <1>7 DEF StopSetsFlag, SupPC
<1>8. CASE StopReadsState
  BY <1>8 DEF StopReadsState, NextWorker, SupPC
<1>9. CASE StopChecks
  BY <1>9 DEF StopChecks, NextWorker, SupPC
<1>10. CASE StopAssigns
  BY <1>10 DEF StopAssigns, NextWorker, SupPC, WorkerState
<1>11. CASE JoinFinished
  BY <1>11 DEF JoinFinished, RecordVerdict, SupPC, Verdict
<1>12. CASE JoinTimesOut
  BY <1>12 DEF JoinTimesOut, RecordVerdict, SupPC, Verdict
<1> QED
  BY <1>1, <1>2, <1>3, <1>4, <1>5, <1>6, <1>7, <1>8, <1>9, <1>10, <1>11,
     <1>12 DEF SupervisorStep

\* No step of any thread leaves the types: in particular the supervisor never
\* indexes past the worker list (concurrent_supervisor.py, run(); trigger()).
THEOREM TypeCorrect == Spec => []TypeOK
<1>1. Init => TypeOK
  BY TypeInit
<1>2. TypeOK /\ [Next]_vars => TypeOK'
  <2> SUFFICES ASSUME TypeOK, [Next]_vars PROVE TypeOK'
    OBVIOUS
  <2>1. CASE \E w \in Workers : WorkerStep(w) \/ OperatorAcknowledges(w)
    BY <2>1, TypeWorker
  <2>2. CASE SupervisorStep
    BY <2>2, TypeSupervisor
  <2>3. CASE UNCHANGED vars
    BY <2>3 DEF vars, TypeOK
  <2> QED
    BY <2>1, <2>2, <2>3 DEF Next, Terminated
<1> QED
  BY <1>1, <1>2, PTL DEF Spec

---------------------------------------------------------------------------
(* The stop reason is the first fault reported *)

\* The supervisor is past the wait and has read the origin.
Stopping == {"cancel", "stop_flag", "stop_read", "stop_check", "stop_assign", "join"}

\* What makes StopReasonIsFirstFault inductive: the event is set only after a
\* record exists, the origin is the first record, and run() reads it once.
BusInv ==
    /\ reports = <<>> => origin = NoReport
    /\ reports # <<>> => origin = reports[1] /\ origin # NoReport
    /\ tripped => reports # <<>>
    /\ \A w \in Workers : pc[w] = "set_event" => reports # <<>>
    /\ spc = "origin" => reports # <<>>
    /\ spc \in Stopping \/ faulted = "TRUE" => reports # <<>> /\ reason = reports[1]
    /\ spc = "done" <=> faulted # "none"

\* The bus is consistent at the start.
LEMMA BusInit == Init => BusInv
  BY DEF Init, BusInv, Stopping

\* Only ReportRecord touches the records, and only ReportSetEvent the event.
LEMMA BusWorker ==
    ASSUME TypeOK, BusInv, NEW w \in Workers,
           WorkerStep(w) \/ OperatorAcknowledges(w)
    PROVE  BusInv'
<1>1. CASE ReportRecord(w)
  <2> DEFINE record == [worker |-> w, why |-> why[w]]
  <2>1. record # NoReport
    BY ConcurrentRunAssumption DEF NoReport, Workers
  <2>2. /\ reports' = Append(reports, record)
        /\ origin' = IF origin = NoReport THEN record ELSE origin
        /\ UNCHANGED <<tripped, supVars>>
    BY <1>1 DEF ReportRecord
  <2>3. reports \in Seq(Report) /\ record \in Report
    BY DEF TypeOK, Report
  <2>4. /\ reports' # <<>>
        /\ reports = <<>> => reports'[1] = record
        /\ reports # <<>> => reports'[1] = reports[1]
    <3> HIDE DEF record
    <3> QED BY <2>2, <2>3
  <2>5. origin' = reports'[1] /\ origin' # NoReport
    <3> HIDE DEF record
    <3> QED BY <2>1, <2>2, <2>4 DEF BusInv
  <2> QED
    BY <2>2, <2>4, <2>5 DEF BusInv
<1>2. CASE ReportSetEvent(w)
  BY <1>2 DEF ReportSetEvent, Goto, BusInv, TypeOK
<1>3. ASSUME UNCHANGED <<busVars, supVars>>, pc'[w] # "set_event",
             \A v \in Workers \ {w} : pc'[v] = pc[v]
      PROVE  BusInv'
  BY <1>3 DEF BusInv
<1>4. CASE ~ReportRecord(w) /\ ~ReportSetEvent(w)
  <2>1. UNCHANGED <<busVars, supVars>>
    BY <1>4 DEF WorkerStep, ConnectSucceeds, ConnectFails, StorageFailsToOpen,
       DisconnectAllVerified, DisconnectAllUnverified, Enter, Loop,
       TransitionCheck, TransitionAssign, RunGroupReturns, RunGroupFails,
       RunGroupBlocks, AfterRun, Finish, Status, Escaped, StorageCloses,
       StorageCloseFails, OperatorAcknowledges
  <2>2. pc'[w] # "set_event"
    BY <1>4 DEF WorkerStep, ConnectSucceeds, ConnectFails, StorageFailsToOpen,
       DisconnectAllVerified, DisconnectAllUnverified, Enter, Loop,
       TransitionCheck, TransitionAssign, RunGroupReturns, RunGroupFails,
       RunGroupBlocks, AfterRun, Finish, Status, Escaped, StorageCloses,
       StorageCloseFails, OperatorAcknowledges, Goto, AfterDisconnectAll,
       AfterTransition, TypeOK
  <2>3. \A v \in Workers \ {w} : pc'[v] = pc[v]
    BY <1>4 DEF WorkerStep, ConnectSucceeds, ConnectFails, StorageFailsToOpen,
       DisconnectAllVerified, DisconnectAllUnverified, Enter, Loop,
       TransitionCheck, TransitionAssign, RunGroupReturns, RunGroupFails,
       RunGroupBlocks, AfterRun, Finish, Status, Escaped, StorageCloses,
       StorageCloseFails, OperatorAcknowledges, Goto, TypeOK
  <2> QED
    BY <1>3, <2>1, <2>2, <2>3
<1> QED
  BY <1>1, <1>2, <1>4

\* The supervisor only reads the bus: it takes the first record for its reason.
LEMMA BusSupervisor ==
    ASSUME TypeOK, BusInv, SupervisorStep
    PROVE  BusInv'
<1>1. CASE StartWorker
  BY <1>1 DEF StartWorker, BusInv, Stopping, TypeOK
<1>2. CASE WaitTripped \/ WaitTimesOut \/ Poll
  BY <1>2 DEF WaitTripped, WaitTimesOut, Poll, BusInv, Stopping
<1>3. CASE ReadOrigin
  BY <1>3 DEF ReadOrigin, BusInv, Stopping
<1>4. CASE RequestCancel \/ StopSetsFlag
  BY <1>4 DEF RequestCancel, StopSetsFlag, BusInv, Stopping
<1>5. CASE StopReadsState \/ StopChecks \/ StopAssigns
  BY <1>5 DEF StopReadsState, StopChecks, StopAssigns, NextWorker, BusInv, Stopping
<1>6. CASE JoinFinished \/ JoinTimesOut
  BY <1>6 DEF JoinFinished, JoinTimesOut, RecordVerdict, BusInv, Stopping
<1> QED
  BY <1>1, <1>2, <1>3, <1>4, <1>5, <1>6 DEF SupervisorStep

\* The run is stopped for the first fault that any worker reported, although
\* report() sets the event outside the lock that orders the records.
THEOREM FirstFaultIsTheReason == Spec => []StopReasonIsFirstFault
<1>1. Init => BusInv
  BY BusInit
<1>2. TypeOK /\ BusInv /\ [Next]_vars => BusInv'
  <2> SUFFICES ASSUME TypeOK, BusInv, [Next]_vars PROVE BusInv'
    OBVIOUS
  <2>1. CASE \E w \in Workers : WorkerStep(w) \/ OperatorAcknowledges(w)
    BY <2>1, BusWorker
  <2>2. CASE SupervisorStep
    BY <2>2, BusSupervisor
  <2>3. CASE UNCHANGED vars
    BY <2>3 DEF vars, BusInv
  <2> QED
    BY <2>1, <2>2, <2>3 DEF Next, Terminated
<1>3. TypeOK /\ BusInv => StopReasonIsFirstFault
  BY DEF TypeOK, BusInv, StopReasonIsFirstFault, Stopping, SupPC
<1> QED
  BY <1>1, <1>2, <1>3, TypeCorrect, PTL DEF Spec

---------------------------------------------------------------------------
(* No thread is left alive unnoticed *)

\* A step of worker w moves a thread that is alive and nothing of the
\* supervisor or of another thread's location.
LEMMA WorkerFrame ==
    ASSUME TypeOK, NEW w \in Workers, WorkerStep(w) \/ OperatorAcknowledges(w)
    PROVE  /\ UNCHANGED supVars
           /\ is_alive(w)
           /\ pc'[w] # "new"
           /\ \A v \in Workers \ {w} : pc'[v] = pc[v]
<1>1. UNCHANGED supVars
  BY DEF WorkerStep, ConnectSucceeds, ConnectFails, StorageFailsToOpen,
       DisconnectAllVerified, DisconnectAllUnverified, Enter, Loop,
       TransitionCheck, TransitionAssign, RunGroupReturns, RunGroupFails,
       RunGroupBlocks, AfterRun, Finish, Status, Escaped, ReportRecord,
       ReportSetEvent, StorageCloses, StorageCloseFails, OperatorAcknowledges,
       Goto
<1>2. is_alive(w)
  BY DEF WorkerStep, ConnectSucceeds, ConnectFails, StorageFailsToOpen,
       DisconnectAllVerified, DisconnectAllUnverified, Enter, Loop,
       TransitionCheck, TransitionAssign, RunGroupReturns, RunGroupFails,
       RunGroupBlocks, AfterRun, Finish, Status, Escaped, ReportRecord,
       ReportSetEvent, StorageCloses, StorageCloseFails, OperatorAcknowledges,
       Goto, is_alive
<1>3. pc'[w] # "new"
  BY DEF WorkerStep, ConnectSucceeds, ConnectFails, StorageFailsToOpen,
       DisconnectAllVerified, DisconnectAllUnverified, Enter, Loop,
       TransitionCheck, TransitionAssign, RunGroupReturns, RunGroupFails,
       RunGroupBlocks, AfterRun, Finish, Status, Escaped, ReportRecord,
       ReportSetEvent, StorageCloses, StorageCloseFails, OperatorAcknowledges,
       Goto, AfterDisconnectAll, AfterTransition, TypeOK
<1>4. \A v \in Workers \ {w} : pc'[v] = pc[v]
  BY DEF WorkerStep, ConnectSucceeds, ConnectFails, StorageFailsToOpen,
       DisconnectAllVerified, DisconnectAllUnverified, Enter, Loop,
       TransitionCheck, TransitionAssign, RunGroupReturns, RunGroupFails,
       RunGroupBlocks, AfterRun, Finish, Status, Escaped, ReportRecord,
       ReportSetEvent, StorageCloses, StorageCloseFails, OperatorAcknowledges,
       Goto, TypeOK
<1> QED
  BY <1>1, <1>2, <1>3, <1>4

\* What makes NoThreadLeftUnnoticed inductive: the threads started so far, and
\* the verdicts given so far, are those of the workers before nxt.
ThreadInv ==
    /\ spc = "starting" => \A w \in Workers : w < nxt => pc[w] # "new"
    /\ spc # "starting" => \A w \in Workers : pc[w] # "new"
    /\ spc = "join" => \A w \in Workers :
                          w < nxt /\ is_alive(w) => shutdown[w] = "unverified_safe"
    /\ NoThreadLeftUnnoticed

\* A worker's own steps never bring a thread back that the supervisor has
\* seen end.
LEMMA ThreadWorker ==
    ASSUME TypeOK, ThreadInv, NEW w \in Workers,
           WorkerStep(w) \/ OperatorAcknowledges(w)
    PROVE  ThreadInv'
<1>1. \A v \in Workers : pc[v] # "new" => pc'[v] # "new"
  BY WorkerFrame
<1>2. \A v \in Workers : is_alive(v)' => is_alive(v)
  BY WorkerFrame DEF is_alive
<1> QED
  BY WorkerFrame, <1>1, <1>2 DEF ThreadInv, NoThreadLeftUnnoticed

\* The supervisor leaves its loops only past workers it has accounted for.
LEMMA ThreadSupervisor ==
    ASSUME TypeOK, ThreadInv, SupervisorStep
    PROVE  ThreadInv'
<1> USE DEF ThreadInv, NoThreadLeftUnnoticed
<1>0. N \in Nat /\ nxt \in 1..N /\ Workers = 1..N
  BY ConcurrentRunAssumption DEF TypeOK, Workers
<1>1. CASE StartWorker
  <2>1. pc' = [pc EXCEPT ![nxt] = "connect"] /\ pc \in [Workers -> WorkerPC]
    BY <1>1 DEF StartWorker, TypeOK
  <2>2. \A w \in Workers : pc[w] # "new" \/ w = nxt => pc'[w] # "new"
    BY <2>1
  <2>3. CASE nxt = N
    <3>1. spc' = "waiting" /\ \A w \in Workers : pc'[w] # "new"
      BY <1>0, <1>1, <2>2, <2>3 DEF StartWorker
    <3> QED BY <3>1
  <2>4. CASE nxt # N
    <3>1. spc' = "starting" /\ nxt' = nxt + 1
      BY <1>1, <2>4 DEF StartWorker
    <3>2. \A w \in Workers : w < nxt' => pc'[w] # "new"
      BY <1>0, <1>1, <2>2, <3>1 DEF StartWorker
    <3> QED BY <3>1, <3>2
  <2> QED BY <2>3, <2>4
<1>2. CASE WaitTripped \/ WaitTimesOut \/ ReadOrigin
  BY <1>2 DEF WaitTripped, WaitTimesOut, ReadOrigin, is_alive
<1>3. CASE Poll
  BY <1>3 DEF Poll, is_alive
<1>4. CASE RequestCancel \/ StopSetsFlag
  BY <1>4 DEF RequestCancel, StopSetsFlag, is_alive
<1>5. CASE StopReadsState \/ StopChecks \/ StopAssigns
  BY <1>0, <1>5 DEF StopReadsState, StopChecks, StopAssigns, NextWorker, is_alive
<1>6. CASE JoinFinished \/ JoinTimesOut
  <2>1. UNCHANGED pc /\ spc = "join" /\ spc' \in {"join", "done"}
    BY <1>6 DEF JoinFinished, JoinTimesOut, RecordVerdict
  <2>2. is_alive(nxt) => shutdown'[nxt] = "unverified_safe"
    BY <1>6 DEF JoinFinished, JoinTimesOut, RecordVerdict, TypeOK
  <2>3. \A w \in Workers : w # nxt => shutdown'[w] = shutdown[w]
    BY <1>6 DEF JoinFinished, JoinTimesOut, RecordVerdict, TypeOK
  <2>4. \A w \in Workers : w <= nxt /\ is_alive(w) => shutdown'[w] = "unverified_safe"
    BY <1>0, <2>1, <2>2, <2>3
  <2>5. \/ spc' = "join" /\ nxt' = nxt + 1
        \/ spc' = "done" /\ nxt = N
    BY <1>6 DEF JoinFinished, JoinTimesOut, RecordVerdict
  <2>6. \A w \in Workers : is_alive(w)' <=> is_alive(w)
    BY <2>1 DEF is_alive
  <2> QED
    BY <1>0, <2>1, <2>4, <2>5, <2>6
<1> QED
  BY <1>1, <1>2, <1>3, <1>4, <1>5, <1>6 DEF SupervisorStep

\* run() never returns while a thread is alive without having told the caller
\* that this worker is "unverified_safe" (global_emergency_stop.py, trigger()).
THEOREM LiveThreadsAreAccountedFor == Spec => []NoThreadLeftUnnoticed
<1>1. Init => ThreadInv
  <2> SUFFICES ASSUME Init PROVE ThreadInv
    OBVIOUS
  <2>1. spc = "starting" /\ nxt = 1 /\ \A w \in Workers : w \in Nat /\ ~(w < 1)
    BY ConcurrentRunAssumption DEF Init, Workers
  <2> QED
    BY <2>1 DEF ThreadInv, NoThreadLeftUnnoticed
<1>2. TypeOK /\ ThreadInv /\ [Next]_vars => ThreadInv'
  <2> SUFFICES ASSUME TypeOK, ThreadInv, [Next]_vars PROVE ThreadInv'
    OBVIOUS
  <2>1. CASE \E w \in Workers : WorkerStep(w) \/ OperatorAcknowledges(w)
    BY <2>1, ThreadWorker
  <2>2. CASE SupervisorStep
    BY <2>2, ThreadSupervisor
  <2>3. CASE UNCHANGED vars
    BY <2>3 DEF vars, ThreadInv, NoThreadLeftUnnoticed, is_alive
  <2> QED
    BY <2>1, <2>2, <2>3 DEF Next, Terminated
<1>3. ThreadInv => NoThreadLeftUnnoticed
  BY DEF ThreadInv
<1> QED
  BY <1>1, <1>2, <1>3, TypeCorrect, PTL DEF Spec
---------------------------------------------------------------------------
(* What a worker that has ended owes its supervisor *)

\* A step of worker w touches nothing that belongs to another worker, and
\* nothing of w that only the supervisor writes.
LEMMA OthersFrame ==
    ASSUME TypeOK, NEW w \in Workers, WorkerStep(w) \/ OperatorAcknowledges(w)
    PROVE  /\ UNCHANGED <<cancel, stopReq, begunAtStop, spc, nxt>>
           /\ \A v \in Workers : v # w =>
                /\ pc'[v] = pc[v] /\ tgt'[v] = tgt[v] /\ why'[v] = why[v] /\ ret'[v] = ret[v]
                /\ failed'[v] = failed[v] /\ sessions'[v] = sessions[v] /\ begun'[v] = begun[v]
<1>d. /\ DOMAIN pc = Workers /\ DOMAIN tgt = Workers /\ DOMAIN why = Workers /\ DOMAIN ret = Workers
      /\ DOMAIN failed = Workers /\ DOMAIN sessions = Workers /\ DOMAIN begun = Workers
  BY DEF TypeOK
<1> USE <1>d DEF Goto
<1>1. CASE ConnectSucceeds(w)
  BY <1>1 DEF ConnectSucceeds
<1>2. CASE ConnectFails(w)
  BY <1>2 DEF ConnectFails
<1>3. CASE StorageFailsToOpen(w)
  BY <1>3 DEF StorageFailsToOpen
<1>4. CASE DisconnectAllVerified(w)
  BY <1>4 DEF DisconnectAllVerified
<1>5. CASE DisconnectAllUnverified(w)
  BY <1>5 DEF DisconnectAllUnverified
<1>6. CASE Enter(w)
  BY <1>6 DEF Enter
<1>7. CASE Loop(w)
  BY <1>7 DEF Loop
<1>8. CASE TransitionCheck(w)
  BY <1>8 DEF TransitionCheck
<1>9. CASE TransitionAssign(w)
  BY <1>9 DEF TransitionAssign
<1>10. CASE RunGroupReturns(w)
  BY <1>10 DEF RunGroupReturns
<1>11. CASE RunGroupFails(w)
  BY <1>11 DEF RunGroupFails
<1>12. CASE RunGroupBlocks(w)
  BY <1>12 DEF RunGroupBlocks
<1>13. CASE AfterRun(w)
  BY <1>13 DEF AfterRun
<1>14. CASE Finish(w)
  BY <1>14 DEF Finish
<1>15. CASE Status(w)
  BY <1>15 DEF Status
<1>16. CASE Escaped(w)
  BY <1>16 DEF Escaped
<1>17. CASE ReportRecord(w)
  BY <1>17 DEF ReportRecord
<1>18. CASE ReportSetEvent(w)
  BY <1>18 DEF ReportSetEvent
<1>19. CASE StorageCloses(w)
  BY <1>19 DEF StorageCloses
<1>20. CASE StorageCloseFails(w)
  BY <1>20 DEF StorageCloseFails
<1>21. CASE OperatorAcknowledges(w)
  BY <1>21 DEF OperatorAcknowledges
<1> QED
  BY <1>1, <1>2, <1>3, <1>4, <1>5, <1>6, <1>7, <1>8, <1>9, <1>10, <1>11, <1>12,
     <1>13, <1>14, <1>15, <1>16, <1>17, <1>18, <1>19, <1>20, <1>21 DEF WorkerStep

\* The bus forgets no report.
LEMMA ReportsStay ==
    ASSUME TypeOK, Next, NEW v, NEW kinds, Reported(v, kinds) PROVE Reported(v, kinds)'
<1>1. CASE \E w \in Workers : ReportRecord(w)
  <2>1. PICK w \in Workers : ReportRecord(w)
    BY <1>1
  <2> DEFINE record == [worker |-> w, why |-> why[w]]
  <2>2. record \in Report /\ reports \in Seq(Report) /\ reports' = Append(reports, record)
    BY <2>1 DEF ReportRecord, Report, TypeOK
  <2>3. \A i \in DOMAIN reports : i \in DOMAIN reports' /\ reports'[i] = reports[i]
    <3> HIDE DEF record
    <3> QED BY <2>2
  <2> QED
    BY <2>3 DEF Reported
<1>2. CASE UNCHANGED reports
  BY <1>2 DEF Reported
<1> QED
  BY <1>1, <1>2 DEF Next, SupervisorStep, Terminated, vars, StartWorker, WaitTripped,
     WaitTimesOut, Poll, ReadOrigin, RequestCancel, StopSetsFlag, StopReadsState,
     StopChecks, StopAssigns, JoinFinished, JoinTimesOut, RecordVerdict,
     WorkerStep, ConnectSucceeds, ConnectFails, StorageFailsToOpen,
     DisconnectAllVerified, DisconnectAllUnverified, Enter, Loop,
     TransitionCheck, TransitionAssign, RunGroupReturns, RunGroupFails,
     RunGroupBlocks, AfterRun, Finish, Status, Escaped, ReportSetEvent,
     StorageCloses, StorageCloseFails, OperatorAcknowledges

\* report() leaves the worker's own record on the bus.
LEMMA ReportIsFound ==
    ASSUME TypeOK, NEW w \in Workers, ReportRecord(w), NEW kinds, why[w] \in kinds
    PROVE  Reported(w, kinds)'
<1> DEFINE record == [worker |-> w, why |-> why[w]]
<1>1. record \in Report /\ reports \in Seq(Report) /\ reports' = Append(reports, record)
  BY DEF ReportRecord, Report, TypeOK
<1>2. Len(reports') \in DOMAIN reports' /\ reports'[Len(reports')] = record
  <2> HIDE DEF record
  <2> QED BY <1>1
<1> QED
  BY <1>2 DEF Reported

\* The threads that the supervisor has not started yet are new.
StartInv == spc = "starting" => \A w \in Workers : w >= nxt => pc[w] = "new"

\* A failed group is on its way to the bus, has got there, or its worker was
\* being stopped.
FailureTold(w) == Reported(w, {"group", "exception"}) \/ cancel[w]
FailInv(w) ==
    failed[w] # 0 =>
      \/ FailureTold(w)
      \/ pc[w] \in {"check", "assign"} /\ tgt[w] = "FAILED"
      \/ pc[w] \in {"status", "escaped"}
      \/ pc[w] = "report" /\ why[w] \in {"group", "exception"}

\* Where a worker may be while its sessions are open.
SessionTold(w) == Reported(w, {"disconnect"})
SessionInv(w) ==
    sessions[w] = "open" =>
      /\ pc[w] \notin {"new", "connect", "unwind2"}
      /\ pc[w] = "ack" => ret[w] = "after_run"
      /\ pc[w] = "report" => why[w] # "connect"
      /\ pc[w] = "set_event" => why[w] # "connect" /\ (why[w] = "disconnect" => SessionTold(w))
      /\ pc[w] = "dead" => SessionTold(w)

\* The worker is between the head of its loop and run_group().
Committed(w) ==
    pc[w] \in {"check", "assign"} /\ tgt[w] \in {"DISCOVERED", "READY", "CLAIMING", "RUNNING"}

\* A group begun after stop() was one the worker was committed to.
StopInv(w) ==
    stopReq[w] =>
      \/ begun[w] = begunAtStop[w]
      \/ begun[w] = begunAtStop[w] + 1 /\ ~Committed(w)

\* Every step of a worker keeps its FailInv.
LEMMA FailWorker ==
    ASSUME TypeOK, NEW w \in Workers, FailInv(w), WorkerStep(w) \/ OperatorAcknowledges(w)
    PROVE  FailInv(w)'
<1>0. FailureTold(w) => FailureTold(w)'
  <2>1. Next /\ UNCHANGED cancel
    BY OthersFrame DEF Next
  <2> QED
    BY <2>1, ReportsStay DEF FailureTold
<1> USE <1>0 DEF FailInv, TypeOK, Goto
<1>1. CASE ConnectSucceeds(w)
  BY <1>1 DEF ConnectSucceeds
<1>2. CASE ConnectFails(w)
  BY <1>2 DEF ConnectFails
<1>3. CASE StorageFailsToOpen(w)
  BY <1>3 DEF StorageFailsToOpen
<1>4. CASE DisconnectAllVerified(w)
  BY <1>4 DEF DisconnectAllVerified, AfterDisconnectAll
<1>5. CASE DisconnectAllUnverified(w)
  BY <1>5 DEF DisconnectAllUnverified, AfterDisconnectAll
<1>6. CASE Enter(w)
  BY <1>6 DEF Enter
<1>7. CASE Loop(w)
  BY <1>7 DEF Loop
<1>8. CASE TransitionCheck(w)
  BY <1>8 DEF TransitionCheck
<1>9. CASE TransitionAssign(w)
  BY <1>9 DEF TransitionAssign, AfterTransition
<1>10. CASE RunGroupReturns(w)
  BY <1>10 DEF RunGroupReturns
<1>11. CASE RunGroupFails(w)
  BY <1>11 DEF RunGroupFails
<1>12. CASE RunGroupBlocks(w)
  BY <1>12 DEF RunGroupBlocks
<1>13. CASE AfterRun(w)
  BY <1>13 DEF AfterRun
<1>14. CASE Finish(w)
  BY <1>14 DEF Finish
<1>15. CASE Status(w)
  <2>1. UNCHANGED failed
    BY <1>15 DEF Status
  <2>2. CASE StatusReadsFailure(w)
    BY <1>15, <2>2 DEF Status
  <2>3. CASE ~StatusReadsFailure(w)
    BY <1>15, <2>1, <2>3 DEF StatusReadsFailure, FailureTold
  <2> QED
    BY <2>2, <2>3
<1>16. CASE Escaped(w)
  BY <1>16 DEF Escaped
<1>17. CASE ReportRecord(w)
  <2>1. why[w] \in {"group", "exception"} => FailureTold(w)'
    BY <1>17, ReportIsFound DEF FailureTold
  <2> QED
    BY <1>17, <2>1 DEF ReportRecord
<1>18. CASE ReportSetEvent(w)
  BY <1>18 DEF ReportSetEvent
<1>19. CASE StorageCloses(w)
  BY <1>19 DEF StorageCloses
<1>20. CASE StorageCloseFails(w)
  BY <1>20 DEF StorageCloseFails
<1>21. CASE OperatorAcknowledges(w)
  BY <1>21 DEF OperatorAcknowledges
<1> QED
  BY <1>1, <1>2, <1>3, <1>4, <1>5, <1>6, <1>7, <1>8, <1>9, <1>10, <1>11, <1>12,
     <1>13, <1>14, <1>15, <1>16, <1>17, <1>18, <1>19, <1>20, <1>21 DEF WorkerStep

\* Every step of a worker keeps its SessionInv.
LEMMA SessionWorker ==
    ASSUME TypeOK, NEW w \in Workers, SessionInv(w), WorkerStep(w) \/ OperatorAcknowledges(w)
    PROVE  SessionInv(w)'
<1>0. SessionTold(w) => SessionTold(w)'
  BY ReportsStay DEF SessionTold, Next
<1> USE <1>0 DEF SessionInv, TypeOK, Goto
<1>1. CASE ConnectSucceeds(w)
  BY <1>1 DEF ConnectSucceeds
<1>2. CASE ConnectFails(w)
  BY <1>2 DEF ConnectFails
<1>3. CASE StorageFailsToOpen(w)
  BY <1>3 DEF StorageFailsToOpen
<1>4. CASE DisconnectAllVerified(w)
  BY <1>4 DEF DisconnectAllVerified, AfterDisconnectAll
<1>5. CASE DisconnectAllUnverified(w)
  BY <1>5 DEF DisconnectAllUnverified, AfterDisconnectAll
<1>6. CASE Enter(w)
  BY <1>6 DEF Enter
<1>7. CASE Loop(w)
  BY <1>7 DEF Loop
<1>8. CASE TransitionCheck(w)
  BY <1>8 DEF TransitionCheck
<1>9. CASE TransitionAssign(w)
  BY <1>9 DEF TransitionAssign, AfterTransition
<1>10. CASE RunGroupReturns(w)
  BY <1>10 DEF RunGroupReturns
<1>11. CASE RunGroupFails(w)
  BY <1>11 DEF RunGroupFails
<1>12. CASE RunGroupBlocks(w)
  BY <1>12 DEF RunGroupBlocks
<1>13. CASE AfterRun(w)
  BY <1>13 DEF AfterRun
<1>14. CASE Finish(w)
  BY <1>14 DEF Finish
<1>15. CASE Status(w)
  BY <1>15 DEF Status
<1>16. CASE Escaped(w)
  BY <1>16 DEF Escaped
<1>17. CASE ReportRecord(w)
  <2>1. why[w] = "disconnect" => SessionTold(w)'
    BY <1>17, ReportIsFound DEF SessionTold
  <2> QED
    BY <1>17, <2>1 DEF ReportRecord
<1>18. CASE ReportSetEvent(w)
  BY <1>18 DEF ReportSetEvent
<1>19. CASE StorageCloses(w)
  BY <1>19 DEF StorageCloses
<1>20. CASE StorageCloseFails(w)
  BY <1>20 DEF StorageCloseFails
<1>21. CASE OperatorAcknowledges(w)
  BY <1>21 DEF OperatorAcknowledges
<1> QED
  BY <1>1, <1>2, <1>3, <1>4, <1>5, <1>6, <1>7, <1>8, <1>9, <1>10, <1>11, <1>12,
     <1>13, <1>14, <1>15, <1>16, <1>17, <1>18, <1>19, <1>20, <1>21 DEF WorkerStep

\* Every step of a worker keeps its StopInv.
LEMMA StopWorker ==
    ASSUME TypeOK, NEW w \in Workers, StopInv(w), WorkerStep(w) \/ OperatorAcknowledges(w)
    PROVE  StopInv(w)'
<1> USE OthersFrame DEF StopInv, Committed, TypeOK, Goto
<1>1. CASE ConnectSucceeds(w)
  BY <1>1 DEF ConnectSucceeds
<1>2. CASE ConnectFails(w)
  BY <1>2 DEF ConnectFails
<1>3. CASE StorageFailsToOpen(w)
  BY <1>3 DEF StorageFailsToOpen
<1>4. CASE DisconnectAllVerified(w)
  BY <1>4 DEF DisconnectAllVerified, AfterDisconnectAll
<1>5. CASE DisconnectAllUnverified(w)
  BY <1>5 DEF DisconnectAllUnverified, AfterDisconnectAll
<1>6. CASE Enter(w)
  BY <1>6 DEF Enter, StopRequested
<1>7. CASE Loop(w)
  BY <1>7 DEF Loop, StopRequested
<1>8. CASE TransitionCheck(w)
  BY <1>8 DEF TransitionCheck
<1>9. CASE TransitionAssign(w)
  BY <1>9 DEF TransitionAssign, AfterTransition, NextTarget
<1>10. CASE RunGroupReturns(w)
  BY <1>10 DEF RunGroupReturns
<1>11. CASE RunGroupFails(w)
  BY <1>11 DEF RunGroupFails
<1>12. CASE RunGroupBlocks(w)
  BY <1>12 DEF RunGroupBlocks
<1>13. CASE AfterRun(w)
  BY <1>13 DEF AfterRun, StopRequested
<1>14. CASE Finish(w)
  BY <1>14 DEF Finish, StopRequested
<1>15. CASE Status(w)
  BY <1>15 DEF Status
<1>16. CASE Escaped(w)
  BY <1>16 DEF Escaped
<1>17. CASE ReportRecord(w)
  BY <1>17 DEF ReportRecord
<1>18. CASE ReportSetEvent(w)
  BY <1>18 DEF ReportSetEvent
<1>19. CASE StorageCloses(w)
  BY <1>19 DEF StorageCloses
<1>20. CASE StorageCloseFails(w)
  BY <1>20 DEF StorageCloseFails
<1>21. CASE OperatorAcknowledges(w)
  BY <1>21 DEF OperatorAcknowledges
<1> QED
  BY <1>1, <1>2, <1>3, <1>4, <1>5, <1>6, <1>7, <1>8, <1>9, <1>10, <1>11, <1>12,
     <1>13, <1>14, <1>15, <1>16, <1>17, <1>18, <1>19, <1>20, <1>21 DEF WorkerStep

\* The three together, for every worker.
FateInv == StartInv /\ \A w \in Workers : FailInv(w) /\ SessionInv(w) /\ StopInv(w)

\* A worker's step keeps FateInv, its own part and that of the others.
LEMMA FateWorker ==
    ASSUME TypeOK, FateInv, NEW w \in Workers, WorkerStep(w) \/ OperatorAcknowledges(w)
    PROVE  FateInv'
<1>1. StartInv'
  BY OthersFrame, WorkerFrame DEF StartInv, FateInv, is_alive
<1>2. ASSUME NEW v \in Workers, v # w PROVE FailInv(v)' /\ SessionInv(v)' /\ StopInv(v)'
  <2>1. FailInv(v) /\ SessionInv(v) /\ StopInv(v)
    BY DEF FateInv
  <2>2. \A k : Reported(v, k) => Reported(v, k)'
    BY ReportsStay DEF Next
  <2>3. /\ cancel'[v] = cancel[v] /\ stopReq'[v] = stopReq[v] /\ begunAtStop'[v] = begunAtStop[v]
        /\ pc'[v] = pc[v] /\ tgt'[v] = tgt[v] /\ why'[v] = why[v] /\ ret'[v] = ret[v]
        /\ failed'[v] = failed[v] /\ sessions'[v] = sessions[v] /\ begun'[v] = begun[v]
    BY <1>2, OthersFrame
  <2>4. FailInv(v)'
    BY <2>1, <2>2, <2>3 DEF FailInv, FailureTold
  <2>5. SessionInv(v)'
    BY <2>1, <2>2, <2>3 DEF SessionInv, SessionTold
  <2>6. StopInv(v)'
    BY <2>1, <2>3 DEF StopInv, Committed
  <2> QED
    BY <2>4, <2>5, <2>6
<1>3. FailInv(w)' /\ SessionInv(w)' /\ StopInv(w)'
  BY FailWorker, SessionWorker, StopWorker DEF FateInv
<1> QED
  BY <1>1, <1>2, <1>3 DEF FateInv

\* What a step of the supervisor leaves to the workers: it only starts new
\* threads, sets the two requests and moves the lifecycle.
LEMMA SupervisorFrame ==
    ASSUME TypeOK, SupervisorStep
    PROVE  /\ UNCHANGED <<tgt, why, ret, failed, sessions, reports, begun>>
           /\ \A v \in Workers : cancel[v] => cancel'[v]
           /\ UNCHANGED pc \/ StartWorker
           /\ UNCHANGED <<stopReq, begunAtStop>> \/ StopSetsFlag
<1> USE DEF TypeOK
<1>1. CASE StartWorker
  BY <1>1 DEF StartWorker
<1>2. CASE WaitTripped \/ WaitTimesOut \/ Poll \/ ReadOrigin
  BY <1>2 DEF WaitTripped, WaitTimesOut, Poll, ReadOrigin
<1>3. CASE RequestCancel
  BY <1>3 DEF RequestCancel
<1>4. CASE StopSetsFlag
  BY <1>4 DEF StopSetsFlag
<1>5. CASE StopReadsState \/ StopChecks \/ StopAssigns
  BY <1>5 DEF StopReadsState, StopChecks, StopAssigns
<1>6. CASE JoinFinished \/ JoinTimesOut
  BY <1>6 DEF JoinFinished, JoinTimesOut, RecordVerdict
<1> QED
  BY <1>1, <1>2, <1>3, <1>4, <1>5, <1>6 DEF SupervisorStep

\* The supervisor's steps keep FateInv.
LEMMA FateSupervisor ==
    ASSUME TypeOK, FateInv, SupervisorStep
    PROVE  FateInv'
<1>1. StartInv'
  <2>1. CASE StartWorker
    <3>1. N \in Nat /\ nxt \in 1..N /\ Workers = 1..N /\ pc \in [Workers -> WorkerPC]
      BY ConcurrentRunAssumption DEF TypeOK, Workers
    <3> QED
      BY <2>1, <3>1 DEF StartWorker, StartInv, FateInv
  <2>2. CASE ~StartWorker
    BY <2>2 DEF FateInv, StartInv, SupervisorStep, WaitTripped, WaitTimesOut, Poll, ReadOrigin,
       RequestCancel, StopSetsFlag, StopReadsState, StopChecks, StopAssigns, NextWorker,
       JoinFinished, JoinTimesOut, RecordVerdict
  <2> QED
    BY <2>1, <2>2
<1>2. ASSUME NEW v \in Workers PROVE FailInv(v)' /\ SessionInv(v)' /\ StopInv(v)'
  <2>1. FailInv(v) /\ SessionInv(v) /\ StopInv(v)
    BY DEF FateInv
  <2>2. /\ tgt'[v] = tgt[v] /\ why'[v] = why[v] /\ ret'[v] = ret[v]
        /\ failed'[v] = failed[v] /\ sessions'[v] = sessions[v] /\ begun'[v] = begun[v]
        /\ reports' = reports /\ (cancel[v] => cancel'[v])
    BY SupervisorFrame
  <2>3. pc'[v] = pc[v] \/ (pc[v] = "new" /\ pc'[v] = "connect")
    <3>1. CASE StartWorker
      <4>1. spc = "starting" /\ nxt \in Workers /\ nxt \in Int
        BY <3>1, ConcurrentRunAssumption DEF StartWorker, TypeOK, Workers
      <4>2. pc[nxt] = "new"
        BY <4>1 DEF FateInv, StartInv
      <4> QED
        BY <3>1, <4>2 DEF StartWorker, TypeOK
    <3>2. CASE UNCHANGED pc
      BY <3>2
    <3> QED
      BY <3>1, <3>2, SupervisorFrame
  <2>4. FailInv(v)'
    <3>1. FailureTold(v) => FailureTold(v)'
      BY <2>2 DEF FailureTold, Reported
    <3> QED
      BY <2>1, <2>2, <2>3, <3>1 DEF FailInv
  <2>5. SessionInv(v)'
    <3>1. SessionTold(v) => SessionTold(v)'
      BY <2>2 DEF SessionTold, Reported
    <3> QED
      BY <2>1, <2>2, <2>3, <3>1 DEF SessionInv
  <2>6. StopInv(v)'
    <3>1. CASE UNCHANGED <<stopReq, begunAtStop>>
      BY <2>1, <2>2, <2>3, <3>1 DEF StopInv, Committed
    <3>2. CASE StopSetsFlag
      BY <2>1, <2>2, <2>3, <3>2 DEF StopSetsFlag, StopInv, Committed, TypeOK
    <3> QED
      BY <3>1, <3>2, SupervisorFrame
  <2> QED
    BY <2>4, <2>5, <2>6
<1> QED
  BY <1>1, <1>2 DEF FateInv

\* FateInv holds initially, and every step keeps it.
LEMMA FateInductive ==
    /\ Init => FateInv
    /\ TypeOK /\ FateInv /\ [Next]_vars => FateInv'
<1>1. Init => FateInv
  BY DEF Init, FateInv, StartInv, FailInv, SessionInv, StopInv
<1>2. ASSUME TypeOK, FateInv, [Next]_vars PROVE FateInv'
  <2>1. CASE \E w \in Workers : WorkerStep(w) \/ OperatorAcknowledges(w)
    BY <1>2, <2>1, FateWorker
  <2>2. CASE SupervisorStep
    BY <1>2, <2>2, FateSupervisor
  <2>3. CASE UNCHANGED vars
    BY <1>2, <2>3 DEF vars, FateInv, StartInv, FailInv, FailureTold, SessionInv,
       SessionTold, StopInv, Committed, Reported
  <2> QED
    BY <1>2, <2>1, <2>2, <2>3 DEF Next, Terminated
<1> QED
  BY <1>1, <1>2

\* No group failure disappears: a thread that ended with a failed group told
\* the bus, or was already being stopped (group_worker.py, _run()).
THEOREM FailuresAreReported == Spec => []NoSilentFailure
<1>1. FateInv => NoSilentFailure
  BY DEF FateInv, FailInv, FailureTold, NoSilentFailure
<1> QED
  BY <1>1, FateInductive, TypeCorrect, PTL DEF Spec

\* No thread ends with its sessions open unless the bus was told that
\* disconnect() failed (group_worker.py, the finally of _run()).
THEOREM OpenSessionsAreReported == Spec => []NoSilentSession
<1>1. FateInv => NoSilentSession
  BY DEF FateInv, SessionInv, SessionTold, NoSilentSession
<1> QED
  BY <1>1, FateInductive, TypeCorrect, PTL DEF Spec

\* After stop() a worker begins at most the one group it was already
\* committed to, although start() reads the flag without a lock
\* (supervisor.py, start()).
THEOREM StopAdmitsOneGroup == Spec => []AtMostOneGroupAfterStop
<1>1. TypeOK /\ FateInv => AtMostOneGroupAfterStop
  <2> SUFFICES ASSUME TypeOK, FateInv, NEW w \in Workers, stopReq[w]
               PROVE  begun[w] <= begunAtStop[w] + 1
    BY DEF AtMostOneGroupAfterStop
  <2>1. begun[w] \in Nat /\ begunAtStop[w] \in Nat
    BY DEF TypeOK
  <2> QED
    BY <2>1 DEF FateInv, StopInv
<1> QED
  BY <1>1, FateInductive, TypeCorrect, PTL DEF Spec
============================================================================

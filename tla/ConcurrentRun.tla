--------------------------- MODULE ConcurrentRun ---------------------------
(***************************************************************************)
(* A multi-group run: orchestration/concurrent_supervisor.py starts one    *)
(* thread per GroupWorker (group_worker.py), each of which connects its    *)
(* own GroupRuntime, lets a SequentialSupervisor (supervisor.py) run its   *)
(* groups in order and disconnects; the supervisor's own thread waits on   *)
(* the GlobalFaultBus (fault_bus.py) and, once it trips, asks every worker *)
(* to stop and joins it (global_emergency_stop.py).                        *)
(*                                                                         *)
(* A step of a thread is one access to state another thread can see: the   *)
(* interpreter makes an attribute read or write atomic and nothing larger. *)
(* In particular WorkerLifecycle.transition_to() is a check followed by an *)
(* assignment, and report() sets the event after releasing the lock.       *)
(*                                                                         *)
(* What run_group() does with a battery is abstracted to how it ends; the  *)
(* module GroupRun opens it.                                               *)
(***************************************************************************)
EXTENDS Integers, Sequences

CONSTANTS N,          \* number of GroupWorkers (one per SMU, discover_workers())
          NumGroups   \* NumGroups[w]: length of worker w's worker_plan.groups

Workers == 1..N       \* self._workers, in list order

ASSUME ConcurrentRunAssumption ==
    /\ N \in Nat \ {0}
    /\ NumGroups \in [Workers -> Nat \ {0}]

VARIABLES
  \* each worker thread
  pc,         \* where the thread is
  tgt,        \* the argument of the transition_to() call in progress
  grp,        \* index of the group the for loop is at
  success,    \* run_group's return value (FALSE also for an exception)
  why,        \* what the report() in progress is about
  ret,        \* where display_safety_fault_screen() returns to
  \* shared by a worker and the supervisor thread
  life,       \* WorkerLifecycle.state
  stopReq,    \* SequentialSupervisor._stop_requested
  cancel,     \* CancellationToken._requested
  completed,  \* len(_completed_groups): groups 1..completed are in it
  failed,     \* _failed_group, 0 for None
  current,    \* _current_group, 0 for None
  storage,    \* GroupRuntime.storage is not None
  sessions,   \* the driver sessions HardwareManager holds
  \* GlobalFaultBus
  reports, origin, tripped,
  \* ConcurrentSupervisor.run() and GlobalEmergencyStop.trigger()
  spc,        \* where the supervisor thread is
  nxt,        \* the worker its loop is at
  faulted,    \* ConcurrentRunResult.faulted, "none" before it exists
  reason,     \* ConcurrentRunResult.fault_reason
  shutdown,   \* the dict trigger() builds
  \* history, read by properties only
  begun,      \* groups whose run_group call has begun
  begunAtStop \* value of begun when _stop_requested was set

workerVars == <<pc, tgt, grp, success, why, ret>>
sharedVars == <<life, stopReq, cancel, completed, failed, current>>
runtimeVars == <<storage, sessions>>
busVars == <<reports, origin, tripped>>
supVars == <<spc, nxt, faulted, reason, shutdown>>
histVars == <<begun, begunAtStop>>
vars == <<workerVars, sharedVars, runtimeVars, busVars, supVars, histVars>>

---------------------------------------------------------------------------
(* worker_lifecycle.py *)

WorkerState == {"IDLE", "DISCOVERED", "READY", "CLAIMING", "RUNNING",
                "COMPLETED", "FAILED", "ABORTED"}

ALLOWED_TRANSITIONS ==
    [ s \in WorkerState |->
        CASE s = "IDLE"       -> {"DISCOVERED", "ABORTED"}
          [] s = "DISCOVERED" -> {"READY", "ABORTED"}
          [] s = "READY"      -> {"CLAIMING", "ABORTED"}
          [] s = "CLAIMING"   -> {"RUNNING", "FAILED", "ABORTED"}
          [] s = "RUNNING"    -> {"COMPLETED", "FAILED", "ABORTED"}
          [] OTHER            -> {"IDLE"} ]

is_valid_transition(cur, next) == next \in ALLOWED_TRANSITIONS[cur]

---------------------------------------------------------------------------
(* Locations and records *)

WorkerPC == {"new", "connect", "unwind1", "unwind2", "enter", "loop", "check",
             "assign", "run", "after_run", "finish", "status", "escaped",
             "report", "set_event", "disconnect", "disconnect_all", "ack",
             "dead"}
Why == {"connect", "group", "exception", "disconnect"}
NoReport == [worker |-> 0, why |-> "none"]
Report == [worker : Workers, why : Why]
SupPC == {"starting", "waiting", "polling", "origin", "cancel", "stop_flag",
          "stop_read", "stop_check", "stop_assign", "join", "done"}
Verdict == {"none", "stopped", "unverified_safe"}
Sessions == {"closed", "open", "left_open"}

is_alive(w) == pc[w] \notin {"new", "dead"}

Init ==
    /\ pc = [w \in Workers |-> "new"]
    /\ tgt = [w \in Workers |-> "IDLE"]
    /\ grp = [w \in Workers |-> 1]
    /\ success = [w \in Workers |-> FALSE]
    /\ why = [w \in Workers |-> "group"]
    /\ ret = [w \in Workers |-> "dead"]
    /\ life = [w \in Workers |-> "IDLE"]
    /\ stopReq = [w \in Workers |-> FALSE]
    /\ cancel = [w \in Workers |-> FALSE]
    /\ completed = [w \in Workers |-> 0]
    /\ failed = [w \in Workers |-> 0]
    /\ current = [w \in Workers |-> 0]
    /\ storage = [w \in Workers |-> FALSE]
    /\ sessions = [w \in Workers |-> "closed"]
    /\ reports = <<>>
    /\ origin = NoReport
    /\ tripped = FALSE
    /\ spc = "starting"
    /\ nxt = 1
    /\ faulted = "none"
    /\ reason = NoReport
    /\ shutdown = [w \in Workers |-> "none"]
    /\ begun = [w \in Workers |-> 0]
    /\ begunAtStop = [w \in Workers |-> 0]

---------------------------------------------------------------------------
(* GroupRuntime.connect(), the first thing GroupWorker._run() calls *)

Goto(w, from, to) == pc[w] = from /\ pc' = [pc EXCEPT ![w] = to]

\* connect_all() and open_storage_guarded() succeed.
ConnectSucceeds(w) ==
    /\ Goto(w, "connect", "enter")
    /\ sessions' = [sessions EXCEPT ![w] = "open"]
    /\ storage' = [storage EXCEPT ![w] = TRUE]
    /\ UNCHANGED <<tgt, grp, success, why, ret, sharedVars, busVars, supVars,
                   histVars>>

\* connect_all() raises; it has rolled its own connections back.
ConnectFails(w) ==
    /\ Goto(w, "connect", "report")
    /\ why' = [why EXCEPT ![w] = "connect"]
    /\ UNCHANGED <<tgt, grp, success, ret, sharedVars, runtimeVars, busVars,
                   supVars, histVars>>

\* DataStorage.open() raises: open_storage_guarded() disconnects the hardware
\* and returns None, and connect() disconnects it once more and raises.
StorageFailsToOpen(w) ==
    /\ Goto(w, "connect", "unwind1")
    /\ sessions' = [sessions EXCEPT ![w] = "open"]
    /\ UNCHANGED <<tgt, grp, success, why, ret, sharedVars, storage, busVars,
                   supVars, histVars>>

---------------------------------------------------------------------------
(* HardwareManager.disconnect_all(), called from three places *)

AfterDisconnectAll(p) == CASE p = "unwind1" -> "unwind2"
                           [] p = "unwind2" -> "report"
                           [] OTHER         -> "dead"

\* Every device is verified safe and its session closed; nothing happens for
\* devices an earlier call already closed.
DisconnectAllVerified(w) ==
    /\ pc[w] \in {"unwind1", "unwind2", "disconnect_all"}
    /\ pc' = [pc EXCEPT ![w] = AfterDisconnectAll(pc[w])]
    /\ sessions' = [sessions EXCEPT ![w] = "closed"]
    /\ why' = IF pc[w] = "unwind2" THEN [why EXCEPT ![w] = "connect"] ELSE why
    /\ UNCHANGED <<tgt, grp, success, ret, sharedVars, storage, busVars,
                   supVars, histVars>>

\* The SMU cannot be verified OFF (its session is left open) or open_all()
\* fails (all sessions are closed; a later call finds no relay to open): the
\* thread blocks on the operator's ENTER.
DisconnectAllUnverified(w) ==
    /\ pc[w] \in {"unwind1", "unwind2", "disconnect_all"}
    /\ sessions[w] # "closed"
    /\ pc' = [pc EXCEPT ![w] = "ack"]
    /\ ret' = [ret EXCEPT ![w] = AfterDisconnectAll(pc[w])]
    /\ \/ sessions' = [sessions EXCEPT ![w] = "left_open"]
       \/ sessions[w] = "open" /\ sessions' = [sessions EXCEPT ![w] = "closed"]
    /\ why' = IF pc[w] = "unwind2" THEN [why EXCEPT ![w] = "connect"] ELSE why
    /\ UNCHANGED <<tgt, grp, success, sharedVars, storage, busVars, supVars,
                   histVars>>

\* The operator presses ENTER on the SAFETY FAULT screen this thread shows.
OperatorAcknowledges(w) ==
    /\ Goto(w, "ack", ret[w])
    /\ UNCHANGED <<tgt, grp, success, why, ret, sharedVars, runtimeVars,
                   busVars, supVars, histVars>>

---------------------------------------------------------------------------
(* SequentialSupervisor.start() *)

\* A start() that works with the flag as it was when the thread began.
StopRequestedAtStart(w) == FALSE

\* What start() reads as self._stop_requested, each time it looks.
StopRequested(w) == stopReq[w]

\* `if self._stop_requested` before the loop.
Enter(w) ==
    /\ Goto(w, "enter", IF StopRequested(w) THEN "check" ELSE "loop")
    /\ tgt' = IF StopRequested(w) THEN [tgt EXCEPT ![w] = "ABORTED"] ELSE tgt
    /\ UNCHANGED <<grp, success, why, ret, sharedVars, runtimeVars, busVars,
                   supVars, histVars>>

\* The head of the for loop: no group left, a stop requested, or the next
\* group's four transitions.
Loop(w) ==
    LET leave == grp[w] > NumGroups[w] \/ StopRequested(w)
    IN /\ Goto(w, "loop", IF leave THEN "finish" ELSE "check")
       /\ tgt' = IF leave THEN tgt ELSE [tgt EXCEPT ![w] = "DISCOVERED"]
       /\ UNCHANGED <<grp, success, why, ret, sharedVars, runtimeVars, busVars,
                      supVars, histVars>>

\* transition_to(), first half: validate_transition() raises out of start()
\* or lets the call go on.
TransitionCheck(w) ==
    /\ Goto(w, "check", IF is_valid_transition(life[w], tgt[w])
                        THEN "assign" ELSE "escaped")
    /\ UNCHANGED <<tgt, grp, success, why, ret, sharedVars, runtimeVars,
                   busVars, supVars, histVars>>

\* What start() does once the assignment for a target is made.
AfterTransition(t) == CASE t \in {"DISCOVERED", "READY", "CLAIMING", "COMPLETED"} -> "check"
                        [] t = "RUNNING" -> "run"
                        [] t = "IDLE" -> "loop"
                        [] OTHER -> "status"
NextTarget(t) == CASE t = "DISCOVERED" -> "READY"
                   [] t = "READY" -> "CLAIMING"
                   [] t = "CLAIMING" -> "RUNNING"
                   [] t = "COMPLETED" -> "IDLE"
                   [] OTHER -> t

\* transition_to(), second half, with the assignments to _current_group that
\* stand between it and the next step.
TransitionAssign(w) ==
    LET t == tgt[w]
    IN /\ Goto(w, "assign", AfterTransition(t))
       /\ life' = [life EXCEPT ![w] = t]
       /\ tgt' = [tgt EXCEPT ![w] = NextTarget(t)]
       /\ grp' = IF t = "IDLE" THEN [grp EXCEPT ![w] = @ + 1] ELSE grp
       /\ current' = CASE t = "READY"  -> [current EXCEPT ![w] = grp[w]]
                       [] t = "FAILED" -> [current EXCEPT ![w] = 0]
                       [] OTHER        -> current
       /\ begun' = IF t = "RUNNING" THEN [begun EXCEPT ![w] = @ + 1] ELSE begun
       /\ UNCHANGED <<success, why, ret, stopReq, cancel, completed, failed,
                      runtimeVars, busVars, supVars, begunAtStop>>

\* run_group() returns True: the group completed, or a cancellation ended it
\* at a checkpoint (a CANCELLED position is not a station fault).
RunGroupReturns(w) ==
    /\ Goto(w, "run", "after_run")
    /\ success' = [success EXCEPT ![w] = TRUE]
    /\ UNCHANGED <<tgt, grp, why, ret, sharedVars, runtimeVars, busVars,
                   supVars, histVars>>

\* run_group() returns False (station fault) or raises.
RunGroupFails(w) ==
    /\ Goto(w, "run", "after_run")
    /\ success' = [success EXCEPT ![w] = FALSE]
    /\ UNCHANGED <<tgt, grp, why, ret, sharedVars, runtimeVars, busVars,
                   supVars, histVars>>

\* The sequence cannot verify the SMU output OFF: it blocks on the SAFETY
\* FAULT screen before it raises SMUStateVerificationError.
RunGroupBlocks(w) ==
    /\ Goto(w, "run", "ack")
    /\ ret' = [ret EXCEPT ![w] = "after_run"]
    /\ success' = [success EXCEPT ![w] = FALSE]
    /\ UNCHANGED <<tgt, grp, why, sharedVars, runtimeVars, busVars, supVars,
                   histVars>>

\* After run_group(): a stop request breaks out of the loop, otherwise the
\* result is recorded and the matching transition begins.
AfterRun(w) ==
    /\ pc[w] = "after_run"
    /\ IF StopRequested(w)
       THEN /\ pc' = [pc EXCEPT ![w] = "finish"]
            /\ UNCHANGED <<tgt, completed, failed>>
       ELSE /\ pc' = [pc EXCEPT ![w] = "check"]
            /\ tgt' = [tgt EXCEPT ![w] = IF success[w] THEN "COMPLETED" ELSE "FAILED"]
            /\ completed' = IF success[w] THEN [completed EXCEPT ![w] = @ + 1]
                                          ELSE completed
            /\ failed' = IF success[w] THEN failed ELSE [failed EXCEPT ![w] = grp[w]]
    /\ UNCHANGED <<grp, success, why, ret, life, stopReq, cancel, current,
                   runtimeVars, busVars, supVars, histVars>>

\* After the loop. _stop_requested and the lifecycle state are read one after
\* the other, but only stop() moves the state while the worker is here and it
\* sets the flag first, so one step loses no outcome.
Finish(w) ==
    LET abort == StopRequested(w) /\ life[w] # "ABORTED"
    IN /\ Goto(w, "finish", IF abort THEN "check" ELSE "status")
       /\ current' = [current EXCEPT ![w] = 0]
       /\ tgt' = IF abort THEN [tgt EXCEPT ![w] = "ABORTED"] ELSE tgt
       /\ UNCHANGED <<grp, success, why, ret, life, stopReq, cancel, completed,
                      failed, runtimeVars, busVars, supVars, histVars>>

---------------------------------------------------------------------------
(* The rest of GroupWorker._run(), and GlobalFaultBus.report() *)

\* A worker that never passes a failed group on.
StatusReadsNothing(w) == FALSE

\* start() returned: a failed group is reported unless this worker's own
\* cancellation is under way.
StatusReadsFailure(w) == failed[w] # 0 /\ ~cancel[w]

Status(w) ==
    LET faulty == StatusReadsFailure(w)
    IN /\ Goto(w, "status", IF faulty THEN "report" ELSE "disconnect")
       /\ why' = IF faulty THEN [why EXCEPT ![w] = "group"] ELSE why
       /\ UNCHANGED <<tgt, grp, success, ret, sharedVars, runtimeVars, busVars,
                      supVars, histVars>>

\* start() let an exception escape.
Escaped(w) ==
    /\ Goto(w, "escaped", "report")
    /\ why' = [why EXCEPT ![w] = "exception"]
    /\ UNCHANGED <<tgt, grp, success, ret, sharedVars, runtimeVars, busVars,
                   supVars, histVars>>

\* A report() that lets a later fault replace the origin.
ReportRecordLast(w) ==
    LET record == [worker |-> w, why |-> why[w]]
    IN /\ Goto(w, "report", "set_event")
       /\ reports' = Append(reports, record)
       /\ origin' = record
       /\ UNCHANGED <<tgt, grp, success, why, ret, tripped, sharedVars,
                      runtimeVars, supVars, histVars>>

\* report(), under the lock.
ReportRecord(w) ==
    LET record == [worker |-> w, why |-> why[w]]
    IN /\ Goto(w, "report", "set_event")
       /\ reports' = Append(reports, record)
       /\ origin' = IF origin = NoReport THEN record ELSE origin
       /\ UNCHANGED <<tgt, grp, success, why, ret, tripped, sharedVars,
                      runtimeVars, supVars, histVars>>

\* report(), after the lock: self._tripped.set(). A connect failure and a
\* disconnect failure are the thread's last act.
ReportSetEvent(w) ==
    /\ Goto(w, "set_event", IF why[w] \in {"connect", "disconnect"}
                            THEN "dead" ELSE "disconnect")
    /\ tripped' = TRUE
    /\ UNCHANGED <<tgt, grp, success, why, ret, reports, origin, sharedVars,
                   runtimeVars, supVars, histVars>>

\* GroupRuntime.disconnect(): storage.close() and then disconnect_all().
StorageCloses(w) ==
    /\ Goto(w, "disconnect", "disconnect_all")
    /\ storage' = [storage EXCEPT ![w] = FALSE]
    /\ UNCHANGED <<tgt, grp, success, why, ret, sharedVars, sessions, busVars,
                   supVars, histVars>>

\* A disconnect() whose failure the finally clause swallows.
StorageCloseFailsSilently(w) ==
    /\ Goto(w, "disconnect", "dead")
    /\ UNCHANGED <<tgt, grp, success, why, ret, sharedVars, runtimeVars, busVars,
                   supVars, histVars>>

\* storage.close() raises (it handles OSError and sqlite3.Error itself, and
\* GroupWorker handles the rest): disconnect_all() is not reached.
StorageCloseFails(w) ==
    /\ Goto(w, "disconnect", "report")
    /\ why' = [why EXCEPT ![w] = "disconnect"]
    /\ UNCHANGED <<tgt, grp, success, ret, sharedVars, runtimeVars, busVars,
                   supVars, histVars>>

---------------------------------------------------------------------------
(* ConcurrentSupervisor.run() *)

\* for worker in self._workers: worker.start()
StartWorker ==
    /\ spc = "starting"
    /\ pc' = [pc EXCEPT ![nxt] = "connect"]
    /\ IF nxt = N THEN spc' = "waiting" /\ nxt' = 1
                  ELSE nxt' = nxt + 1 /\ UNCHANGED spc
    /\ UNCHANGED <<tgt, grp, success, why, ret, sharedVars, runtimeVars,
                   busVars, faulted, reason, shutdown, histVars>>

\* wait_for_fault() returns True as soon as the event is set ...
WaitTripped ==
    /\ spc = "waiting" /\ tripped
    /\ spc' = "origin"
    /\ UNCHANGED <<nxt, faulted, reason, shutdown, workerVars, sharedVars,
                   runtimeVars, busVars, histVars>>

\* ... and False when it times out on a clear event.
WaitTimesOut ==
    /\ spc = "waiting" /\ ~tripped
    /\ spc' = "polling"
    /\ UNCHANGED <<nxt, faulted, reason, shutdown, workerVars, sharedVars,
                   runtimeVars, busVars, histVars>>

\* A poll that returns as soon as one worker has finished.
PollAny ==
    /\ spc = "polling"
    /\ IF \E w \in Workers : ~is_alive(w)
       THEN spc' = "done" /\ faulted' = "FALSE"
       ELSE spc' = "waiting" /\ UNCHANGED faulted
    /\ UNCHANGED <<nxt, reason, shutdown, workerVars, sharedVars, runtimeVars,
                   busVars, histVars>>

\* all(not w.is_alive()). A dead thread stays dead, so reading the workers
\* one by one gives what reading them all at the last read gives.
Poll ==
    /\ spc = "polling"
    /\ IF \A w \in Workers : ~is_alive(w)
       THEN spc' = "done" /\ faulted' = "FALSE"
       ELSE spc' = "waiting" /\ UNCHANGED faulted
    /\ UNCHANGED <<nxt, reason, shutdown, workerVars, sharedVars, runtimeVars,
                   busVars, histVars>>

\* origin = self._fault_bus.origin, then trigger() begins.
ReadOrigin ==
    /\ spc = "origin"
    /\ reason' = origin
    /\ spc' = "cancel"
    /\ UNCHANGED <<nxt, faulted, shutdown, workerVars, sharedVars, runtimeVars,
                   busVars, histVars>>

---------------------------------------------------------------------------
(* GlobalEmergencyStop.trigger(): request_stop() on each worker, then join *)

NextWorker == IF nxt = N THEN spc' = "join" /\ nxt' = 1
                         ELSE spc' = "cancel" /\ nxt' = nxt + 1

\* A request that never reaches the cancellation token.
RequestCancelSkipped ==
    /\ spc = "cancel"
    /\ spc' = "stop_flag"
    /\ UNCHANGED <<nxt, faulted, reason, shutdown, workerVars, sharedVars,
                   runtimeVars, busVars, histVars>>

\* GroupRuntime.request_stop(): token.request_cancel(), idempotent.
RequestCancel ==
    /\ spc = "cancel"
    /\ cancel' = [cancel EXCEPT ![nxt] = TRUE]
    /\ spc' = "stop_flag"
    /\ UNCHANGED <<nxt, faulted, reason, shutdown, workerVars, life, stopReq,
                   completed, failed, current, runtimeVars, busVars, histVars>>

\* SequentialSupervisor.stop(): self._stop_requested = True
StopSetsFlag ==
    /\ spc = "stop_flag"
    /\ stopReq' = [stopReq EXCEPT ![nxt] = TRUE]
    /\ begunAtStop' = [begunAtStop EXCEPT ![nxt] = begun[nxt]]
    /\ spc' = "stop_read"
    /\ UNCHANGED <<nxt, faulted, reason, shutdown, workerVars, life, cancel,
                   completed, failed, current, runtimeVars, busVars, begun>>

\* stop(): if self._lifecycle.state == RUNNING
StopReadsState ==
    /\ spc = "stop_read"
    /\ IF life[nxt] = "RUNNING" THEN spc' = "stop_check" /\ UNCHANGED nxt
                                ELSE NextWorker
    /\ UNCHANGED <<faulted, reason, shutdown, workerVars, sharedVars,
                   runtimeVars, busVars, histVars>>

\* stop(): transition_to(ABORTED), first half. An illegal transition raises;
\* trigger() logs it and goes on to the next worker.
StopChecks ==
    /\ spc = "stop_check"
    /\ IF is_valid_transition(life[nxt], "ABORTED")
       THEN spc' = "stop_assign" /\ UNCHANGED nxt
       ELSE NextWorker
    /\ UNCHANGED <<faulted, reason, shutdown, workerVars, sharedVars,
                   runtimeVars, busVars, histVars>>

\* stop(): transition_to(ABORTED), second half.
StopAssigns ==
    /\ spc = "stop_assign"
    /\ life' = [life EXCEPT ![nxt] = "ABORTED"]
    /\ NextWorker
    /\ UNCHANGED <<faulted, reason, shutdown, workerVars, stopReq, cancel,
                   completed, failed, current, runtimeVars, busVars, histVars>>

RecordVerdict(v) ==
    /\ shutdown' = [shutdown EXCEPT ![nxt] = v]
    /\ IF nxt = N THEN spc' = "done" /\ faulted' = "TRUE" /\ nxt' = 1
                  ELSE nxt' = nxt + 1 /\ UNCHANGED <<spc, faulted>>
    /\ UNCHANGED <<reason, workerVars, sharedVars, runtimeVars, busVars,
                   histVars>>

\* join() returned because the thread ended.
JoinFinished ==
    /\ spc = "join" /\ ~is_alive(nxt)
    /\ RecordVerdict("stopped")

\* A join without a timeout.
JoinNeverTimesOut == FALSE

\* join_timeout elapsed with the thread still alive.
JoinTimesOut ==
    /\ spc = "join" /\ is_alive(nxt)
    /\ RecordVerdict("unverified_safe")

---------------------------------------------------------------------------
(* The system *)

\* The steps a worker thread takes by itself.
WorkerStep(w) ==
    \/ ConnectSucceeds(w) \/ ConnectFails(w) \/ StorageFailsToOpen(w)
    \/ DisconnectAllVerified(w) \/ DisconnectAllUnverified(w)
    \/ Enter(w) \/ Loop(w) \/ TransitionCheck(w) \/ TransitionAssign(w)
    \/ RunGroupReturns(w) \/ RunGroupFails(w) \/ RunGroupBlocks(w)
    \/ AfterRun(w) \/ Finish(w)
    \/ Status(w) \/ Escaped(w) \/ ReportRecord(w) \/ ReportSetEvent(w)
    \/ StorageCloses(w) \/ StorageCloseFails(w)

SupervisorStep ==
    \/ StartWorker \/ WaitTripped \/ WaitTimesOut \/ Poll \/ ReadOrigin
    \/ RequestCancel \/ StopSetsFlag \/ StopReadsState \/ StopChecks
    \/ StopAssigns \/ JoinFinished \/ JoinTimesOut

\* run() has returned and every thread has ended: the one place to stop.
Terminated ==
    /\ spc = "done" /\ \A w \in Workers : pc[w] = "dead"
    /\ UNCHANGED vars

Next ==
    \/ \E w \in Workers : WorkerStep(w) \/ OperatorAcknowledges(w)
    \/ SupervisorStep
    \/ Terminated

\* Every thread that can run does. Nothing makes run_group() end while it is
\* not cancelled (the monitor operation never does); once it is, each of its
\* waits polls the token. Nobody makes the operator press ENTER.
Fairness ==
    /\ \A w \in Workers : WF_vars(WorkerStep(w) /\ (pc[w] = "run" => cancel[w]))
    /\ WF_vars(SupervisorStep)

Spec == Init /\ [][Next]_vars
FairSpec == Spec /\ Fairness

---------------------------------------------------------------------------
(* Properties *)

\* Every variable has its type; in particular the supervisor's loops stay
\* within the worker list.
TypeOK ==
    /\ pc \in [Workers -> WorkerPC]
    /\ tgt \in [Workers -> WorkerState]
    /\ grp \in [Workers -> Nat \ {0}]
    /\ success \in [Workers -> BOOLEAN]
    /\ why \in [Workers -> Why]
    /\ ret \in [Workers -> {"unwind2", "report", "dead", "after_run"}]
    /\ life \in [Workers -> WorkerState]
    /\ stopReq \in [Workers -> BOOLEAN]
    /\ cancel \in [Workers -> BOOLEAN]
    /\ completed \in [Workers -> Nat]
    /\ failed \in [Workers -> Nat]
    /\ current \in [Workers -> Nat]
    /\ storage \in [Workers -> BOOLEAN]
    /\ sessions \in [Workers -> Sessions]
    /\ reports \in Seq(Report)
    /\ origin \in Report \cup {NoReport}
    /\ tripped \in BOOLEAN
    /\ spc \in SupPC
    /\ nxt \in Workers
    /\ faulted \in {"none", "TRUE", "FALSE"}
    /\ reason \in Report \cup {NoReport}
    /\ shutdown \in [Workers -> Verdict]
    /\ begun \in [Workers -> Nat]
    /\ begunAtStop \in [Workers -> Nat]

Reported(w, kinds) == \E i \in DOMAIN reports : reports[i].worker = w /\ reports[i].why \in kinds

\* No group failure disappears: a thread that ended with a failed group told
\* the bus, or was already being stopped (group_worker.py, _run()).
NoSilentFailure ==
    \A w \in Workers :
        pc[w] = "dead" /\ failed[w] # 0 => Reported(w, {"group", "exception"}) \/ cancel[w]

\* No worker ends with its hardware connected behind everyone's back: its
\* sessions are closed, or an operator acknowledged the SMU session left
\* open, or the bus was told that disconnect() failed.
NoSilentSession ==
    \A w \in Workers :
        pc[w] = "dead" /\ sessions[w] = "open" => Reported(w, {"disconnect"})

\* After stop() a worker begins at most the one group whose loop head it had
\* already passed, and none after it (supervisor.py, start()).
AtMostOneGroupAfterStop ==
    \A w \in Workers : stopReq[w] => begun[w] <= begunAtStop[w] + 1

\* run() returns while a thread is alive only after telling the caller that
\* this worker is not verified safe (global_emergency_stop.py, trigger()).
NoThreadLeftUnnoticed ==
    spc = "done" => \A w \in Workers : is_alive(w) => shutdown[w] = "unverified_safe"

\* The fault a run is stopped for is the first one reported, although the
\* event is set outside the lock (fault_bus.py, report()).
StopReasonIsFirstFault ==
    spc \notin {"starting", "waiting", "polling", "origin"} /\ faulted # "FALSE"
        => reports # <<>> /\ reason = reports[1]

\* Once the bus trips, every worker has been asked to stop by both means or
\* has ended by itself (concurrent_supervisor.py, run()).
FaultReachesEveryWorker ==
    tripped ~> \A w \in Workers : (cancel[w] /\ stopReq[w]) \/ pc[w] = "dead"

\* A worker whose stop() was called ends, even out of a group that only a
\* cancellation ends, unless it waits on a SAFETY FAULT screen.
StopEndsWorker ==
    \A w \in Workers : stopReq[w] ~> pc[w] \in {"dead", "ack"}

\* run() returns: once the bus has tripped, whatever the workers do (a join is
\* bounded), and once every worker has ended, with or without a fault.
RunReturns == tripped \/ (\A w \in Workers : pc[w] = "dead") ~> spc = "done"
===========================================================================

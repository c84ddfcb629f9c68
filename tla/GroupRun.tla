------------------------------ MODULE GroupRun ------------------------------
(***************************************************************************)
(* One Group -> ALL run of charge or discharge (test.py): connect the      *)
(* hardware (test_control/hardware_manager.py), take the group's positions *)
(* one by one through the presence pre-check and a ChargeSequence or       *)
(* DischargeSequence under run_guarded(), and disconnect.                  *)
(*                                                                         *)
(* The drivers appear by what their calls promise; SMUDriver and           *)
(* RelayDriver model the calls themselves. Any call on the database may    *)
(* raise, and the operator may press Ctrl+C at any moment.                 *)
(***************************************************************************)
EXTENDS Integers

CONSTANTS NumPositions,  \* enabled positions of the group
          StorageFails   \* TRUE: calls on the database may raise

ASSUME GroupRunAssumption ==
    /\ NumPositions \in Nat \ {0}
    /\ StorageFails \in BOOLEAN

Positions == 1..NumPositions
Contact == {0} \cup Positions   \* 0 for none

VARIABLES
  pc,         \* where the run is
  pos,        \* the position the loop is at
  out,        \* the SMU's output: "on" or "off"
  contact,    \* the position whose relay is closed, 0 for none
  mode,       \* the mode policy's strict_hardware: "strict" in PRODUCTION, else "lenient"
  connected,  \* the devices whose connected is True: "smu", "relay"
  cancelPos,  \* the position Ctrl+C came at, 0 while no cancellation is requested
  exc,        \* exception in flight out of sequence.run()
  outcome,    \* results[position]
  shutoff,    \* what disconnect_all()'s emergency_output_off() returned
  ret,        \* where the SAFETY FAULT screen returns to
  marks       \* history, read by properties only:
              \* "escaped": an exception left _run_group_all_positions()
              \* "told": the operator has seen a SAFETY FAULT screen
              \* "enabled": this run has tried to enable the output
              \* "hot": ... and no emergency_output_off() followed yet

devVars == <<out, contact, connected>>
vars == <<pc, pos, devVars, mode, cancelPos, exc, outcome, shutoff, ret, marks>>

Exception == {"none", "OperationCancelledError", "SafetyViolationError",
              "NIPXITimeoutError", "relay timeout", "RelayError", "SMUError",
              "DMMError", "DMMMeasurementLostError", "other"}
Mode == {"strict", "lenient"}
Result == {"PASS", "FAIL", "SKIPPED", "CANCELLED", "STATION_FAULT"}
Results == [Positions -> Result \cup {"none"}]

Init ==
    /\ pc = "smu_connect" /\ pos = 1
    /\ out \in {"on", "off"} /\ contact \in Contact  \* left by an earlier process
    /\ connected = {} /\ mode \in Mode
    /\ cancelPos = 0 /\ exc = "none"
    /\ outcome = [p \in Positions |-> "none"]
    /\ shutoff = "verified" /\ ret = "exit"
    /\ marks = {}

\* CancellationToken.is_requested
Cancelled == cancelPos # 0

Goto(from, to) == pc = from /\ pc' = to

\* A call goes through or raises; on the database it raises only if it may.
Call == {"ok", "raises"}
StorageCall == IF StorageFails THEN Call ELSE {"ok"}

---------------------------------------------------------------------------
(* The promises of the drivers *)

\* emergency_output_off() never raises. True ("verified") is a readback, or
\* there is no session.
Verdict == {"verified", "unverified"}
EmergencyOutputOff(v) ==
    /\ "smu" \notin connected => v = "verified"
    /\ out' \in IF "smu" \notin connected THEN {out}
               ELSE IF v = "verified" THEN {"off"} ELSE {"off", out}

\* close(): energises this position's relay alone, or raises with the bank as
\* it was, all off, or already switched. A reconnect moves connected.
RelayClose(c) ==
    /\ contact' \in IF c = "ok" THEN {pos} ELSE {contact, 0, pos}
    /\ connected' \in {connected \cup {"relay"},
                       IF c = "ok" THEN connected ELSE connected \ {"relay"}}

\* open() and open_all(): all relays off, or an exception.
RelayOpen(c) ==
    /\ contact' \in IF c = "ok" THEN {0} ELSE {contact, 0}
    /\ connected' \in {connected \cup {"relay"},
                       IF c = "ok" THEN connected ELSE connected \ {"relay"}}

RelayFault == {"RelayError", "relay timeout", "other"}

---------------------------------------------------------------------------
(* HardwareManager.connect_all(); PRODUCTION checks the SMU before it       *)
(* connects the relays, the other modes connect everything first.           *)

\* Disconnect what is connected and raise HardwareInitError: the run is over.
RollBack ==
    /\ pc' = "exit"
    /\ connected' = {}
    /\ out' \in IF "smu" \in connected THEN {"off", out} ELSE {out}

SMUConnect ==
    /\ pc = "smu_connect"
    /\ \/ /\ connected' = connected \cup {"smu"} /\ UNCHANGED out
          /\ pc' = IF mode = "strict" THEN "smu_off" ELSE "relay_connect"
       \/ mode = "strict" /\ RollBack
       \/ mode = "lenient" /\ pc' = "relay_connect" /\ UNCHANGED <<out, connected>>
    /\ UNCHANGED <<pos, contact, mode, cancelPos, exc, outcome, shutoff, ret, marks>>

SMUStartupOff ==
    /\ pc = "smu_off"
    /\ \/ /\ EmergencyOutputOff("verified") /\ UNCHANGED connected
          /\ pc' = IF mode = "strict" THEN "relay_connect" ELSE "relay_off"
       \/ "smu" \in connected /\ RollBack
    /\ UNCHANGED <<pos, contact, mode, cancelPos, exc, outcome, shutoff, ret, marks>>

RelayConnect ==
    /\ pc = "relay_connect"
    /\ \/ /\ connected' = connected \cup {"relay"} /\ UNCHANGED out
          /\ pc' = IF mode = "strict" THEN "relay_off" ELSE "smu_off"
       \/ mode = "strict" /\ RollBack
       \/ mode = "lenient" /\ pc' = "smu_off" /\ UNCHANGED <<out, connected>>
    /\ UNCHANGED <<pos, contact, mode, cancelPos, exc, outcome, shutoff, ret, marks>>

\* open_all() on a connected bank, then DataStorage.open(): a failure there
\* disconnects everything and ends the run.
RelayStartupOff ==
    /\ pc = "relay_off"
    /\ \/ /\ IF "relay" \in connected THEN RelayOpen("ok") ELSE UNCHANGED <<contact, connected>>
          /\ \E c \in StorageCall : pc' = IF c = "ok" THEN "group" ELSE "disc_smu"
          /\ UNCHANGED out
       \/ "relay" \in connected /\ contact' \in {contact, 0} /\ RollBack
    /\ UNCHANGED <<pos, mode, cancelPos, exc, outcome, shutoff, ret, marks>>

---------------------------------------------------------------------------
(* _run_group_all_positions(), _run_one_charge_or_discharge_position()      *)

\* An exception that nothing catches before the caller's finally.
Escape == pc' = "unwind" /\ marks' = marks \cup {"escaped"}

\* GROUP_RUN_STARTED, logged once.
GroupBegins ==
    /\ pc = "group"
    /\ \E c \in StorageCall : IF c = "ok" THEN pc' = "slot" /\ UNCHANGED marks
                                          ELSE Escape
    /\ UNCHANGED <<pos, devVars, mode, cancelPos, exc, outcome, shutoff, ret>>

\* begin_new_run_id(), start_run_summary_guarded() (its failure is a FAIL) and
\* the traceability events.
SlotBegins ==
    /\ pc = "slot"
    /\ exc' = "none"
    /\ \E c \in StorageCall :
         \/ c = "ok" /\ pc' = "pre_close" /\ UNCHANGED <<marks, outcome>>
         \/ /\ c = "raises" /\ pc' = "slot_done" /\ UNCHANGED marks
            /\ outcome' = [outcome EXCEPT ![pos] = "FAIL"]
         \/ c = "raises" /\ Escape /\ UNCHANGED outcome
    /\ UNCHANGED <<pos, devVars, mode, cancelPos, shutoff, ret>>

\* battery_and_ntc_presence_precheck(): close the relay, read the DMM (its
\* failure is tolerated), open it again whatever happened.
PrecheckCloses ==
    /\ pc = "pre_close"
    /\ \E c \in Call :
         /\ RelayClose(c)
         /\ IF c = "ok" THEN pc' = "pre_open" /\ UNCHANGED marks ELSE Escape
    /\ UNCHANGED <<pos, out, mode, cancelPos, exc, outcome, shutoff, ret>>

PrecheckOpens ==
    /\ pc = "pre_open"
    /\ \E c \in Call, d \in StorageCall :
         /\ RelayOpen(c)
         /\ IF c = "ok" /\ d = "ok" THEN pc' = "pre_result" /\ UNCHANGED marks
                                    ELSE Escape
    /\ UNCHANGED <<pos, out, mode, cancelPos, exc, outcome, shutoff, ret>>

\* The NTC snapshot decides: a DAQ failure, an absent battery or NTC, or go.
PrecheckResult ==
    /\ pc = "pre_result"
    /\ \/ pc' = "run" /\ UNCHANGED <<marks, outcome>>
       \/ \E r \in {"STATION_FAULT", "SKIPPED"} :
            /\ pc' = "slot_done" /\ outcome' = [outcome EXCEPT ![pos] = r]
            /\ UNCHANGED marks
       \/ StorageFails /\ Escape /\ UNCHANGED outcome
    /\ UNCHANGED <<pos, devVars, mode, cancelPos, exc, shutoff, ret>>

---------------------------------------------------------------------------
(* ChargeSequence.run() / DischargeSequence.run(), inside run_guarded()     *)

Raise(e) == pc' = "handler" /\ exc' = e

\* A sequence that goes on when its relay did not answer.
RunClosesUnchecked ==
    /\ pc = "run"
    /\ \/ Cancelled /\ Raise("OperationCancelledError") /\ UNCHANGED <<contact, connected>>
       \/ ~Cancelled /\ (\E c \in Call : RelayClose(c)) /\ pc' = "arm" /\ UNCHANGED exc
    /\ UNCHANGED <<pos, out, mode, cancelPos, outcome, shutoff, ret, marks>>

\* A sequence without its first check_cancellation().
RunClosesUncancelled ==
    /\ pc = "run"
    /\ \/ RelayClose("ok") /\ pc' = "arm" /\ UNCHANGED exc
       \/ RelayClose("raises") /\ \E e \in RelayFault : Raise(e)
    /\ UNCHANGED <<pos, out, mode, cancelPos, outcome, shutoff, ret, marks>>

\* check_cancellation(), relay.close() and its bookkeeping.
RunCloses ==
    /\ pc = "run"
    /\ \/ Cancelled /\ Raise("OperationCancelledError") /\ UNCHANGED <<contact, connected>>
       \/ ~Cancelled /\ RelayClose("ok") /\ pc' = "arm" /\ UNCHANGED exc
       \/ ~Cancelled /\ RelayClose("ok") /\ StorageFails /\ Raise("other")
       \/ ~Cancelled /\ RelayClose("raises") /\ \E e \in RelayFault : Raise(e)
    /\ UNCHANGED <<pos, out, mode, cancelPos, outcome, shutoff, ret, marks>>

\* DMM reading and polarity check, set_charge_mode(), output_enable(), and the
\* event logged before the try whose finally turns the output off again.
Arm ==
    /\ pc = "arm"
    /\ \/ /\ \E e \in {"DMMError", "SafetyViolationError"} : Raise(e)
          /\ UNCHANGED <<out, marks>>
       \/ /\ "smu" \notin connected /\ Raise("SMUError") /\ UNCHANGED <<out, marks>>
       \/ /\ "smu" \in connected /\ marks' = marks \cup {"enabled", "hot"}
          /\ \/ out' \in {"on", "off"} /\ \E e \in {"SMUError", "other"} : Raise(e)
             \/ out' = "on" /\ pc' = "sampling" /\ UNCHANGED exc
             \/ out' = "on" /\ StorageFails /\ Raise("other")
    /\ UNCHANGED <<pos, contact, connected, mode, cancelPos, outcome, shutoff, ret>>

\* Stabilisation and the sampling loop, by the ways they end. "none" is the
\* end condition (EOC or EOD); a cancellation is seen at the next check.
SamplingEnds ==
    /\ Goto("sampling", "inner_off")
    /\ exc' \in {"none", "OperationCancelledError", "NIPXITimeoutError",
                 "SafetyViolationError", "DMMMeasurementLostError", "SMUError", "other"}
    /\ exc' = "OperationCancelledError" => Cancelled
    /\ UNCHANGED <<pos, devVars, mode, cancelPos, outcome, shutoff, ret, marks>>

\* A finally whose result nobody looks at.
InnerFinallyUnchecked ==
    /\ pc = "inner_off"
    /\ \E v \in Verdict : EmergencyOutputOff(v)
    /\ pc' = (IF exc = "none" THEN "run_open" ELSE "handler")
    /\ marks' = marks \ {"hot"}
    /\ UNCHANGED <<pos, contact, connected, mode, cancelPos, exc, outcome, shutoff, ret>>

\* The finally: emergency_output_off() and an event whose failure replaces
\* the exception in flight. At the end condition an unverified output
\* escalates.
InnerFinally ==
    /\ pc = "inner_off"
    /\ \E v \in Verdict :
         /\ EmergencyOutputOff(v)
         /\ \/ StorageFails /\ Raise("other")
            \/ exc # "none" /\ Raise(exc)
            \/ /\ exc = "none" /\ UNCHANGED exc
               /\ pc' = IF v = "verified" THEN "run_open" ELSE "escalate"
    /\ marks' = marks \ {"hot"}
    /\ UNCHANGED <<pos, contact, connected, mode, cancelPos, outcome, shutoff, ret>>

\* A SAFETY FAULT screen waits for ENTER.
ShowFault(next) == pc' = "ack" /\ ret' = next

\* open_all() (its failure swallowed), the screen, SMUStateVerificationError.
Escalate ==
    /\ pc = "escalate"
    /\ \E c \in Call : RelayOpen(c)
    /\ ShowFault("handler") /\ exc' = "SMUError"
    /\ marks' = marks \cup {"told"}
    /\ UNCHANGED <<pos, out, mode, cancelPos, outcome, shutoff>>

\* relay.open() after a verified end, and its events.
RunOpens ==
    /\ pc = "run_open"
    /\ \/ RelayOpen("ok") /\ pc' = "complete" /\ UNCHANGED exc
       \/ RelayOpen("ok") /\ StorageFails /\ Raise("other")
       \/ RelayOpen("raises") /\ \E e \in RelayFault : Raise(e)
    /\ UNCHANGED <<pos, out, mode, cancelPos, outcome, shutoff, ret, marks>>

\* complete() stands outside run_guarded().
Complete ==
    /\ Goto("complete", "classify")
    /\ exc' \in {"none"} \cup (IF StorageFails THEN {"other"} ELSE {})
    /\ UNCHANGED <<pos, devVars, mode, cancelPos, outcome, shutoff, ret, marks>>

---------------------------------------------------------------------------
(* run_guarded()'s except branches, all of one shape, and SafetyMonitor     *)

\* Events, execution state and run summary come first: when the database
\* raises here the shutdown is not reached.
HandlerRecords ==
    /\ pc = "handler"
    /\ \E c \in StorageCall : IF c = "ok" THEN pc' = "stop_smu" /\ UNCHANGED exc
                                          ELSE pc' = "classify" /\ exc' = "other"
    /\ UNCHANGED <<pos, devVars, mode, cancelPos, outcome, shutoff, ret, marks>>

\* emergency_stop() / safe_cancel_shutdown(), first half.
StopOutput ==
    /\ Goto("stop_smu", "stop_relay")
    /\ \E v \in Verdict : EmergencyOutputOff(v)
    /\ marks' = marks \ {"hot"}
    /\ UNCHANGED <<pos, contact, connected, mode, cancelPos, exc, outcome, shutoff, ret>>

\* Second half: open_all(), its failure logged.
StopRelays ==
    /\ Goto("stop_relay", "classify")
    /\ \E c \in Call : RelayOpen(c)
    /\ UNCHANGED <<pos, out, mode, cancelPos, exc, outcome, shutoff, ret, marks>>

\* A policy that takes an unknown exception for the battery's fault.
ClassifyUnknownAsFail(e) ==
    CASE e = "none" -> "PASS"
      [] e = "OperationCancelledError" -> "CANCELLED"
      [] e \in {"RelayError", "SMUError", "DMMError", "DMMMeasurementLostError"} -> "STATION_FAULT"
      [] OTHER -> "FAIL"

\* The except clauses around sequence.run() and _classify_position_exception().
\* The relay driver's own timeout is a NIPXITimeoutError like any other.
ResultOf(e) ==
    CASE e = "none" -> "PASS"
      [] e = "OperationCancelledError" -> "CANCELLED"
      [] e \in {"SafetyViolationError", "NIPXITimeoutError", "relay timeout"} -> "FAIL"
      [] OTHER -> "STATION_FAULT"

\* The records of a station fault and the post-run summary may still raise.
Classify ==
    /\ pc = "classify"
    /\ \E c \in StorageCall :
         IF c = "ok" THEN /\ pc' = "slot_done" /\ UNCHANGED marks
                          /\ outcome' = [outcome EXCEPT ![pos] = ResultOf(exc)]
                     ELSE Escape /\ UNCHANGED outcome
    /\ UNCHANGED <<pos, devVars, mode, cancelPos, exc, shutoff, ret>>

\* A loop that a station fault does not end.
StopsGroupCancelOnly(r) == r = "CANCELLED"

StopsGroup(r) == r \in {"CANCELLED", "STATION_FAULT"}

LastPosition == pos >= NumPositions

\* A loop that tries a failed position again.
NextPositionRetries == IF outcome[pos] = "FAIL" THEN pos ELSE pos + 1

NextPosition == pos + 1

\* The slot's event; then the loop ends or goes on. After the last position
\* GROUP_RUN_COMPLETED is logged. The token is not looked at here.
SlotEnds ==
    LET over == StopsGroup(outcome[pos]) \/ LastPosition
    IN /\ pc = "slot_done"
       /\ \/ StorageFails /\ Escape /\ UNCHANGED pos
          \/ over /\ pc' = "unwind" /\ UNCHANGED <<pos, marks>>
          \/ ~over /\ pc' = "slot" /\ pos' = NextPosition /\ UNCHANGED marks
       /\ UNCHANGED <<devVars, mode, cancelPos, exc, outcome, shutoff, ret>>

---------------------------------------------------------------------------
(* storage.close() (guarded), disconnect_all(), and the atexit handlers     *)

Unwind ==
    /\ Goto("unwind", "disc_smu")
    /\ UNCHANGED <<pos, devVars, mode, cancelPos, exc, outcome, shutoff, ret, marks>>

\* A disconnect_all() that only logs an unverified output.
DisconnectOutputLogged ==
    /\ Goto("disc_smu", "disc_relay")
    /\ \E v \in Verdict : EmergencyOutputOff(v) /\ shutoff' = v
    /\ marks' = marks \ {"hot"}
    /\ UNCHANGED <<pos, contact, connected, mode, cancelPos, exc, outcome, ret>>

\* Step 1: the output off, or the operator told before anything else happens.
DisconnectOutput ==
    /\ pc = "disc_smu"
    /\ \E v \in Verdict :
         /\ EmergencyOutputOff(v)
         /\ shutoff' = v
         /\ \/ /\ v = "verified" /\ pc' = "disc_relay"
               /\ marks' = marks \ {"hot"} /\ UNCHANGED ret
            \/ /\ v = "unverified" /\ ShowFault("disc_relay")
               /\ marks' = (marks \ {"hot"}) \cup {"told"}
    /\ UNCHANGED <<pos, contact, connected, mode, cancelPos, exc, outcome>>

\* Step 2: open_all() on a bank that is still connected.
DisconnectRelays ==
    /\ pc = "disc_relay"
    /\ \/ /\ "relay" \notin connected /\ UNCHANGED <<contact, connected>>
          /\ pc' = "disc_close" /\ UNCHANGED <<ret, marks>>
       \/ /\ "relay" \in connected /\ RelayOpen("ok")
          /\ pc' = "disc_close" /\ UNCHANGED <<ret, marks>>
       \/ /\ "relay" \in connected /\ RelayOpen("raises")
          /\ ShowFault("disc_close") /\ marks' = marks \cup {"told"}
    /\ UNCHANGED <<pos, out, mode, cancelPos, exc, outcome, shutoff>>

\* Closing the session of an unverified output like any other.
CloseSessionsAll ==
    /\ Goto("disc_close", "exit")
    /\ connected' = {}
    /\ out' \in {"off", out}
    /\ UNCHANGED <<pos, contact, mode, cancelPos, exc, outcome, shutoff, ret, marks>>

\* Step 3: close the sessions, the SMU's only when its output was verified.
CloseSessions ==
    /\ Goto("disc_close", "exit")
    /\ \/ shutoff = "unverified" /\ connected' = connected \ {"relay"} /\ UNCHANGED out
       \/ /\ shutoff = "verified" /\ connected' = {}
          /\ out' \in IF "smu" \in connected THEN {"off", out} ELSE {out}
    /\ UNCHANGED <<pos, contact, mode, cancelPos, exc, outcome, shutoff, ret, marks>>

\* _atexit_smu_shutdown() and _atexit_relay_shutdown(). No way to the end
\* leaves the relay connected, so only the SMU's has something to do.
AtExit ==
    /\ Goto("exit", "ended")
    /\ \E v \in Verdict : EmergencyOutputOff(v)
    /\ marks' = marks \ {"hot"}
    /\ UNCHANGED <<pos, contact, connected, mode, cancelPos, exc, outcome, shutoff, ret>>

---------------------------------------------------------------------------
(* The operator, and the whole run *)

\* install_sigint_handler(): Ctrl+C requests a cancellation; once requested
\* another one changes nothing.
CtrlC ==
    /\ ~Cancelled /\ pc \notin {"exit", "ended"}
    /\ cancelPos' = pos
    /\ UNCHANGED <<pc, pos, devVars, mode, exc, outcome, shutoff, ret, marks>>

Acknowledge ==
    /\ Goto("ack", ret)
    /\ UNCHANGED <<pos, devVars, mode, cancelPos, exc, outcome, shutoff, ret, marks>>

Program ==
    \/ SMUConnect \/ SMUStartupOff \/ RelayConnect \/ RelayStartupOff
    \/ GroupBegins \/ SlotBegins
    \/ PrecheckCloses \/ PrecheckOpens \/ PrecheckResult
    \/ RunCloses \/ Arm \/ SamplingEnds \/ InnerFinally \/ Escalate
    \/ RunOpens \/ Complete
    \/ HandlerRecords \/ StopOutput \/ StopRelays \/ Classify \/ SlotEnds
    \/ Unwind \/ DisconnectOutput \/ DisconnectRelays \/ CloseSessions \/ AtExit

Ended == pc = "ended" /\ UNCHANGED vars

Next == Program \/ CtrlC \/ Acknowledge \/ Ended

Spec == Init /\ [][Next]_vars

\* The program runs on by itself: every driver and database call returns or
\* raises and the sampling loop has a timeout. The operator owes nothing.
FairSpec == Spec /\ WF_vars(Program)

---------------------------------------------------------------------------
(* Properties *)

\* Every variable has its type; the loop stays within the positions.
TypeOK ==
    /\ pc \in {"smu_connect", "smu_off", "relay_connect", "relay_off", "group",
               "slot", "pre_close", "pre_open", "pre_result", "run", "arm",
               "sampling", "inner_off", "escalate", "run_open", "complete",
               "handler", "stop_smu", "stop_relay", "classify", "slot_done",
               "unwind", "disc_smu", "disc_relay", "disc_close", "ack", "exit",
               "ended"}
    /\ pos \in Positions
    /\ out \in {"on", "off"} /\ contact \in Contact
    /\ connected \subseteq {"smu", "relay"} /\ mode \in Mode
    /\ cancelPos \in Contact
    /\ exc \in Exception
    /\ outcome \in Results
    /\ shutoff \in Verdict
    /\ ret \in {"handler", "disc_relay", "disc_close", "exit"}
    /\ marks \subseteq {"escaped", "told", "enabled", "hot"}

\* A position is reported PASS only with the output off and its battery
\* disconnected (charge_sequence.py, the code after the inner finally).
PassMeansSafe ==
    pc = "slot_done" /\ outcome[pos] = "PASS" => out = "off" /\ contact = 0

\* The output is switched on only with the battery under test, and no other,
\* connected to it, whatever the relay calls did before.
OutputOnlyOnSelectedBattery == [][out = "off" /\ out' = "on" => contact = pos]_vars

\* After Ctrl+C no battery but the one under test at that moment is energised:
\* the next sequence sees the token before it enables the output.
CancelEnergisesNoOther ==
    [][out = "off" /\ out' = "on" /\ Cancelled => pos = cancelPos]_vars

\* No position is begun before the output of the one before it has been
\* commanded off, even when the shutdown itself was skipped by an exception.
NextPositionOnlyAfterShutdown == pc = "slot" => "hot" \notin marks

\* A cancellation or a station fault ends the group: no later position is
\* attempted, and none is left out without one of the two.
FaultEndsGroup ==
    LET ends == {"CANCELLED", "STATION_FAULT"}
    IN /\ \A p \in Positions :
            outcome[p] \in ends => pos = p /\ \A q \in Positions : q > p => outcome[q] = "none"
       /\ pc = "unwind" /\ "escaped" \notin marks =>
            \A p \in Positions : outcome[p] # "none" \/ outcome[pos] \in ends

\* A run that leaves its output on has shown the operator a SAFETY FAULT
\* screen (hardware_manager.py, disconnect_all()).
EnergisedEndIsTold == pc = "ended" /\ "enabled" \in marks /\ out = "on" => "told" \in marks

\* The session of an output that this run enabled and that is still on is
\* never given up: it stays under this process's control.
EnergisedSessionKept ==
    pc \in {"exit", "ended"} /\ "enabled" \in marks /\ out = "on" => "smu" \in connected

\* A run ends, or waits for the operator on a SAFETY FAULT screen.
RunEndsOrWaits == <>(pc \in {"ended", "ack"})

\* test.py:5126-5129: the hardware is back in a verified-safe state before the
\* next position's relay ever closes (also test.py:4755). PRODUCTION mode: the
\* others go on without an SMU whose output nobody could check.
SafeBeforeNextPosition == mode = "strict" /\ pc = "pre_close" => out = "off"

=============================================================================

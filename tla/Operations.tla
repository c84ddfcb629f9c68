----------------------------- MODULE Operations -----------------------------
(***************************************************************************)
(* The station console (test.py): the startup safety sweep, the menu, and  *)
(* the operations it starts on one position or one group: Monitor Battery, *)
(* Monitor Battery Scan, Proto Test, Charge (Discharge has its control)    *)
(* and Cycle, which runs a charge phase, a rest and a discharge phase, each *)
(* phase with a run_summary row of its own under the cycle's row.          *)
(*                                                                         *)
(* connect_all() is a single step here; GroupRun has it call by call, and  *)
(* SamplingLoop has the loop PhaseSamples stands for.                      *)
(***************************************************************************)
EXTENDS Integers, Sequences

CONSTANTS NumPositions,  \* positions of a scan, relays of a proto test
          CycleCount,    \* test_setpoints["cycle_count"]
          MaxOps,        \* bound: operations started from the menu
          MaxFaults      \* bound: database calls that raise, per operation

ASSUME OperationsAssumption ==
    /\ NumPositions \in Nat \ {0} /\ CycleCount \in Nat \ {0}
    /\ MaxOps \in Nat /\ MaxFaults \in Nat

\* The sweep takes the SMUs first, then the relay banks. An operation uses
\* "smu", the positions' "bank" and, where the group has a sense channel, "sense".
Devices == <<"smu", "spare smu", "bank", "sense">>
Device == {Devices[i] : i \in 1..Len(Devices)}
Operation == {"monitor", "scan", "proto", "charge", "cycle"}

VARIABLES
  pc,         \* where the console is
  i,          \* the sweep's device, then the position or repetition of the operation
  live,       \* per device: an output is on, a relay is closed
  answered,   \* the devices the sweep could connect; forgotten once an operation runs
  op, ops,    \* the operation, and how many were started
  routed,     \* the group has a sense_channel
  smuUp,      \* hw_mgr.smu.connected
  cancelled,  \* CancellationToken.requested
  exc,        \* the exception in flight
  half,       \* the cycle's phase: "charge" or "discharge"
  frame,      \* whose run_guarded() is active: the "op"'s or a cycle's "phase"'s
  rows,       \* stop_reason of the operation's row and of its latest phase's row
  faults,     \* database calls that raised in this operation
  marks       \* history, read by properties only: the sense path was closed
              \* ("sensed") or failed ("sense fault"), an output was logged as
              \* CRITICAL ("unverified")

hwVars == <<live, smuUp, answered>>
opVars == <<op, ops, routed>>
vars == <<pc, i, hwVars, opVars, cancelled, exc, half, frame, rows, faults, marks>>

Exception == {"none", "cancel", "safety", "timeout", "station", "other"}
StopReason == {"CANCELLED", "SAFETY_VIOLATION", "TIMEOUT", "FAILED", "COMPLETED", "STATION_FAULT"}

Init ==
    /\ pc = "sweep_connect" /\ i = 1
    /\ live \in [Device -> BOOLEAN]      \* left by an earlier process
    /\ answered = {} /\ smuUp = FALSE
    /\ op = "monitor" /\ ops = 0 /\ routed \in BOOLEAN
    /\ cancelled = FALSE /\ exc = "none" /\ half = "charge" /\ frame = "op"
    /\ rows = [f \in {"op", "phase"} |-> "none"]
    /\ faults = 0 /\ marks = {}

---------------------------------------------------------------------------
(* What the drivers promise; a call on the database may raise *)

DbOk == UNCHANGED faults
DbRaises == faults < MaxFaults /\ faults' = faults + 1

Becomes(d, states) == \E s \in states : live' = [live EXCEPT ![d] = s]

\* open(), open_all(): all relays off, or it raises.
BankOpens(d) == Becomes(d, {FALSE})
BankOpenRaises(d) == Becomes(d, {live[d], FALSE})

\* close(): this relay alone, or it raises with the bank in any state.
BankCloses(d) == Becomes(d, {TRUE})
BankCloseRaises(d) == Becomes(d, BOOLEAN)

\* emergency_output_off() never raises; without a session it is vacuously True.
OutputOff == IF smuUp THEN Becomes("smu", {FALSE}) ELSE UNCHANGED live
OutputUnverified == smuUp /\ Becomes("smu", {live["smu"], FALSE})

\* A relay driver raises RelayError, its own NIPXITimeoutError or OSError.
RelayFault == {"station", "timeout", "other"}

\* check_cancellation() as a loop that never looks at the token.
Deaf == FALSE

\* check_cancellation() raises
Cancelled == cancelled

---------------------------------------------------------------------------
(* display_safety_fault_screen(), which waits for ENTER in input() *)

Screens == {"sweep_ack", "phase_ack", "output_ack", "bank_ack"}

\* What follows a screen: the sweep raises SafetyFaultBlocked and the process
\* ends; a phase raises SMUStateVerificationError inside the sense path's try;
\* disconnect_all() goes on with its next step.
AfterScreen == CASE pc = "sweep_ack" -> "exit" [] pc = "phase_ack" -> "release"
                 [] pc = "output_ack" -> "disc_bank" [] OTHER -> "disc_close"

\* The operator presses ENTER. A Ctrl+C meanwhile only sets the token: input()
\* goes on waiting.
Acknowledge ==
    /\ pc \in Screens /\ pc' = AfterScreen
    /\ exc' = IF pc = "phase_ack" THEN "station" ELSE exc
    /\ UNCHANGED <<i, hwVars, opVars, cancelled, half, frame, rows, faults, marks>>

---------------------------------------------------------------------------
(* run_startup_safety_sweep() *)

NextDevice ==
    IF i < Len(Devices) THEN pc' = "sweep_connect" /\ i' = i + 1
                        ELSE pc' = "menu" /\ i' = 1

\* A device that does not connect is logged and passed over.
SweepConnects ==
    /\ pc = "sweep_connect"
    /\ \/ pc' = "sweep_safe" /\ answered' = answered \cup {Devices[i]} /\ UNCHANGED i
       \/ NextDevice /\ UNCHANGED answered
    /\ UNCHANGED <<live, smuUp, opVars, cancelled, exc, half, frame, rows, faults, marks>>

\* A sweep that logs a device it could not verify and goes on.
SweepSafesTolerant ==
    /\ pc = "sweep_safe"
    /\ Becomes(Devices[i], {live[Devices[i]], FALSE}) /\ NextDevice
    /\ UNCHANGED <<answered, smuUp, opVars, cancelled, exc, half, frame, rows, faults, marks>>

\* emergency_output_off() or open_all(), then disconnect(). Unverified: the
\* SAFETY FAULT screen, SafetyFaultBlocked, and the process ends.
SweepSafes ==
    /\ pc = "sweep_safe"
    /\ \/ Becomes(Devices[i], {FALSE}) /\ NextDevice
       \/ Becomes(Devices[i], {live[Devices[i]], FALSE}) /\ pc' = "sweep_ack" /\ UNCHANGED i
    /\ UNCHANGED <<answered, smuUp, opVars, cancelled, exc, half, frame, rows, faults, marks>>

---------------------------------------------------------------------------
(* The menu and the shell around every operation *)

ChooseOperation ==
    /\ pc = "menu" /\ ops < MaxOps
    /\ pc' = "connect" /\ op' \in Operation /\ ops' = ops + 1
    /\ i' = 1 /\ cancelled' = FALSE /\ exc' = "none" /\ half' = "charge" /\ frame' = "op"
    /\ rows' = [f \in {"op", "phase"} |-> "none"] /\ faults' = 0 /\ marks' = {}
    /\ answered' = {}
    /\ UNCHANGED <<live, smuUp, routed>>

LeaveMenu ==
    /\ pc = "menu" /\ pc' = "exit"
    /\ UNCHANGED <<i, hwVars, opVars, cancelled, exc, half, frame, rows, faults, marks>>

\* install_sigint_handler(): the handler only sets the token.
CtrlC ==
    /\ pc \notin {"sweep_connect", "sweep_safe", "sweep_ack", "menu", "exit"} /\ ~cancelled
    /\ cancelled' = TRUE
    /\ UNCHANGED <<pc, i, hwVars, opVars, exc, half, frame, rows, faults, marks>>

\* connect_all() and _open_storage_guarded(): what connected is made safe; a
\* failed initialisation rolls back. Outside PRODUCTION a device may be missing.
Connect ==
    /\ pc = "connect"
    /\ \/ \E up \in SUBSET {"smu", "bank"} :
            /\ live' = [d \in Device |-> live[d] /\ d \notin up]
            /\ smuUp' = ("smu" \in up)
            /\ \/ DbOk /\ pc' = "begin"
               \/ DbRaises /\ pc' = "disconnect"
       \/ /\ live' \in {l \in [Device -> BOOLEAN] : /\ \A d \in Device : l[d] => live[d]
                                                    /\ l["sense"] = live["sense"]
                                                    /\ l["spare smu"] = live["spare smu"]}
          /\ pc' = "menu" /\ smuUp' = FALSE /\ UNCHANGED faults
    /\ UNCHANGED <<i, answered, opVars, cancelled, exc, half, frame, rows, marks>>

FirstStep == CASE op \in {"monitor", "charge", "cycle"} -> "precheck" [] OTHER -> op

\* start_run_summary() and the traceability events.
BeginRun ==
    /\ pc = "begin"
    /\ \/ DbOk /\ rows' = [rows EXCEPT !["op"] = "open"] /\ pc' = FirstStep
       \/ /\ DbRaises /\ pc' = "disconnect"
          /\ \E r \in {"none", "open"} : rows' = [rows EXCEPT !["op"] = r]
    /\ UNCHANGED <<i, hwVars, opVars, cancelled, exc, half, frame, marks>>

\* battery_and_ntc_presence_precheck(): close, measure, open again. An absent
\* battery or a dead DAQ finishes the row; a relay fault leaves it open.
Precheck ==
    /\ pc = "precheck"
    /\ \/ /\ BankOpens("bank") /\ DbOk
          /\ \/ /\ UNCHANGED rows
                /\ pc' = CASE op = "monitor" -> "monitor" [] op = "charge" -> "run" [] OTHER -> "repeat"
             \/ /\ \E r \in {"SAFETY_VIOLATION", "STATION_FAULT"} : rows' = [rows EXCEPT !["op"] = r]
                /\ pc' = "disconnect"
       \/ BankCloseRaises("bank") /\ (DbOk \/ DbRaises) /\ pc' = "disconnect" /\ UNCHANGED rows
    /\ UNCHANGED <<i, answered, smuUp, opVars, cancelled, exc, half, frame, marks>>

\* In the operation's finally: sense_router.shutdown(), which only closes its
\* connections, storage.close(), and disconnect_all(). Step 1 of that: the output
\* off, or the operator told before anything else happens.
DisconnectOutput ==
    /\ pc = "disconnect"
    /\ \/ OutputOff /\ pc' = "disc_bank"
       \/ OutputUnverified /\ pc' = "output_ack"
    /\ UNCHANGED <<i, answered, smuUp, opVars, cancelled, exc, half, frame, rows, faults, marks>>

\* Step 2: open_all() on a bank that is connected still, whatever the output did.
DisconnectBank ==
    /\ pc = "disc_bank"
    /\ \/ BankOpens("bank") /\ pc' = "disc_close"
       \/ BankOpenRaises("bank") /\ pc' = "bank_ack"
       \/ UNCHANGED live /\ pc' = "disc_close"      \* not connected
    /\ UNCHANGED <<i, answered, smuUp, opVars, cancelled, exc, half, frame, rows, faults, marks>>

\* Step 3: the sessions. The one of an unverified output stays open in this
\* HardwareManager; the next operation makes its own.
DisconnectSessions ==
    /\ pc = "disc_close" /\ pc' = "menu" /\ smuUp' = FALSE
    /\ UNCHANGED <<i, live, answered, opVars, cancelled, exc, half, frame, rows, faults, marks>>

---------------------------------------------------------------------------
(* run_guarded(), for the operation or for a cycle's phase *)

Raise(e) == exc' = e /\ pc' = "handler"
Go(next) == pc' = next /\ UNCHANGED exc

\* Where an exception goes that leaves run_guarded(), or stood outside it.
Outside == CASE frame = "phase" -> "phase_end"
             [] frame # "phase" /\ op \in {"charge", "cycle"} -> "classify"
             [] OTHER -> "disconnect"

\* The events and record_execution_state() come first; a database that raises
\* here skips the reading, the run summary and the shutdown.
HandlerRecords ==
    /\ pc = "handler"
    /\ \/ DbOk /\ Go("reading")
       \/ DbRaises /\ pc' = Outside /\ exc' = "other"
    /\ UNCHANGED <<i, hwVars, opVars, cancelled, half, frame, rows, marks>>

UsesSense == routed /\ op \in {"charge", "cycle"}

\* A final reading that trusts the path to be as the sequence left it.
FinalReadingDirect ==
    /\ pc = "reading" /\ Go("finish")
    /\ UNCHANGED <<i, hwVars, opVars, cancelled, half, frame, rows, faults, marks>>

\* _safe_final_voltage_reading(): connect, read, disconnect, nothing raised.
FinalReading ==
    /\ pc = "reading" /\ Go("finish")
    /\ \/ ~UsesSense /\ UNCHANGED <<live, marks>>
       \/ UsesSense /\ BankOpens("sense") /\ marks' = marks \cup {"sensed"}
       \/ UsesSense /\ BankCloseRaises("sense") /\ marks' = marks \cup {"sense fault"}
    /\ UNCHANGED <<i, answered, smuUp, opVars, cancelled, half, frame, rows, faults>>

RecordOf(e) == CASE e = "cancel" -> "CANCELLED" [] e = "safety" -> "SAFETY_VIOLATION"
                 [] e = "timeout" /\ op # "proto" -> "TIMEOUT" [] OTHER -> "FAILED"

HandlerFinishes ==
    /\ pc = "finish"
    /\ \/ DbOk /\ Go("stop_smu") /\ rows' = [rows EXCEPT ![frame] = RecordOf(exc)]
       \/ DbRaises /\ pc' = Outside /\ exc' = "other" /\ UNCHANGED rows
    /\ UNCHANGED <<i, hwVars, opVars, cancelled, half, frame, marks>>

\* emergency_stop() / safe_cancel_shutdown(): both halves are tried.
StopOutput ==
    /\ pc = "stop_smu" /\ Go("stop_bank")
    /\ OutputOff \/ OutputUnverified
    /\ UNCHANGED <<i, answered, smuUp, opVars, cancelled, half, frame, rows, faults, marks>>

StopBank ==
    /\ pc = "stop_bank" /\ Go(Outside)
    /\ BankOpenRaises("bank")
    /\ UNCHANGED <<i, answered, smuUp, opVars, cancelled, half, frame, rows, faults, marks>>

\* complete(), outside run_guarded().
Complete ==
    /\ pc = "complete" /\ pc' = Outside
    /\ \/ DbOk /\ rows' = [rows EXCEPT ![frame] = "COMPLETED"] /\ UNCHANGED exc
       \/ /\ DbRaises /\ exc' = "other"
          /\ \E r \in {rows[frame], "COMPLETED"} : rows' = [rows EXCEPT ![frame] = r]
    /\ UNCHANGED <<i, hwVars, opVars, cancelled, half, frame, marks>>

\* _run_one_charge_or_discharge_position(): a station fault rewrites the row.
Classify ==
    /\ pc = "classify" /\ Go("disconnect")
    /\ \/ exc \notin {"station", "other"} /\ UNCHANGED <<rows, faults>>
       \/ exc \in {"station", "other"} /\ DbOk /\ rows' = [rows EXCEPT !["op"] = "STATION_FAULT"]
       \/ exc \in {"station", "other"} /\ DbRaises /\ UNCHANGED rows
    /\ UNCHANGED <<i, hwVars, opVars, cancelled, half, frame, marks>>

---------------------------------------------------------------------------
(* MonitorBatterySequence.run() *)

MonitorCloses ==
    /\ pc = "monitor"
    /\ \/ Cancelled /\ Raise("cancel") /\ UNCHANGED <<live, faults>>
       \/ ~Cancelled /\ BankCloses("bank") /\ DbOk /\ Go("watch")
       \/ ~Cancelled /\ BankCloses("bank") /\ DbRaises /\ Raise("other")
       \/ ~Cancelled /\ BankCloseRaises("bank") /\ DbOk /\ \E e \in RelayFault : Raise(e)
    /\ UNCHANGED <<i, answered, smuUp, opVars, cancelled, half, frame, rows, marks>>

\* One sample: the DMM, the NTC (a DAQ fault is tolerated), the temperature
\* check, the row.
MonitorSamples ==
    /\ pc = "watch"
    /\ \/ Cancelled /\ Raise("cancel") /\ DbOk
       \/ ~Cancelled /\ DbOk /\ (Go("sleep") \/ \E e \in {"station", "safety"} : Raise(e))
       \/ ~Cancelled /\ DbRaises /\ Raise("other")
    /\ UNCHANGED <<i, hwVars, opVars, cancelled, half, frame, rows, marks>>

\* interruptible_sleep()
MonitorSleeps ==
    /\ pc = "sleep"
    /\ \/ Cancelled /\ Raise("cancel")
       \/ ~Cancelled /\ Go("watch")
    /\ UNCHANGED <<i, hwVars, opVars, cancelled, half, frame, rows, faults, marks>>

---------------------------------------------------------------------------
(* MonitorBatteryScanSequence.run(), one run_guarded() per position *)

\* The position's event stands outside run_guarded(); then check_cancellation(),
\* relay.open() and the OPEN_BEFORE samples.
ScanOpens ==
    /\ pc = "scan"
    /\ \/ DbRaises /\ pc' = Outside /\ exc' = "other" /\ UNCHANGED live
       \/ Cancelled /\ DbOk /\ Raise("cancel") /\ UNCHANGED live
       \/ ~Cancelled /\ BankOpens("bank") /\ DbOk /\ (Go("scan_close") \/ Raise("station"))
       \/ ~Cancelled /\ BankOpens("bank") /\ DbRaises /\ Raise("other")
       \/ ~Cancelled /\ BankOpenRaises("bank") /\ DbOk /\ \E e \in RelayFault : Raise(e)
    /\ UNCHANGED <<i, answered, smuUp, opVars, cancelled, half, frame, rows, marks>>

\* relay.close(), the CLOSED samples, DAQ channel 0 at best effort.
ScanCloses ==
    /\ pc = "scan_close"
    /\ \/ BankCloses("bank") /\ DbOk /\ (Go("scan_dwell") \/ Raise("station"))
       \/ BankCloses("bank") /\ DbRaises /\ Raise("other")
       \/ BankCloseRaises("bank") /\ DbOk /\ \E e \in RelayFault : Raise(e)
    /\ UNCHANGED <<i, answered, smuUp, opVars, cancelled, half, frame, rows, marks>>

\* _monitor_dwell(): bounded by dwell_s, every sleep interruptible.
ScanDwells ==
    /\ pc = "scan_dwell"
    /\ \/ Cancelled /\ Raise("cancel") /\ DbOk
       \/ ~Cancelled /\ DbOk /\ (Go("scan_reopen") \/ Raise("station"))
       \/ ~Cancelled /\ DbRaises /\ Raise("other")
    /\ UNCHANGED <<i, hwVars, opVars, cancelled, half, frame, rows, marks>>

\* relay.open(), the OPEN_AFTER samples, and on to the next position.
ScanReopens ==
    /\ pc = "scan_reopen"
    /\ \/ /\ BankOpens("bank") /\ DbOk
          /\ IF i < NumPositions THEN Go("scan") /\ i' = i + 1 ELSE Go("complete") /\ UNCHANGED i
       \/ BankOpens("bank") /\ DbOk /\ Raise("station") /\ UNCHANGED i
       \/ BankOpens("bank") /\ DbRaises /\ Raise("other") /\ UNCHANGED i
       \/ BankOpenRaises("bank") /\ DbOk /\ (\E e \in RelayFault : Raise(e)) /\ UNCHANGED i
    /\ UNCHANGED <<answered, smuUp, opVars, cancelled, half, frame, rows, marks>>

---------------------------------------------------------------------------
(* ProtoTestSequence.run(); its except branches are run_guarded()'s, but for *)
(* the timeout, and no sense path is involved                                *)

\* log_event() before the try, check_cancellation(), relay.close().
ProtoCloses ==
    /\ pc = "proto"
    /\ \/ DbRaises /\ pc' = Outside /\ exc' = "other" /\ UNCHANGED live
       \/ Cancelled /\ DbOk /\ Raise("cancel") /\ UNCHANGED live
       \/ ~Cancelled /\ BankCloses("bank") /\ DbOk /\ Go("proto_source")
       \/ ~Cancelled /\ BankCloses("bank") /\ DbRaises /\ Raise("other")
       \/ ~Cancelled /\ BankCloseRaises("bank") /\ DbOk /\ \E e \in RelayFault : Raise(e)
    /\ UNCHANGED <<i, answered, smuUp, opVars, cancelled, half, frame, rows, marks>>

\* source_dc_voltage_point() and record_measurement(). An output that does not
\* verify off after the hold is logged as CRITICAL, and the call returns all the
\* same. The database may raise in the DMM callback (an SMUError then) or in
\* record_measurement().
ProtoSources ==
    /\ pc = "proto_source"
    /\ \/ smuUp /\ Becomes("smu", {FALSE}) /\ DbOk /\ Go("proto_open") /\ UNCHANGED marks
       \/ /\ smuUp /\ Becomes("smu", BOOLEAN) /\ DbOk /\ Go("proto_open")
          /\ marks' = marks \cup {"unverified"}
       \/ /\ smuUp /\ Becomes("smu", BOOLEAN) /\ DbRaises /\ UNCHANGED marks
          /\ \E e \in {"station", "other"} : Raise(e)
       \/ /\ Becomes("smu", IF smuUp THEN BOOLEAN ELSE {live["smu"]}) /\ DbOk
          /\ Raise("station") /\ UNCHANGED marks
       \/ smuUp /\ Cancelled /\ Becomes("smu", BOOLEAN) /\ DbOk /\ Raise("cancel") /\ UNCHANGED marks
    /\ UNCHANGED <<i, answered, smuUp, opVars, cancelled, half, frame, rows>>

\* The try's else: what raises here meets no handler, and the row stays open.
ProtoOpens ==
    /\ pc = "proto_open"
    /\ \/ /\ BankOpens("bank") /\ DbOk
          /\ IF i < NumPositions THEN Go("proto") /\ i' = i + 1 ELSE Go("complete") /\ UNCHANGED i
       \/ BankOpens("bank") /\ DbRaises /\ pc' = Outside /\ exc' = "other" /\ UNCHANGED i
       \/ /\ BankOpenRaises("bank") /\ DbOk /\ pc' = Outside /\ exc' \in RelayFault
          /\ UNCHANGED i
    /\ UNCHANGED <<answered, smuUp, opVars, cancelled, half, frame, rows, marks>>

---------------------------------------------------------------------------
(* ChargeSequence.run(), DischargeSequence.run() with their sense path *)

PhaseCloses ==
    /\ pc = "run"
    /\ \/ Cancelled /\ Raise("cancel") /\ UNCHANGED <<live, faults>>
       \/ ~Cancelled /\ BankCloses("bank") /\ DbOk /\ Go("sense")
       \/ ~Cancelled /\ BankCloses("bank") /\ DbRaises /\ Raise("other")
       \/ ~Cancelled /\ BankCloseRaises("bank") /\ DbOk /\ \E e \in RelayFault : Raise(e)
    /\ UNCHANGED <<i, answered, smuUp, opVars, cancelled, half, frame, rows, marks>>

\* sense_router.connect() and its event, before the try that disconnects it.
SenseConnects ==
    /\ pc = "sense"
    /\ \/ ~UsesSense /\ Go("arm") /\ DbOk /\ UNCHANGED <<live, marks>>
       \/ UsesSense /\ BankCloses("sense") /\ DbOk /\ Go("arm") /\ marks' = marks \cup {"sensed"}
       \/ UsesSense /\ BankCloses("sense") /\ DbRaises /\ Raise("other") /\ marks' = marks \cup {"sensed"}
       \/ /\ UsesSense /\ BankCloseRaises("sense") /\ DbOk /\ \E e \in RelayFault : Raise(e)
          /\ marks' = marks \cup {"sense fault"}
    /\ UNCHANGED <<i, answered, smuUp, opVars, cancelled, half, frame, rows>>

\* An exception inside the sense path's try.
Unwind(e) == exc' = e /\ pc' = "release"

\* Polarity check, mode, output_enable(), and the event before the SMU's try.
PhaseArms ==
    /\ pc = "arm"
    /\ \/ DbOk /\ UNCHANGED live /\ \E e \in {"station", "safety"} : Unwind(e)
       \/ smuUp /\ Becomes("smu", BOOLEAN) /\ DbOk /\ \E e \in {"station", "other"} : Unwind(e)
       \/ smuUp /\ Becomes("smu", {TRUE}) /\ DbOk /\ Go("sample")
       \/ smuUp /\ Becomes("smu", {TRUE}) /\ DbRaises /\ Unwind("other")
    /\ UNCHANGED <<i, answered, smuUp, opVars, cancelled, half, frame, rows, marks>>

PhaseSamples ==
    /\ pc = "sample" /\ pc' = "inner_off"
    /\ \/ exc' \in {"none", "safety", "timeout", "station", "other"} /\ DbOk
       \/ Cancelled /\ exc' = "cancel" /\ DbOk
       \/ DbRaises /\ exc' = "other"
    /\ UNCHANGED <<i, hwVars, opVars, cancelled, half, frame, rows, marks>>

\* A finally whose verdict nobody looks at.
PhaseFinallyUnchecked ==
    /\ pc = "inner_off" /\ DbOk
    /\ OutputOff \/ OutputUnverified
    /\ Go(IF exc = "none" THEN "reopen" ELSE "release")
    /\ UNCHANGED <<i, answered, smuUp, opVars, cancelled, half, frame, rows, marks>>

\* emergency_output_off() and its event, in the finally.
PhaseFinally ==
    /\ pc = "inner_off"
    /\ \/ OutputOff /\ DbOk /\ Go(IF exc = "none" THEN "reopen" ELSE "release")
       \/ OutputUnverified /\ DbOk /\ Go(IF exc = "none" THEN "escalate" ELSE "release")
       \/ (OutputOff \/ OutputUnverified) /\ DbRaises /\ Unwind("other")
    /\ UNCHANGED <<i, answered, smuUp, opVars, cancelled, half, frame, rows, marks>>

\* open_all() at best effort, then the SAFETY FAULT screen.
PhaseEscalates ==
    /\ pc = "escalate" /\ BankOpenRaises("bank") /\ pc' = "phase_ack"
    /\ UNCHANGED <<i, answered, smuUp, opVars, cancelled, exc, half, frame, rows, faults, marks>>

PhaseReopens ==
    /\ pc = "reopen"
    /\ \/ BankOpens("bank") /\ DbOk /\ Go("release")
       \/ BankOpens("bank") /\ DbRaises /\ Unwind("other")
       \/ BankOpenRaises("bank") /\ DbOk /\ \E e \in RelayFault : Unwind(e)
    /\ UNCHANGED <<i, answered, smuUp, opVars, cancelled, half, frame, rows, marks>>

\* The finally of the sense path: whatever it raises is swallowed.
SenseReleases ==
    /\ pc = "release" /\ Go(IF exc = "none" THEN "complete" ELSE "handler")
    /\ \/ ~UsesSense /\ UNCHANGED <<live, marks>>
       \/ UsesSense /\ BankOpens("sense") /\ UNCHANGED marks
       \/ UsesSense /\ BankOpenRaises("sense") /\ marks' = marks \cup {"sense fault"}
    /\ UNCHANGED <<i, answered, smuUp, opVars, cancelled, half, frame, rows, faults>>

---------------------------------------------------------------------------
(* CycleSequence.run() *)

\* _make_phase_storage(): a new DataStorage and its run_summary row.
PhaseBegins(h) ==
    /\ DbOk /\ Go("run") /\ half' = h /\ frame' = "phase"
    /\ rows' = [rows EXCEPT !["phase"] = "open"]

CycleFails(e) == Raise(e) /\ UNCHANGED <<half, frame, rows>>

CycleRepeats ==
    /\ pc = "repeat"
    /\ \/ Cancelled /\ DbOk /\ CycleFails("cancel")
       \/ ~Cancelled /\ PhaseBegins("charge")
       \/ ~Cancelled /\ DbRaises /\ CycleFails("other")
    /\ UNCHANGED <<i, hwVars, opVars, cancelled, marks>>

\* check_cancellation(), the interruptible rest, the discharge phase's storage.
CycleRests ==
    /\ pc = "rest"
    /\ \/ Cancelled /\ DbOk /\ CycleFails("cancel")
       \/ ~Cancelled /\ PhaseBegins("discharge")
       \/ ~Cancelled /\ DbRaises /\ CycleFails("other")
    /\ UNCHANGED <<i, hwVars, opVars, cancelled, marks>>

AfterPhase ==
    /\ frame' = "op"
    /\ \/ exc' # "none" /\ pc' = "handler" /\ UNCHANGED i
       \/ exc' = "none" /\ half = "charge" /\ pc' = "rest" /\ UNCHANGED i
       \/ exc' = "none" /\ half = "discharge" /\ i < CycleCount /\ pc' = "repeat" /\ i' = i + 1
       \/ exc' = "none" /\ half = "discharge" /\ i = CycleCount /\ pc' = "complete" /\ UNCHANGED i

\* A phase closed without _reclassify_phase_as_station_fault().
PhaseEndsAsRecorded ==
    /\ pc = "phase_end" /\ DbOk /\ UNCHANGED <<exc, rows>> /\ AfterPhase
    /\ UNCHANGED <<hwVars, opVars, cancelled, half, marks>>

\* _reclassify_phase_as_station_fault(), on the phase's own storage.
ReclassifyPhase == [rows EXCEPT !["phase"] = "STATION_FAULT"]

\* A station exception rewrites the phase's row; the finally closes its storage;
\* an event ends the repetition.
PhaseEnds ==
    /\ pc = "phase_end"
    /\ \/ /\ DbOk /\ UNCHANGED exc
          /\ rows' = IF exc = "station" THEN ReclassifyPhase ELSE rows
       \/ /\ exc = "station" \/ (exc = "none" /\ half = "discharge")
          /\ DbRaises /\ exc' = "other" /\ UNCHANGED rows
    /\ AfterPhase
    /\ UNCHANGED <<hwVars, opVars, cancelled, half, marks>>

---------------------------------------------------------------------------

Program ==
    \/ SweepConnects \/ SweepSafes \/ Connect \/ BeginRun \/ Precheck
    \/ DisconnectOutput \/ DisconnectBank \/ DisconnectSessions
    \/ HandlerRecords \/ FinalReading \/ HandlerFinishes \/ StopOutput \/ StopBank
    \/ Complete \/ Classify
    \/ MonitorCloses \/ MonitorSamples \/ MonitorSleeps
    \/ ScanOpens \/ ScanCloses \/ ScanDwells \/ ScanReopens
    \/ ProtoCloses \/ ProtoSources \/ ProtoOpens
    \/ PhaseCloses \/ SenseConnects \/ PhaseArms \/ PhaseSamples \/ PhaseFinally
    \/ PhaseEscalates \/ PhaseReopens \/ SenseReleases
    \/ CycleRepeats \/ CycleRests \/ PhaseEnds

Next == Program \/ Acknowledge \/ ChooseOperation \/ LeaveMenu \/ CtrlC

Spec == Init /\ [][Next]_vars

\* The console's thread runs on; the operator chooses, acknowledges, or not.
FairSpec == Spec /\ WF_vars(Program)

---------------------------------------------------------------------------
(* Properties *)

TypeOK ==
    /\ i \in Nat /\ live \in [Device -> BOOLEAN] /\ answered \subseteq Device
    /\ op \in Operation /\ ops \in 0..MaxOps /\ exc \in Exception
    /\ routed \in BOOLEAN /\ smuUp \in BOOLEAN /\ cancelled \in BOOLEAN
    /\ half \in {"charge", "discharge"} /\ frame \in {"op", "phase"}
    /\ rows \in [{"op", "phase"} -> {"none", "open"} \cup StopReason]
    /\ faults \in 0..MaxFaults /\ marks \subseteq {"sensed", "sense fault", "unverified"}

\* The operator sees the menu only when every device the sweep reached is safe,
\* whatever an earlier process left on: run_startup_safety_sweep() never passes
\* over a device that answered and did not verify.
MenuMeansSafe == pc = "menu" /\ ops = 0 => \A d \in answered : ~live[d]

\* Between two uses of a battery nothing is connected: a cycle rests, and a scan
\* or a proto test goes to its next relay, with the bank open and (where this
\* operation sources) the output off, unless source_dc_voltage_point() logged
\* otherwise. CycleSequence.run() relies on its phases and checks nothing itself.
BetweenIsDead ==
    pc = "rest" \/ (pc \in {"scan", "proto", "repeat"} /\ i > 1)
        => ~live["bank"] /\ (op # "scan" /\ "unverified" \notin marks => ~live["smu"])

\* When an operation is over, the sense path it closed is open again, unless the
\* sense bank itself failed. One failing database call cannot leave it closed,
\* although log_event() stands between connect() and the try that disconnects:
\* run_guarded()'s final reading reconnects and releases it, once per level.
SenseReleased ==
    pc = "menu" /\ "sensed" \in marks /\ live["sense"]
        => "sense fault" \in marks \/ faults >= (IF op = "cycle" THEN 3 ELSE 2)

\* As long as the database answers, the cycle's row and the row of its last
\* phase tell the same story: the same stop_reason, or a cancellation between
\* two phases. Only an exception outside STATION_HARDWARE_EXCEPTIONS splits them
\* (the outer classification calls it a station fault, the phase's row FAILED).
CycleRowsAgree ==
    pc = "menu" /\ op = "cycle" /\ faults = 0 /\ rows["phase"] # "none" =>
        \/ rows["op"] = rows["phase"]
        \/ rows["op"] = "CANCELLED" /\ rows["phase"] = "COMPLETED"
        \/ exc = "other" /\ rows["op"] = "STATION_FAULT" /\ rows["phase"] = "FAILED"

\* After Ctrl+C every operation comes back to the menu, or waits for the operator
\* at a SAFETY FAULT screen and, once acknowledged, goes on to the menu or to the
\* next screen; Monitor Battery, which has no other end, too.
CancelledEnds == cancelled ~> pc \in {"menu", "exit"} \cup Screens

=============================================================================

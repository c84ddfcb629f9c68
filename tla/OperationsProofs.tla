-------------------------- MODULE OperationsProofs --------------------------
(***************************************************************************)
(* Proofs about Operations, for every number of positions, repetitions,    *)
(* operations and failing database calls.                                  *)
(*                                                                         *)
(* Each invariant follows one thing through the steps that can touch it:   *)
(* the devices the sweep has reached (SweepInv), the bank and the output   *)
(* between two uses of a battery (DeadInv), the sense path and the number  *)
(* of failed calls it takes to leave it closed (SenseInv), the two rows of *)
(* a cycle (RowInv).                                                       *)
(***************************************************************************)
EXTENDS Operations, TLAPS

---------------------------------------------------------------------------
(* The steps by what they do to the devices *)

\* The steps of run_startup_safety_sweep().
Sweep == SweepConnects \/ SweepSafes

\* The steps of run_guarded() that touch no device.
GuardRecords == HandlerRecords \/ HandlerFinishes \/ Complete \/ Classify

\* The other steps of an operation that touch no device.
Quiet == BeginRun \/ MonitorSamples \/ MonitorSleeps \/ ScanDwells \/ PhaseSamples
         \/ CycleRepeats \/ CycleRests \/ PhaseEnds

\* The steps that switch the positions' bank.
Switch == Precheck \/ StopBank \/ MonitorCloses \/ ScanOpens \/ ScanCloses \/ ScanReopens
          \/ ProtoCloses \/ ProtoOpens \/ PhaseCloses \/ PhaseEscalates \/ PhaseReopens
          \/ DisconnectBank

\* The steps that turn the output on or off.
Source == DisconnectOutput \/ StopOutput \/ ProtoSources \/ PhaseArms \/ PhaseFinally

\* The steps that switch the sense bank.
Sense == FinalReading \/ SenseConnects \/ SenseReleases

\* The end of a SAFETY FAULT screen and of disconnect_all().
Passing == Acknowledge \/ DisconnectSessions

\* Every step is of one of these kinds.
LEMMA StepKinds ==
    ASSUME [Next]_vars
    PROVE  \/ Sweep \/ Connect \/ GuardRecords \/ Quiet \/ Switch \/ Source \/ Sense
           \/ Passing \/ ChooseOperation \/ LeaveMenu \/ CtrlC \/ UNCHANGED vars
BY Zenon DEF Next, Program, Sweep, GuardRecords, Quiet, Switch, Source, Sense, Passing

\* What an assignment to one device leaves of the others.
LEMMA BecomesOne ==
    ASSUME DOMAIN live = Device, NEW d \in Device, NEW states, Becomes(d, states)
    PROVE  /\ DOMAIN live' = Device
           /\ \A e \in Device \ {d} : live'[e] = live[e]
           /\ \E s \in states : live'[d] = s
BY DEF Becomes

\* The devices by name.
LEMMA DeviceNames == Device = {"smu", "spare smu", "bank", "sense"}
<1>1. Len(Devices) = 4 /\ 1..4 = {1, 2, 3, 4}
  BY DEF Devices
<1>2. Devices[1] = "smu" /\ Devices[2] = "spare smu" /\ Devices[3] = "bank" /\ Devices[4] = "sense"
  BY DEF Devices
<1> QED BY <1>1, <1>2 DEF Device

\* The steps that switch a bank, or the output, leave the other devices alone.
LEMMA DeviceFrame ==
    ASSUME DOMAIN live = Device
    PROVE  /\ GuardRecords \/ Quiet => live' = live
           /\ Switch => DOMAIN live' = Device
                        /\ \A e \in Device \ {"bank"} : live'[e] = live[e]
           /\ Source => DOMAIN live' = Device
                        /\ \A e \in Device \ {"smu"} : live'[e] = live[e]
           /\ Sense => DOMAIN live' = Device
                       /\ \A e \in Device \ {"sense"} : live'[e] = live[e]
<1>1. GuardRecords \/ Quiet => live' = live
  BY DEF GuardRecords, HandlerRecords, HandlerFinishes, Complete, Classify, Quiet, BeginRun,
     MonitorSamples, MonitorSleeps, ScanDwells, PhaseSamples, CycleRepeats, CycleRests,
     PhaseEnds, hwVars
<1>2. Switch => live' = live \/ \E states : Becomes("bank", states)
  BY Zenon DEF Switch, Precheck, StopBank, DisconnectBank, MonitorCloses, ScanOpens, ScanCloses,
     ScanReopens,
     ProtoCloses, ProtoOpens, PhaseCloses, PhaseEscalates, PhaseReopens,
     BankOpens, BankOpenRaises, BankCloses, BankCloseRaises
<1>3. Source => live' = live \/ \E states : Becomes("smu", states)
  BY Zenon DEF Source, DisconnectOutput, StopOutput, ProtoSources, PhaseArms, PhaseFinally,
     OutputOff, OutputUnverified
<1>4. Sense => live' = live \/ \E states : Becomes("sense", states)
  BY Zenon DEF Sense, FinalReading, SenseConnects, SenseReleases,
     BankOpens, BankOpenRaises, BankCloses, BankCloseRaises
<1>5. "bank" \in Device /\ "smu" \in Device /\ "sense" \in Device
  BY DeviceNames
<1> QED BY <1>1, <1>2, <1>3, <1>4, <1>5, BecomesOne, Zenon

---------------------------------------------------------------------------
(* Types *)

LiveType == live \in [Device -> BOOLEAN]
FlagType == routed \in BOOLEAN /\ smuUp \in BOOLEAN /\ cancelled \in BOOLEAN
RowType == rows \in [{"op", "phase"} -> {"none", "open"} \cup StopReason]
CountType == i \in Nat /\ ops \in 0..MaxOps /\ faults \in 0..MaxFaults
NameType ==
    /\ answered \subseteq Device /\ op \in Operation /\ exc \in Exception
    /\ half \in {"charge", "discharge"} /\ frame \in {"op", "phase"}
    /\ marks \subseteq {"sensed", "sense fault", "unverified"}

\* A device is on or off after a driver call.
LEMMA BecomesType ==
    ASSUME LiveType, NEW d \in Device, NEW states \in SUBSET BOOLEAN, Becomes(d, states)
    PROVE  LiveType'
BY Zenon DEF Becomes, LiveType

\* The outputs and relays stay Boolean.
LEMMA LiveTypeStep ==
    ASSUME LiveType, [Next]_vars
    PROVE  LiveType'
<1>1. "bank" \in Device /\ "smu" \in Device /\ "sense" \in Device
  BY DeviceNames
<1>2. \A d \in Device : {live[d], FALSE} \in SUBSET BOOLEAN /\ {live[d]} \in SUBSET BOOLEAN
  BY Zenon DEF LiveType
<1>3. {TRUE} \in SUBSET BOOLEAN /\ {FALSE} \in SUBSET BOOLEAN /\ BOOLEAN \in SUBSET BOOLEAN
  BY Zenon
<1>a. \A d \in Device : BankOpens(d) \/ BankOpenRaises(d) \/ BankCloses(d) \/ BankCloseRaises(d)
                          => LiveType'
  BY <1>2, <1>3, BecomesType, Zenon DEF BankOpens, BankOpenRaises, BankCloses, BankCloseRaises
<1>b. OutputOff \/ OutputUnverified => LiveType'
  <2>1. live' = live => LiveType'
    BY Zenon DEF LiveType
  <2> QED BY <1>1, <1>2, <1>3, <2>1, BecomesType, Zenon DEF OutputOff, OutputUnverified
<1>4. CASE live' = live
  BY <1>4, Zenon DEF LiveType
<1>5. CASE Switch
  BY <1>1, <1>a, <1>4, <1>5, Zenon DEF Switch, Precheck, StopBank, DisconnectBank, MonitorCloses,
     ScanOpens,
     ScanCloses, ScanReopens, ProtoCloses, ProtoOpens, PhaseCloses, PhaseEscalates, PhaseReopens
<1>6. CASE Source
  <2>1. CASE ProtoSources
    <3>1. (IF smuUp THEN BOOLEAN ELSE {live["smu"]}) \in SUBSET BOOLEAN
      BY <1>1, <1>2, <1>3, Zenon
    <3> QED BY <1>1, <1>2, <1>3, <2>1, <3>1, BecomesType, Zenon DEF ProtoSources
  <2>2. CASE PhaseArms
    BY <1>1, <1>3, <1>4, <2>2, BecomesType, Zenon DEF PhaseArms
  <2>3. CASE DisconnectOutput \/ StopOutput \/ PhaseFinally
    BY <1>b, <2>3, Zenon DEF DisconnectOutput, StopOutput, PhaseFinally
  <2> QED BY <1>6, <2>1, <2>2, <2>3, Zenon DEF Source
<1>7. CASE Sense
  BY <1>1, <1>a, <1>4, <1>7, Zenon DEF Sense, FinalReading, SenseConnects, SenseReleases
<1>8. CASE SweepSafes
  <2>1. CASE Devices[i] \in Device
    BY <1>2, <1>3, <1>8, <2>1, BecomesType, Zenon DEF SweepSafes
  <2>2. CASE Devices[i] \notin Device
    <3>1. \A s : [live EXCEPT ![Devices[i]] = s] = live
      BY <2>2 DEF LiveType
    <3> QED BY <1>4, <1>8, <3>1, Zenon DEF SweepSafes, Becomes
  <2> QED BY <2>1, <2>2
<1>9. CASE Connect
  BY <1>9, Zenon DEF Connect, LiveType
<1> QED BY <1>4, <1>5, <1>6, <1>7, <1>8, <1>9, StepKinds, DeviceFrame, Zenon
        DEF Sweep, SweepConnects, Passing, Acknowledge, DisconnectSessions, ChooseOperation,
            LeaveMenu, CtrlC, hwVars, vars, LiveType

\* No step outside the console's own choice changes the operation, and a call on
\* the database that raises is counted.
LEMMA OperationFrame ==
    ASSUME GuardRecords \/ Quiet \/ Switch \/ Source \/ Sense
    PROVE  /\ op' = op /\ ops' = ops /\ routed' = routed /\ cancelled' = cancelled
           /\ answered' = answered
           /\ faults' = faults \/ (faults < MaxFaults /\ faults' = faults + 1)
           /\ pc \notin {"sweep_connect", "sweep_safe", "sweep_ack", "menu", "exit", "connect"}
<1>1. CASE GuardRecords
  BY <1>1 DEF GuardRecords, HandlerRecords, HandlerFinishes, Complete, Classify, DbOk, DbRaises,
     opVars, hwVars
<1>2. CASE Quiet
  BY <1>2 DEF Quiet, BeginRun, MonitorSamples, MonitorSleeps, ScanDwells, PhaseSamples,
     CycleRepeats, CycleRests, PhaseBegins, PhaseEnds, DbOk, DbRaises, opVars, hwVars
<1>3. CASE Switch
  BY <1>3 DEF Switch, Precheck, StopBank, DisconnectBank, MonitorCloses, ScanOpens, ScanCloses,
     ScanReopens,
     ProtoCloses, ProtoOpens, PhaseCloses, PhaseEscalates, PhaseReopens, DbOk, DbRaises, opVars
<1>4. CASE Source
  BY <1>4 DEF Source, DisconnectOutput, StopOutput, ProtoSources, PhaseArms, PhaseFinally,
     DbOk, DbRaises, opVars
<1>5. CASE Sense
  BY <1>5 DEF Sense, FinalReading, SenseConnects, SenseReleases, DbOk, DbRaises, opVars
<1> QED BY <1>1, <1>2, <1>3, <1>4, <1>5

\* The position or repetition is counted from one.
LEMMA IndexStep ==
    ASSUME i \in Nat, [Next]_vars
    PROVE  i' \in Nat
<1>1. CASE Sweep
  BY <1>1 DEF Sweep, SweepConnects, SweepSafes, NextDevice
<1>2. CASE GuardRecords
  BY <1>2 DEF GuardRecords, HandlerRecords, HandlerFinishes, Complete, Classify
<1>3. CASE Quiet
  BY <1>3 DEF Quiet, BeginRun, MonitorSamples, MonitorSleeps, ScanDwells, PhaseSamples,
     CycleRepeats, CycleRests, PhaseEnds, AfterPhase
<1>4. CASE Switch
  BY <1>4 DEF Switch, Precheck, StopBank, DisconnectBank, MonitorCloses, ScanOpens, ScanCloses,
     ScanReopens,
     ProtoCloses, ProtoOpens, PhaseCloses, PhaseEscalates, PhaseReopens
<1>5. CASE Source \/ Sense
  BY <1>5 DEF Source, DisconnectOutput, StopOutput, ProtoSources, PhaseArms, PhaseFinally,
     Sense, FinalReading, SenseConnects, SenseReleases
<1>6. CASE Connect
  BY <1>6, Zenon DEF Connect
<1>7. CASE Passing \/ ChooseOperation \/ LeaveMenu \/ CtrlC \/ UNCHANGED vars
  BY <1>7 DEF Passing, Acknowledge, DisconnectSessions, ChooseOperation, LeaveMenu, CtrlC, vars
<1> QED BY <1>1, <1>2, <1>3, <1>4, <1>5, <1>6, <1>7, StepKinds

\* The rows hold a stop_reason, or none yet.
LEMMA RowTypeStep ==
    ASSUME RowType, NameType, [Next]_vars
    PROVE  RowType'
<1>0. ASSUME NEW f \in {"op", "phase"}, NEW r \in {"none", "open"} \cup StopReason
      PROVE  [rows EXCEPT ![f] = r] \in [{"op", "phase"} -> {"none", "open"} \cup StopReason]
  BY Zenon DEF RowType
<1>1. CASE rows' = rows
  BY <1>1 DEF RowType
<1>2. CASE \E f \in {"op", "phase"}, r \in {"none", "open"} \cup StopReason :
              rows' = [rows EXCEPT ![f] = r]
  BY <1>0, <1>2, Zenon DEF RowType
<1>3. CASE ChooseOperation
  BY <1>3 DEF ChooseOperation, RowType
<1>4. CASE HandlerFinishes
  <2>1. RecordOf(exc) \in StopReason
    BY DEF RecordOf, StopReason
  <2> QED BY <1>1, <1>2, <1>4, <2>1 DEF HandlerFinishes, NameType
<1>5. CASE Complete
  <2>1. rows[frame] \in {"none", "open"} \cup StopReason /\ frame \in {"op", "phase"}
    BY DEF RowType, NameType
  <2> QED BY <1>2, <1>5, <2>1 DEF Complete, StopReason
<1>6. CASE Classify \/ BeginRun \/ Precheck \/ CycleRepeats \/ CycleRests \/ PhaseEnds
  <2>1. {"none", "open"} \cup StopReason = {"none", "open", "CANCELLED", "SAFETY_VIOLATION",
            "TIMEOUT", "FAILED", "COMPLETED", "STATION_FAULT"}
    BY DEF StopReason
  <2> QED BY <1>1, <1>2, <1>6, <2>1 DEF Classify, BeginRun, Precheck, CycleRepeats, CycleRests,
          PhaseBegins, CycleFails, PhaseEnds, ReclassifyPhase
<1>7. CASE Sweep \/ Connect \/ HandlerRecords \/ Source \/ Sense \/ Passing \/ LeaveMenu \/ CtrlC
  BY <1>1, <1>7 DEF Sweep, SweepConnects, SweepSafes, Connect, HandlerRecords, Source,
     DisconnectOutput,
     StopOutput, ProtoSources, PhaseArms, PhaseFinally, Sense, FinalReading, SenseConnects,
     SenseReleases, Passing, Acknowledge, DisconnectSessions, LeaveMenu, CtrlC
<1>8. CASE Quiet \/ Switch
  BY <1>1, <1>6, <1>8 DEF Quiet, MonitorSamples, MonitorSleeps, ScanDwells, PhaseSamples,
     Switch, DisconnectBank, StopBank, MonitorCloses, ScanOpens, ScanCloses, ScanReopens,
     ProtoCloses, ProtoOpens, PhaseCloses, PhaseEscalates, PhaseReopens
<1> QED BY <1>1, <1>3, <1>4, <1>5, <1>6, <1>7, <1>8, StepKinds DEF GuardRecords, vars

SweepRange == pc \in {"sweep_connect", "sweep_safe"} => i \in 1..Len(Devices)

\* An operation never returns to the sweep, which ends after the last device.
LEMMA SweepRangeStep ==
    ASSUME op \in Operation, SweepRange, [Next]_vars
    PROVE  SweepRange'
<1> DEFINE Elsewhere == pc' \notin {"sweep_connect", "sweep_safe"}
<1>a. Outside \notin {"sweep_connect", "sweep_safe"}
  BY DEF Outside
<1>b. FirstStep \notin {"sweep_connect", "sweep_safe"}
  BY DEF FirstStep, Operation
<1>1. CASE Sweep
  <2>1. Len(Devices) = 4
    BY DEF Devices
  <2> QED BY <1>1, <2>1 DEF Sweep, SweepConnects, SweepSafes, NextDevice, SweepRange
<1>2. GuardRecords => Elsewhere
  BY <1>a DEF GuardRecords, HandlerRecords, HandlerFinishes, Complete, Classify, Go
<1>3. Quiet => Elsewhere
  BY <1>b DEF Quiet, BeginRun, MonitorSamples, MonitorSleeps, ScanDwells, PhaseSamples, Go, Raise,
     CycleRepeats, CycleRests, PhaseBegins, CycleFails, PhaseEnds, AfterPhase
<1>4. Switch => Elsewhere
  BY <1>a DEF Switch, Precheck, StopBank, DisconnectBank, MonitorCloses, ScanOpens, ScanCloses,
     ScanReopens,
     ProtoCloses, ProtoOpens, PhaseCloses, PhaseEscalates, PhaseReopens, Go, Raise, Unwind
<1>5. Source => Elsewhere
  BY DEF Source, DisconnectOutput, StopOutput, ProtoSources, PhaseArms, PhaseFinally, Go, Raise,
     Unwind
<1>6. Sense => Elsewhere
  BY DEF Sense, FinalReading, SenseConnects, SenseReleases, Go, Raise
<1>7. Connect => Elsewhere
  BY Zenon DEF Connect
<1>8. CASE Passing \/ ChooseOperation \/ LeaveMenu \/ CtrlC \/ UNCHANGED vars
  BY <1>8 DEF Passing, Acknowledge, AfterScreen, DisconnectSessions, ChooseOperation, LeaveMenu,
     CtrlC, vars, SweepRange
<1> QED BY <1>1, <1>2, <1>3, <1>4, <1>5, <1>6, <1>7, <1>8, StepKinds DEF SweepRange

\* The names stay among those declared.
LEMMA NameTypeStep ==
    ASSUME NameType, SweepRange, [Next]_vars
    PROVE  NameType'
<1> USE DEF NameType, Exception, Operation
<1>1. CASE Sweep
  <2>1. CASE SweepConnects
    <3>1. answered' \subseteq Device
      <4>1. Devices[i] \in Device
        BY <2>1 DEF SweepConnects, SweepRange, Device
      <4> QED BY <2>1, <4>1 DEF SweepConnects
    <3> QED BY <2>1, <3>1 DEF SweepConnects, opVars
  <2>2. CASE SweepSafes
    BY <2>2 DEF SweepSafes, opVars
  <2> QED BY <1>1, <2>1, <2>2 DEF Sweep
<1>2. CASE GuardRecords
  BY <1>2 DEF GuardRecords, HandlerRecords, HandlerFinishes, Complete, Classify, Go, hwVars, opVars
<1>3. CASE Quiet
  BY <1>3 DEF Quiet, BeginRun, MonitorSamples, MonitorSleeps, ScanDwells, PhaseSamples, Go, Raise,
     CycleRepeats, CycleRests, PhaseBegins, CycleFails, PhaseEnds, AfterPhase, hwVars, opVars
<1>4. CASE Switch
  BY <1>4 DEF Switch, Precheck, StopBank, DisconnectBank, MonitorCloses, ScanOpens, ScanCloses,
     ScanReopens,
     ProtoCloses, ProtoOpens, PhaseCloses, PhaseEscalates, PhaseReopens, Go, Raise, Unwind,
     RelayFault, opVars
<1>5. CASE Source
  BY <1>5 DEF Source, DisconnectOutput, StopOutput, ProtoSources, PhaseArms, PhaseFinally, Go,
     Raise,
     Unwind, opVars
<1>6. CASE Sense
  BY <1>6 DEF Sense, FinalReading, SenseConnects, SenseReleases, Go, Raise, RelayFault, opVars
<1>7. CASE Connect
  <2>1. UNCHANGED <<answered, opVars, exc, half, frame, marks>>
    BY <1>7, Zenon DEF Connect
  <2> QED BY <2>1 DEF opVars
<1>8. CASE Passing \/ ChooseOperation \/ LeaveMenu \/ CtrlC \/ UNCHANGED vars
  BY <1>8 DEF Passing, Acknowledge, DisconnectSessions, ChooseOperation, LeaveMenu, CtrlC, hwVars,
     opVars, vars
<1> QED BY <1>1, <1>2, <1>3, <1>4, <1>5, <1>6, <1>7, <1>8, StepKinds

\* The flags stay Boolean.
LEMMA FlagTypeStep ==
    ASSUME FlagType, [Next]_vars
    PROVE  FlagType'
<1> USE DEF FlagType
<1>1. CASE Sweep \/ Passing \/ LeaveMenu \/ UNCHANGED vars
  BY <1>1, Zenon DEF Sweep, SweepConnects, SweepSafes, Passing, Acknowledge, DisconnectSessions,
     LeaveMenu, opVars, hwVars, vars
<1>2. CASE GuardRecords \/ Quiet
  <2>1. smuUp' = smuUp
    BY <1>2 DEF GuardRecords, HandlerRecords, HandlerFinishes, Complete, Classify, Quiet, BeginRun,
       MonitorSamples, MonitorSleeps, ScanDwells, PhaseSamples, CycleRepeats, CycleRests,
       PhaseEnds, hwVars
  <2> QED BY <1>2, <2>1, OperationFrame, Zenon
<1>3. CASE Switch \/ Sense
  <2>1. smuUp' = smuUp
    BY <1>3 DEF Switch, Precheck, StopBank, DisconnectBank, MonitorCloses, ScanOpens, ScanCloses,
       ScanReopens,
       ProtoCloses, ProtoOpens, PhaseCloses, PhaseEscalates, PhaseReopens, Sense, FinalReading,
       SenseConnects, SenseReleases
  <2> QED BY <1>3, <2>1, OperationFrame, Zenon
<1>4. CASE Source
  <2>1. smuUp' = smuUp
    BY <1>4 DEF Source, DisconnectOutput, StopOutput, ProtoSources, PhaseArms, PhaseFinally
  <2> QED BY <1>4, <2>1, OperationFrame, Zenon
<1>5. CASE Connect
  <2>1. routed' = routed /\ cancelled' = cancelled
    BY <1>5, Zenon DEF Connect, opVars
  <2>2. (\E up : smuUp' = ("smu" \in up)) \/ smuUp' = FALSE
    BY <1>5, Zenon DEF Connect
  <2>3. ASSUME NEW up PROVE ("smu" \in up) \in BOOLEAN
    OBVIOUS
  <2>4. smuUp' \in BOOLEAN
    BY <2>2, <2>3, Zenon
  <2> QED BY <2>1, <2>4, Zenon
<1>6. CASE ChooseOperation \/ CtrlC
  BY <1>6, Zenon DEF ChooseOperation, CtrlC, opVars, hwVars
<1> QED BY <1>1, <1>2, <1>3, <1>4, <1>5, <1>6, StepKinds

\* The counters stay within their bounds.
LEMMA CountTypeStep ==
    ASSUME CountType, [Next]_vars
    PROVE  CountType'
<1> USE OperationsAssumption DEF CountType
<1>0. i' \in Nat
  BY IndexStep
<1>1. CASE GuardRecords \/ Quiet \/ Switch \/ Source \/ Sense
  <2>1. ops' = ops /\ (faults' = faults \/ (faults < MaxFaults /\ faults' = faults + 1))
    BY <1>1, OperationFrame
  <2> QED BY <1>0, <2>1
<1>2. CASE Sweep \/ Passing \/ LeaveMenu \/ CtrlC \/ UNCHANGED vars
  <2>1. ops' = ops /\ faults' = faults
    BY <1>2 DEF Sweep, SweepConnects, SweepSafes, Passing, Acknowledge, DisconnectSessions,
       LeaveMenu, CtrlC, opVars, vars
  <2> QED BY <1>0, <2>1
<1>3. CASE Connect
  <2>1. ops' = ops /\ (faults' = faults \/ (faults < MaxFaults /\ faults' = faults + 1))
    BY <1>3, Zenon DEF Connect, opVars, DbOk, DbRaises
  <2> QED BY <1>0, <2>1
<1>4. CASE ChooseOperation
  BY <1>0, <1>4 DEF ChooseOperation
<1> QED BY <1>1, <1>2, <1>3, <1>4, StepKinds

Typed == TypeOK /\ SweepRange

\* Typed holds initially and every step keeps it.
LEMMA TypeInductive ==
    /\ Init => Typed
    /\ Typed /\ [Next]_vars => Typed'
<1>t. Typed <=> LiveType /\ FlagType /\ RowType /\ CountType /\ NameType /\ SweepRange
  BY Zenon DEF Typed, TypeOK, LiveType, FlagType, RowType, CountType, NameType
<1>1. ASSUME Init PROVE Typed
  <2>1. LiveType /\ FlagType
    BY <1>1, Zenon DEF Init, LiveType, FlagType
  <2>2. RowType /\ NameType
    BY <1>1 DEF Init, RowType, NameType, Operation, Exception
  <2>3. CountType
    BY <1>1, OperationsAssumption DEF Init, CountType
  <2>4. SweepRange
    <3>1. Len(Devices) = 4
      BY DEF Devices
    <3> QED BY <1>1, <3>1 DEF Init, SweepRange
  <2> QED BY <1>t, <2>1, <2>2, <2>3, <2>4
<1>2. ASSUME Typed, [Next]_vars PROVE Typed'
  <2>1. LiveType' /\ FlagType' /\ RowType' /\ CountType' /\ NameType'
    BY <1>2, <1>t, LiveTypeStep, FlagTypeStep, RowTypeStep, CountTypeStep, NameTypeStep, Zenon
  <2>2. SweepRange'
    BY <1>2, <1>t, SweepRangeStep DEF NameType
  <2> QED BY <2>1, <2>2, Zenon DEF Typed, TypeOK, LiveType, FlagType, RowType, CountType, NameType
<1> QED BY <1>1, <1>2

\* The console's state keeps its types; the sweep only looks at devices it has.
THEOREM TypeCorrect == Spec => []TypeOK
<1>1. Typed => TypeOK
  BY DEF Typed
<1> QED BY <1>1, TypeInductive, PTL DEF Spec

---------------------------------------------------------------------------
(* The startup sweep *)

\* Up to the first operation, every device that answered is safe, but for the
\* one the sweep is at.
SweepInv ==
    ops = 0 =>
      /\ pc \in {"sweep_connect", "sweep_safe", "sweep_ack", "menu", "exit"}
      /\ pc \in {"sweep_connect", "menu"} => \A d \in answered : ~live[d]
      /\ pc = "sweep_safe" => \A d \in answered \ {Devices[i]} : ~live[d]

\* SweepInv holds initially and every step keeps it.
LEMMA SweepStep ==
    /\ Init => SweepInv
    /\ Typed /\ SweepInv /\ [Next]_vars => SweepInv'
<1>1. Init => SweepInv
  BY DEF Init, SweepInv
<1>2. ASSUME Typed, SweepInv, [Next]_vars PROVE SweepInv'
  <2>t. DOMAIN live = Device /\ answered \subseteq Device /\ ops \in 0..MaxOps
    BY <1>2 DEF Typed, TypeOK
  <2>1. CASE SweepConnects
    BY <1>2, <2>1 DEF SweepConnects, NextDevice, SweepInv, opVars
  <2>2. CASE SweepSafes
    <3>1. PICK s : live' = [live EXCEPT ![Devices[i]] = s] /\ (pc' # "sweep_ack" => s = FALSE)
      BY <2>2, Zenon DEF SweepSafes, Becomes, NextDevice
    <3>2. ops = 0 => \A d \in answered : pc' # "sweep_ack" => ~live'[d]
      BY <1>2, <2>t, <2>2, <3>1 DEF SweepSafes, SweepInv
    <3>3. pc' \in {"sweep_connect", "menu", "sweep_ack"} /\ ops' = ops /\ answered' = answered
      BY <2>2 DEF SweepSafes, NextDevice, opVars
    <3> QED BY <3>2, <3>3 DEF SweepInv
  <2>3. CASE Connect
    <3>1. pc = "connect" /\ ops' = ops
      BY <2>3, Zenon DEF Connect, opVars
    <3> QED BY <1>2, <3>1 DEF SweepInv
  <2>4. CASE GuardRecords \/ Quiet \/ Switch \/ Source \/ Sense
    <3>1. pc \notin {"sweep_connect", "sweep_safe", "sweep_ack", "menu", "exit"} /\ ops' = ops
      BY <2>4, OperationFrame
    <3> QED BY <1>2, <3>1 DEF SweepInv
  <2>5. CASE ChooseOperation
    BY <2>t, <2>5, OperationsAssumption DEF ChooseOperation, SweepInv
  <2>6. CASE Passing \/ LeaveMenu \/ CtrlC \/ UNCHANGED vars
    BY <1>2, <2>6 DEF Passing, Acknowledge, Screens, AfterScreen, DisconnectSessions, LeaveMenu,
       CtrlC, vars, hwVars, opVars, SweepInv
  <2> QED BY <1>2, <2>1, <2>2, <2>3, <2>4, <2>5, <2>6, StepKinds DEF Sweep
<1> QED BY <1>1, <1>2

\* run_startup_safety_sweep() never passes over a device that answered and did
\* not verify: when the menu is first shown, all those that answered are safe.
THEOREM SweepLeavesSafe == Spec => []MenuMeansSafe
<1>1. SweepInv => MenuMeansSafe
  BY DEF SweepInv, MenuMeansSafe
<1> QED BY <1>1, TypeInductive, SweepStep, PTL DEF Spec

---------------------------------------------------------------------------
(* The order of an operation *)

Guarded == {"handler", "reading", "finish", "stop_smu", "stop_bank"}
Body == {"run", "sense", "arm", "sample", "inner_off", "escalate", "phase_ack", "reopen", "release"}

\* Where an operation can be.
ShapeInv ==
    /\ pc \in {"connect", "begin", "precheck"} => i = 1 /\ frame = "op"
    /\ pc \in {"monitor", "watch", "sleep"} => op = "monitor"
    /\ pc \in {"scan", "scan_close", "scan_dwell", "scan_reopen"} => op = "scan" /\ frame = "op"
    /\ pc \in {"proto", "proto_source", "proto_open"} => op = "proto" /\ frame = "op"
    /\ pc \in Guarded => exc # "none"
    /\ pc \in Body /\ op = "cycle" => frame = "phase"
    /\ pc \in {"sample", "inner_off"} => smuUp
    /\ pc = "reopen" => exc = "none"

\* ShapeInv holds initially and every step keeps it.
LEMMA ShapeStep ==
    /\ Init => ShapeInv
    /\ Typed /\ ShapeInv /\ [Next]_vars => ShapeInv'
<1> USE DEF Guarded, Body
<1>1. Init => ShapeInv
  BY DEF Init, ShapeInv
<1>2. ASSUME Typed, ShapeInv, [Next]_vars PROVE ShapeInv'
  <2>o. Outside \in {"phase_end", "classify", "disconnect"}
    BY DEF Outside
  <2>f. op' = op => \/ FirstStep = "precheck"
                    \/ FirstStep = "scan" /\ op = "scan"
                    \/ FirstStep = "proto" /\ op = "proto"
    BY <1>2 DEF FirstStep, Typed, TypeOK, Operation
  <2>1. CASE Sweep
    BY <2>1 DEF Sweep, SweepConnects, SweepSafes, NextDevice, ShapeInv
  <2>2. CASE Connect
    <3>1. pc = "connect" /\ pc' \in {"begin", "disconnect", "menu"} /\ i' = i /\ frame' = frame
      BY <2>2, Zenon DEF Connect
    <3> QED BY <1>2, <3>1 DEF ShapeInv
  <2>3. CASE GuardRecords
    BY <1>2, <2>3, <2>o DEF GuardRecords, HandlerRecords, HandlerFinishes, Complete, Classify, Go,
       ShapeInv
  <2>4. CASE Quiet
    <3>1. CASE BeginRun
      <4>1. op' = op /\ i' = i /\ frame' = frame /\ pc = "begin"
            /\ (pc' = FirstStep \/ pc' = "disconnect")
        BY <3>1 DEF BeginRun, opVars
      <4> QED BY <1>2, <2>f, <4>1 DEF ShapeInv
    <3>2. CASE MonitorSamples \/ MonitorSleeps \/ ScanDwells
      BY <1>2, <3>2 DEF MonitorSamples, MonitorSleeps, ScanDwells, Go, Raise, opVars, ShapeInv
    <3>3. CASE PhaseSamples
      BY <1>2, <3>3 DEF PhaseSamples, hwVars, opVars, ShapeInv
    <3>4. CASE CycleRepeats \/ CycleRests
      BY <1>2, <3>4 DEF CycleRepeats, CycleRests, PhaseBegins, CycleFails, Go, Raise, ShapeInv
    <3>5. CASE PhaseEnds
      BY <3>5 DEF PhaseEnds, AfterPhase, ShapeInv
    <3> QED BY <2>4, <3>1, <3>2, <3>3, <3>4, <3>5 DEF Quiet
  <2>5. CASE Switch
    <3>1. CASE Precheck
      BY <1>2, <3>1 DEF Precheck, opVars, ShapeInv
    <3>2. CASE StopBank \/ DisconnectBank \/ PhaseEscalates \/ PhaseReopens \/ PhaseCloses
      BY <1>2, <3>2, <2>o DEF StopBank, DisconnectBank, PhaseEscalates, PhaseReopens, PhaseCloses,
         Go, Raise, Unwind,
         RelayFault, opVars, ShapeInv
    <3>3. CASE MonitorCloses \/ ScanOpens \/ ScanCloses \/ ScanReopens
      BY <1>2, <3>3, <2>o DEF MonitorCloses, ScanOpens, ScanCloses, ScanReopens, Go, Raise,
         RelayFault, opVars, ShapeInv
    <3>4. CASE ProtoCloses \/ ProtoOpens
      BY <1>2, <3>4, <2>o DEF ProtoCloses, ProtoOpens, Go, Raise, RelayFault, opVars, ShapeInv
    <3> QED BY <2>5, <3>1, <3>2, <3>3, <3>4 DEF Switch
  <2>6. CASE Source
    <3>1. CASE DisconnectOutput \/ StopOutput \/ ProtoSources
      BY <1>2, <3>1 DEF DisconnectOutput, StopOutput, ProtoSources, Go, Raise, opVars, ShapeInv
    <3>2. CASE PhaseArms \/ PhaseFinally
      BY <1>2, <3>2 DEF PhaseArms, PhaseFinally, Go, Unwind, opVars, ShapeInv
    <3> QED BY <2>6, <3>1, <3>2 DEF Source
  <2>7. CASE Sense
    BY <1>2, <2>7 DEF Sense, FinalReading, SenseConnects, SenseReleases, Go, Raise, RelayFault,
       opVars, ShapeInv
  <2>8. CASE Passing \/ ChooseOperation \/ LeaveMenu \/ CtrlC \/ UNCHANGED vars
    BY <1>2, <2>8 DEF Passing, Acknowledge, Screens, AfterScreen, DisconnectSessions,
       ChooseOperation, LeaveMenu, CtrlC, vars, hwVars, opVars, ShapeInv
  <2> QED BY <1>2, <2>1, <2>2, <2>3, <2>4, <2>5, <2>6, <2>7, <2>8, StepKinds
<1> QED BY <1>1, <1>2

---------------------------------------------------------------------------
(* Between two uses of a battery *)

Dead == ~live["bank"] /\ ~live["smu"]

\* From the finally that verified the output off, and the relay that opened, to
\* the next use: neither comes back on. A proto test's output is off, or was
\* logged as unverified, when its relay opens.
DeadInv ==
    /\ pc = "reopen" => ~live["smu"]
    /\ pc = "release" /\ exc = "none" => Dead
    /\ pc = "complete" /\ frame = "phase" => Dead
    /\ pc = "phase_end" /\ exc = "none" => Dead
    /\ pc = "rest" \/ (pc = "repeat" /\ i > 1) => Dead
    /\ pc = "scan" /\ i > 1 => ~live["bank"]
    /\ pc = "proto_open" => ~live["smu"] \/ "unverified" \in marks
    /\ pc = "proto" /\ i > 1 => ~live["bank"] /\ (~live["smu"] \/ "unverified" \in marks)

\* DeadInv holds initially and every step keeps it.
LEMMA DeadStep ==
    /\ Init => DeadInv
    /\ Typed /\ ShapeInv /\ DeadInv /\ [Next]_vars => DeadInv'
<1> USE DEF Guarded, Body, Dead
<1>1. Init => DeadInv
  BY DEF Init, DeadInv
<1>2. ASSUME Typed, ShapeInv, DeadInv, [Next]_vars PROVE DeadInv'
  <2>t. DOMAIN live = Device /\ "bank" \in Device /\ "smu" \in Device /\ "sense" \in Device
    BY <1>2, DeviceNames DEF Typed, TypeOK
  <2>b. \A d \in Device : BankOpens(d) => ~live'[d]
    <3>1. ASSUME NEW d \in Device, BankOpens(d) PROVE ~live'[d]
      <4>1. live' = [live EXCEPT ![d] = FALSE]
        BY <3>1, Zenon DEF BankOpens, Becomes
      <4> QED BY <2>t, <4>1
    <3> QED BY <3>1
  <2>o. Outside \in {"phase_end", "classify", "disconnect"}
    BY DEF Outside
  <2>1. CASE Sweep
    BY <2>1 DEF Sweep, SweepConnects, SweepSafes, NextDevice, DeadInv
  <2>2. CASE Connect
    <3>1. pc' \in {"begin", "disconnect", "menu"}
      BY <2>2, Zenon DEF Connect
    <3> QED BY <3>1 DEF DeadInv
  <2>3. CASE GuardRecords
    <3>1. live' = live /\ frame' = frame
      BY <2>t, <2>3, DeviceFrame DEF GuardRecords, HandlerRecords, HandlerFinishes, Complete,
     Classify
    <3>2. CASE Complete
      BY <1>2, <2>o, <3>1, <3>2 DEF Complete, Outside, DeadInv
    <3>3. CASE HandlerRecords \/ HandlerFinishes \/ Classify
      BY <1>2, <2>o, <3>1, <3>3 DEF HandlerRecords, HandlerFinishes, Classify, Go, DeadInv
    <3> QED BY <2>3, <3>2, <3>3 DEF GuardRecords
  <2>4. CASE Quiet
    <3>1. live' = live
      BY <2>t, <2>4, DeviceFrame
    <3>2. CASE BeginRun
      <4>1. i' = i /\ pc = "begin" /\ (pc' = FirstStep \/ pc' = "disconnect")
        BY <3>2 DEF BeginRun
      <4>2. FirstStep \in {"precheck", "scan", "proto"}
        BY <1>2 DEF FirstStep, Typed, TypeOK, Operation
      <4> QED BY <1>2, <4>1, <4>2 DEF ShapeInv, DeadInv
    <3>3. CASE MonitorSamples \/ MonitorSleeps \/ ScanDwells \/ PhaseSamples
      BY <3>3 DEF MonitorSamples, MonitorSleeps, ScanDwells, PhaseSamples, Go, Raise, DeadInv
    <3>4. CASE CycleRepeats \/ CycleRests
      BY <3>4 DEF CycleRepeats, CycleRests, PhaseBegins, CycleFails, Go, Raise, DeadInv
    <3>5. CASE PhaseEnds
      <4>1. exc' = "none" => exc = "none"
        BY <3>5 DEF PhaseEnds
      <4>2. pc' \in {"rest", "repeat"} => exc' = "none"
        BY <3>5 DEF PhaseEnds, AfterPhase
      <4>3. pc = "phase_end" /\ frame' = "op" /\ pc' \in {"handler", "rest", "repeat", "complete"}
        BY <3>5 DEF PhaseEnds, AfterPhase
      <4> QED BY <1>2, <3>1, <4>1, <4>2, <4>3 DEF DeadInv
    <3> QED BY <2>4, <3>2, <3>3, <3>4, <3>5 DEF Quiet
  <2>5. CASE Switch
    <3>0. live'["smu"] = live["smu"]
      BY <2>t, <2>5, DeviceFrame
    <3>1. CASE Precheck
      BY <1>2, <3>1 DEF Precheck, ShapeInv, DeadInv
    <3>2. CASE StopBank
      BY <1>2, <3>2, <2>o DEF StopBank, Go, ShapeInv, DeadInv
    <3>3. CASE DisconnectBank \/ PhaseEscalates \/ PhaseCloses \/ MonitorCloses \/ ScanCloses
      BY <3>3 DEF DisconnectBank, PhaseEscalates, PhaseCloses, MonitorCloses, ScanCloses, Go,
     Raise, Unwind, DeadInv
    <3>4. CASE PhaseReopens
      <4>1. pc = "reopen" /\ pc' = "release" /\ (exc' = "none" => BankOpens("bank"))
        BY <3>4 DEF PhaseReopens, Go, Unwind, RelayFault
      <4> QED BY <1>2, <2>t, <2>b, <3>0, <4>1 DEF DeadInv
    <3>5. CASE ScanOpens \/ ProtoCloses
      BY <2>o, <3>5 DEF ScanOpens, ProtoCloses, Go, Raise, RelayFault, DeadInv
    <3>6. CASE ScanReopens
      <4>1. frame' = frame /\ pc = "scan_reopen" /\ pc' \in {"scan", "complete", "handler"}
            /\ (pc' = "scan" => BankOpens("bank"))
        BY <3>6 DEF ScanReopens, Go, Raise
      <4> QED BY <1>2, <2>t, <2>b, <4>1 DEF ShapeInv, DeadInv
    <3>7. CASE ProtoOpens
      <4>1. frame' = frame /\ pc = "proto_open" /\ marks' = marks
            /\ (pc' \in {"proto", "complete"} \/ (pc' = Outside /\ exc' # "none"))
            /\ (pc' = "proto" => BankOpens("bank"))
        BY <2>o, <3>7 DEF ProtoOpens, Go, RelayFault
      <4> QED BY <1>2, <2>t, <2>b, <2>o, <3>0, <4>1 DEF ShapeInv, DeadInv
    <3> QED BY <2>5, <3>1, <3>2, <3>3, <3>4, <3>5, <3>6, <3>7 DEF Switch
  <2>6. CASE Source
    <3>1. CASE DisconnectOutput \/ StopOutput
      BY <3>1 DEF DisconnectOutput, StopOutput, Go, DeadInv
    <3>2. CASE ProtoSources
      <4>1. pc' \in {"proto_open", "handler"}
        BY <3>2 DEF ProtoSources, Go, Raise
      <4>2. pc' = "proto_open" => BankOpens("smu") \/ "unverified" \in marks'
        BY <3>2 DEF ProtoSources, Go, Raise, BankOpens
      <4> QED BY <2>t, <2>b, <4>1, <4>2 DEF DeadInv
    <3>3. CASE PhaseArms
      BY <3>3 DEF PhaseArms, Go, Unwind, DeadInv
    <3>4. CASE PhaseFinally
      <4>1. pc = "inner_off" /\ pc' \in {"reopen", "escalate", "release"}
            /\ (pc' = "release" => exc' # "none") /\ (pc' = "reopen" => OutputOff)
        BY <3>4 DEF PhaseFinally, Go, Unwind
      <4>2. OutputOff => ~live'["smu"]
        BY <1>2, <2>t, <2>b, <4>1 DEF OutputOff, BankOpens, ShapeInv
      <4> QED BY <4>1, <4>2 DEF DeadInv
    <3> QED BY <2>6, <3>1, <3>2, <3>3, <3>4 DEF Source
  <2>7. CASE Sense
    <3>1. live'["bank"] = live["bank"] /\ live'["smu"] = live["smu"]
      BY <2>t, <2>7, DeviceFrame
    <3>2. CASE FinalReading \/ SenseConnects
      BY <3>2 DEF FinalReading, SenseConnects, Go, Raise, DeadInv
    <3>3. CASE SenseReleases
      <4>1. pc = "release" /\ pc' \in {"complete", "handler"} /\ (pc' = "complete" => exc = "none")
        BY <3>3 DEF SenseReleases, Go
      <4> QED BY <1>2, <3>1, <4>1 DEF DeadInv
    <3> QED BY <2>7, <3>2, <3>3 DEF Sense
  <2>8. CASE Passing \/ ChooseOperation \/ LeaveMenu \/ CtrlC \/ UNCHANGED vars
    BY <1>2, <2>8 DEF Passing, Acknowledge, Screens, AfterScreen, DisconnectSessions,
       ChooseOperation, LeaveMenu, CtrlC, vars, hwVars, opVars, DeadInv
  <2> QED BY <1>2, <2>1, <2>2, <2>3, <2>4, <2>5, <2>6, <2>7, <2>8, StepKinds
<1> QED BY <1>1, <1>2

\* CycleSequence.run(), the scan and the proto test go from one use of a battery
\* to the next over an open bank and a dead output.
THEOREM NothingConnectedBetween == Spec => []BetweenIsDead
<1>1. ShapeInv /\ DeadInv => BetweenIsDead
  BY DEF ShapeInv, DeadInv, Dead, BetweenIsDead
<1> QED BY <1>1, TypeInductive, ShapeStep, DeadStep, PTL DEF Spec

---------------------------------------------------------------------------
(* The sense path *)

\* The sense path was closed, is closed, and its bank never failed.
Unreleased == live["sense"] /\ "sensed" \in marks /\ "sense fault" \notin marks

\* The steps and the screens of disconnect_all().
Leaving == {"disconnect", "output_ack", "disc_bank", "bank_ack", "disc_close"}

\* Inside the try whose finally releases it, or after as many failed calls as it
\* took to get around that and around every final reading so far.
SenseInv ==
    /\ "sensed" \in marks => UsesSense
    /\ Unreleased =>
         \/ pc \in {"arm", "sample", "inner_off", "escalate", "phase_ack", "reopen", "release"}
         \/ pc \in {"handler", "reading"}
            /\ faults >= (IF op = "cycle" /\ frame = "op" THEN 2 ELSE 1)
         \/ pc = "phase_end" /\ exc # "none" /\ faults >= 2
         \/ pc \in {"classify", "menu", "exit"} \cup Leaving
            /\ faults >= (IF op = "cycle" THEN 3 ELSE 2)

\* Only the steps of the sense path mark it.
LEMMA MarkFrame ==
    ASSUME Sweep \/ Connect \/ GuardRecords \/ Quiet \/ Switch \/ Source \/ Passing
           \/ LeaveMenu \/ CtrlC
    PROVE  /\ "sensed" \in marks' <=> "sensed" \in marks
           /\ "sense fault" \in marks' <=> "sense fault" \in marks
<1>1. CASE Sweep \/ Passing \/ LeaveMenu \/ CtrlC
  BY <1>1 DEF Sweep, SweepConnects, SweepSafes, Passing, Acknowledge, DisconnectSessions, LeaveMenu,
     CtrlC
<1>2. CASE Connect
  BY <1>2, Zenon DEF Connect
<1>3. CASE GuardRecords \/ Quiet
  BY <1>3 DEF GuardRecords, HandlerRecords, HandlerFinishes, Complete, Classify, Quiet, BeginRun,
     MonitorSamples, MonitorSleeps, ScanDwells, PhaseSamples, CycleRepeats, CycleRests, PhaseEnds
<1>4. CASE Switch
  BY <1>4 DEF Switch, Precheck, StopBank, DisconnectBank, MonitorCloses, ScanOpens, ScanCloses,
     ScanReopens,
     ProtoCloses, ProtoOpens, PhaseCloses, PhaseEscalates, PhaseReopens
<1>5. CASE Source
  BY <1>5 DEF Source, DisconnectOutput, StopOutput, ProtoSources, PhaseArms, PhaseFinally
<1> QED BY <1>1, <1>2, <1>3, <1>4, <1>5

\* SenseInv holds initially and every step keeps it.
LEMMA SenseStep ==
    /\ Init => SenseInv
    /\ Typed /\ ShapeInv /\ SenseInv /\ [Next]_vars => SenseInv'
<1> USE DEF Guarded, Body, Leaving
<1>1. Init => SenseInv
  BY DEF Init, SenseInv, Unreleased
<1>2. ASSUME Typed, ShapeInv, SenseInv, [Next]_vars PROVE SenseInv'
  <2>t. /\ DOMAIN live = Device /\ "sense" \in Device /\ faults \in Nat
        /\ frame \in {"op", "phase"} /\ op \in Operation
    <3>1. DOMAIN live = Device /\ "sense" \in Device
      BY <1>2, DeviceNames DEF Typed, TypeOK
    <3>2. faults \in 0..MaxFaults /\ frame \in {"op", "phase"} /\ op \in Operation
      BY <1>2, Zenon DEF Typed, TypeOK
    <3> QED BY <3>1, <3>2, OperationsAssumption
  <2>o. /\ frame = "phase" => Outside = "phase_end"
        /\ frame # "phase" => Outside \in {"classify", "disconnect"}
    BY DEF Outside
  <2>k. \* a step outside the sense path keeps it as it is
        ASSUME GuardRecords \/ Quiet \/ Switch \/ Source
        PROVE  /\ Unreleased' => Unreleased
               /\ "sensed" \in marks' => UsesSense'
               /\ op' = op /\ faults' \in {faults, faults + 1}
    <3>1. live'["sense"] = live["sense"]
      <4>1. "sense" # "bank" /\ "sense" # "smu"
        OBVIOUS
      <4> QED BY <2>t, <2>k, <4>1, DeviceFrame
    <3>2. op' = op /\ routed' = routed /\ faults' \in {faults, faults + 1}
      BY <2>k, OperationFrame
    <3> QED BY <1>2, <2>k, <3>1, <3>2, MarkFrame DEF SenseInv, Unreleased, UsesSense
  <2>1. CASE Sweep \/ Connect \/ Passing \/ LeaveMenu \/ CtrlC
    <3>1. live'["sense"] => live["sense"]
      <4>1. CASE SweepSafes
        <5>1. PICK s \in {live[Devices[i]], FALSE} : live' = [live EXCEPT ![Devices[i]] = s]
          BY <4>1, Zenon DEF SweepSafes, Becomes
        <5> QED BY <2>t, <5>1
      <4>2. CASE Connect
        <5>1. CASE \E up : live' = [d \in Device |-> live[d] /\ d \notin up]
          BY <2>t, <5>1
        <5>2. CASE live'["sense"] = live["sense"]
          BY <5>2
        <5> QED BY <4>2, <5>1, <5>2, Zenon DEF Connect
      <4>3. CASE SweepConnects \/ Passing \/ LeaveMenu \/ CtrlC
        BY <4>3 DEF SweepConnects, Passing, Acknowledge, DisconnectSessions, LeaveMenu, CtrlC,
      hwVars
      <4> QED BY <2>1, <4>1, <4>2, <4>3 DEF Sweep
    <3>2. op' = op /\ routed' = routed
      <4>1. CASE Connect
        BY <4>1, Zenon DEF Connect, opVars
      <4> QED BY <2>1, <4>1 DEF Sweep, SweepConnects, SweepSafes, Passing, Acknowledge,
              DisconnectSessions, LeaveMenu, CtrlC, opVars
    <3>3. (Unreleased' => Unreleased) /\ ("sensed" \in marks' => UsesSense')
      BY <1>2, <2>1, <3>1, <3>2, MarkFrame DEF SenseInv, Unreleased, UsesSense
    <3>4. CASE Sweep \/ Connect
      <4>1. pc \in {"sweep_connect", "sweep_safe", "connect"}
        BY <3>4, Zenon DEF Sweep, SweepConnects, SweepSafes, Connect
      <4> QED BY <1>2, <3>3, <4>1 DEF SenseInv
    <3>5. CASE Passing \/ LeaveMenu \/ CtrlC
      BY <1>2, <3>3, <3>5 DEF Passing, Acknowledge, Screens, AfterScreen, DisconnectSessions,
         LeaveMenu, CtrlC, opVars, SenseInv
    <3> QED BY <2>1, <3>4, <3>5
  <2>3. CASE GuardRecords
    <3>0. frame' = frame
      BY <2>3 DEF GuardRecords, HandlerRecords, HandlerFinishes, Complete, Classify
    <3>1. CASE HandlerRecords
      <4>1. pc = "handler" /\ \/ pc' = "reading" /\ faults' = faults
                              \/ pc' = Outside /\ exc' = "other" /\ faults' = faults + 1
        BY <3>1 DEF HandlerRecords, Go, DbOk, DbRaises
      <4> QED BY <1>2, <2>t, <2>o, <2>3, <2>k, <3>0, <4>1 DEF SenseInv
    <3>2. CASE HandlerFinishes \/ Complete
      BY <1>2, <2>3, <2>k, <3>2 DEF HandlerFinishes, Complete, SenseInv
    <3>3. CASE Classify
      BY <1>2, <2>t, <2>3, <2>k, <3>3 DEF Classify, Go, SenseInv
    <3> QED BY <2>3, <3>1, <3>2, <3>3 DEF GuardRecords
  <2>4. CASE Quiet
    <3>1. CASE PhaseSamples
      BY <2>4, <2>k, <3>1 DEF PhaseSamples, SenseInv
    <3>2. CASE PhaseEnds
      <4>1. pc = "phase_end" /\ (exc # "none" => exc' # "none")
            /\ (exc' # "none" => pc' = "handler")
        BY <3>2 DEF PhaseEnds, AfterPhase
      <4> QED BY <1>2, <2>t, <2>4, <2>k, <4>1 DEF SenseInv
    <3>3. CASE ~PhaseSamples /\ ~PhaseEnds
      <4>1. pc \in {"begin", "watch", "sleep", "scan_dwell", "repeat", "rest"}
        BY <2>4, <3>3 DEF Quiet, BeginRun, MonitorSamples, MonitorSleeps, ScanDwells,
           CycleRepeats, CycleRests
      <4> QED BY <1>2, <2>4, <2>k, <4>1 DEF SenseInv
    <3> QED BY <3>1, <3>2, <3>3
  <2>5. CASE Switch
    <3>1. CASE PhaseEscalates \/ PhaseReopens
      BY <2>5, <2>k, <3>1 DEF PhaseEscalates, PhaseReopens, Go, Unwind, SenseInv
    <3>d. CASE DisconnectBank
      BY <1>2, <2>5, <2>k, <3>d DEF DisconnectBank, SenseInv
    <3>2. CASE ~PhaseEscalates /\ ~PhaseReopens /\ ~DisconnectBank
      <4>1. pc \in {"precheck", "stop_bank", "monitor", "scan", "scan_close", "scan_reopen",
                    "proto", "proto_open", "run"}
        BY <2>5, <3>2 DEF Switch, Precheck, StopBank, DisconnectBank, MonitorCloses, ScanOpens,
           ScanCloses,
           ScanReopens, ProtoCloses, ProtoOpens, PhaseCloses
      <4> QED BY <1>2, <2>5, <2>k, <4>1 DEF SenseInv
    <3> QED BY <3>1, <3>d, <3>2
  <2>6. CASE Source
    <3>1. CASE PhaseArms \/ PhaseFinally
      BY <2>6, <2>k, <3>1 DEF PhaseArms, PhaseFinally, Go, Unwind, SenseInv
    <3>2. CASE DisconnectOutput
      BY <1>2, <2>6, <2>k, <3>2 DEF DisconnectOutput, SenseInv
    <3>3. CASE StopOutput \/ ProtoSources
      BY <1>2, <2>6, <2>k, <3>3 DEF StopOutput, ProtoSources, SenseInv
    <3> QED BY <2>6, <3>1, <3>2, <3>3 DEF Source
  <2>7. CASE Sense
    <3>0. op' = op /\ routed' = routed /\ UsesSense' = UsesSense
      BY <2>7, OperationFrame DEF UsesSense
    <3>b. BankOpens("sense") => ~live'["sense"]
      <4>1. BankOpens("sense") => live' = [live EXCEPT !["sense"] = FALSE]
        BY Zenon DEF BankOpens, Becomes
      <4> QED BY <2>t, <4>1
    <3>1. "sensed" \in marks' => UsesSense'
      BY <1>2, <2>7, <3>0 DEF Sense, FinalReading, SenseConnects, SenseReleases, SenseInv
    <3>2. CASE FinalReading \/ SenseReleases
      <4>1. CASE UsesSense
        <5>1. ~live'["sense"] \/ "sense fault" \in marks'
          BY <3>2, <3>b, <4>1 DEF FinalReading, SenseReleases
        <5> QED BY <3>1, <5>1 DEF SenseInv, Unreleased
      <4>2. CASE ~UsesSense
        BY <3>0, <3>1, <4>2 DEF SenseInv, Unreleased
      <4> QED BY <4>1, <4>2
    <3>3. CASE SenseConnects
      <4>1. \/ pc' = "arm"
            \/ pc' = "handler" /\ "sense fault" \in marks'
            \/ pc' = "handler" /\ faults' = faults + 1
        BY <3>3 DEF SenseConnects, Go, Raise, DbRaises
      <4>2. CASE pc' = "handler" /\ faults' = faults + 1 /\ "sense fault" \notin marks'
        <5>1. frame' = frame /\ pc = "sense"
          BY <3>3 DEF SenseConnects
        <5>2. op = "cycle" => frame = "phase"
          BY <1>2, <5>1 DEF ShapeInv, Body
        <5>3. faults' >= 1
          <6>1. faults' = faults + 1
            BY <4>2, Zenon
          <6>2. faults \in Nat
            BY <2>t, Zenon
          <6> QED BY <6>1, <6>2
        <5>4. ~(op' = "cycle" /\ frame' = "op")
          BY <3>0, <5>1, <5>2
        <5>5. faults' >= (IF op' = "cycle" /\ frame' = "op" THEN 2 ELSE 1)
          BY <5>3, <5>4
        <5> QED BY <3>1, <4>2, <5>5 DEF SenseInv
      <4> QED BY <3>1, <4>1, <4>2 DEF SenseInv, Unreleased
    <3> QED BY <2>7, <3>2, <3>3 DEF Sense
  <2>8. CASE ChooseOperation \/ UNCHANGED vars
    BY <1>2, <2>8 DEF ChooseOperation, vars, hwVars, opVars, SenseInv, Unreleased, UsesSense
  <2> QED BY <1>2, <2>1, <2>3, <2>4, <2>5, <2>6, <2>7, <2>8, StepKinds
<1> QED BY <1>1, <1>2

\* However the operation ended, the sense path it closed is open again, unless
\* its own bank failed or two database calls (three in a cycle) failed:
\* _safe_final_voltage_reading() makes up for what stands before the try.
THEOREM SensePathIsReleased == Spec => []SenseReleased
<1>1. SenseInv => SenseReleased
  BY DEF SenseInv, Leaving, Unreleased, SenseReleased
<1> QED BY <1>1, TypeInductive, ShapeStep, SenseStep, PTL DEF Spec

---------------------------------------------------------------------------
(* The rows of a cycle *)

\* A cycle, and the database has answered so far.
Answered == op = "cycle" /\ faults = 0

\* RecordOf() in a cycle.
CycleRecord(e) ==
    IF e = "cancel" THEN "CANCELLED" ELSE IF e = "safety" THEN "SAFETY_VIOLATION"
    ELSE IF e = "timeout" THEN "TIMEOUT" ELSE "FAILED"

\* The row of a phase that ended with exception e agrees with what the cycle's
\* guard will make of e; a cancellation may come between two phases.
Tells(e) ==
    \/ rows["phase"] = "none"
    \/ rows["phase"] = (IF e = "station" THEN "STATION_FAULT" ELSE CycleRecord(e))
    \/ e = "cancel" /\ rows["phase"] = "COMPLETED"

\* The two rows at the end.
Agree ==
    \/ rows["phase"] = "none"
    \/ rows["op"] = rows["phase"]
    \/ rows["op"] = "CANCELLED" /\ rows["phase"] = "COMPLETED"
    \/ exc = "other" /\ rows["op"] = "STATION_FAULT" /\ rows["phase"] = "FAILED"

\* The frame and the exception on a cycle's way.
WayInv ==
    Answered =>
      /\ pc \in {"connect", "begin", "precheck", "repeat", "rest"} => frame = "op" /\ exc = "none"
      /\ pc = "classify" => frame = "op"
      /\ pc = "phase_end" => frame = "phase"
      /\ pc = "complete" => exc = "none"

\* What the phase's row says while the cycle goes on, what it says once an
\* exception passes through its guard and the cycle's, and what both say at the end.
RowInv ==
    Answered =>
      /\ pc \in {"sweep_connect", "sweep_safe", "sweep_ack", "connect", "begin", "precheck"}
           => rows["phase"] = "none"
      /\ pc = "repeat" => rows["phase"] \in {"none", "COMPLETED"}
      /\ pc = "rest" => rows["phase"] = "COMPLETED"
      /\ pc \in {"stop_smu", "stop_bank"} => rows[frame] = CycleRecord(exc)
      /\ pc \in Guarded /\ frame = "op" => Tells(exc)
      /\ pc = "complete" /\ frame = "op" => rows["phase"] = "COMPLETED"
      /\ pc = "phase_end" => rows["phase"] = (IF exc = "none" THEN "COMPLETED" ELSE CycleRecord(exc))
      /\ pc = "classify" => IF exc = "none" THEN rows["op"] = "COMPLETED" /\ rows["phase"] = "COMPLETED"
                                            ELSE rows["op"] = CycleRecord(exc) /\ Tells(exc)
      /\ pc \in {"menu", "exit"} \cup Leaving => Agree

\* A step of an operation that leaves the database unharmed was one before, and
\* no call on the database raised in it.
LEMMA AnsweredBefore ==
    ASSUME Typed, GuardRecords \/ Quiet \/ Switch \/ Source \/ Sense, Answered'
    PROVE  Answered /\ ~DbRaises /\ faults' = faults /\ op' = op
<1>1. faults \in Nat
  <2>1. faults \in 0..MaxFaults
    BY Zenon DEF Typed, TypeOK
  <2> QED BY <2>1, OperationsAssumption
<1>2. op' = op /\ (faults' = faults \/ faults' = faults + 1)
  BY OperationFrame
<1>3. op' = "cycle" /\ faults' = 0
  BY DEF Answered
<1>4. faults' # faults + 1
  BY <1>1, <1>3
<1> QED BY <1>2, <1>3, <1>4 DEF Answered, DbRaises

\* WayInv holds initially and every step keeps it.
LEMMA WayStep ==
    /\ Init => WayInv
    /\ Typed /\ ShapeInv /\ WayInv /\ [Next]_vars => WayInv'
<1> USE DEF Guarded, Body
<1>1. Init => WayInv
  BY DEF Init, WayInv
<1>2. ASSUME Typed, ShapeInv, WayInv, [Next]_vars, Answered' PROVE WayInv'
  <2>o. \/ frame = "phase" /\ Outside = "phase_end"
        \/ frame = "op" /\ Outside \in {"classify", "disconnect"}
    BY <1>2, Zenon DEF Outside, Typed, TypeOK
  <2>f. op = "cycle" => FirstStep = "precheck"
    BY DEF FirstStep
  <2>1. CASE Sweep
    BY <2>1 DEF Sweep, SweepConnects, SweepSafes, NextDevice, WayInv
  <2>2. CASE Connect
    <3>1. pc = "connect" /\ pc' \in {"begin", "disconnect", "menu"} /\ frame' = frame /\ exc' = exc
          /\ op' = op /\ (pc' = "begin" => faults' = faults)
      BY <2>2, Zenon DEF Connect, opVars, DbOk
    <3> QED BY <1>2, <3>1 DEF WayInv, Answered
  <2>3. CASE GuardRecords
    <3>1. Answered /\ ~DbRaises
      BY <1>2, <2>3, AnsweredBefore
    <3> QED BY <1>2, <2>3, <2>o, <3>1 DEF GuardRecords, HandlerRecords, HandlerFinishes, Complete,
            Classify, Go, WayInv
  <2>4. CASE Quiet
    <3>1. Answered /\ ~DbRaises
      BY <1>2, <2>4, AnsweredBefore
    <3>2. CASE BeginRun
      BY <1>2, <2>f, <3>1, <3>2 DEF BeginRun, WayInv, Answered
    <3>3. CASE CycleRepeats \/ CycleRests
      BY <1>2, <3>1, <3>3 DEF CycleRepeats, CycleRests, PhaseBegins, CycleFails, Go, Raise, WayInv
    <3>4. CASE PhaseEnds
      BY <1>2, <3>1, <3>4 DEF PhaseEnds, AfterPhase, WayInv
    <3>5. CASE MonitorSamples \/ MonitorSleeps \/ ScanDwells \/ PhaseSamples
      BY <3>5 DEF MonitorSamples, MonitorSleeps, ScanDwells, PhaseSamples, Go, Raise, WayInv
    <3> QED BY <2>4, <3>2, <3>3, <3>4, <3>5 DEF Quiet
  <2>5. CASE Switch
    <3>1. Answered /\ ~DbRaises
      BY <1>2, <2>5, AnsweredBefore
    <3>2. CASE Precheck
      BY <1>2, <3>1, <3>2 DEF Precheck, WayInv
    <3>3. CASE StopBank
      BY <2>o, <3>3 DEF StopBank, Go, WayInv
    <3>4. CASE DisconnectBank \/ PhaseCloses \/ PhaseEscalates \/ PhaseReopens
      BY <3>4 DEF DisconnectBank, PhaseCloses, PhaseEscalates, PhaseReopens, Go, Raise, Unwind,
     WayInv
    <3>5. pc \notin {"monitor", "scan", "scan_close", "scan_reopen", "proto", "proto_open"}
      BY <1>2, <3>1 DEF ShapeInv, Answered
    <3> QED BY <2>5, <3>2, <3>3, <3>4, <3>5 DEF Switch, MonitorCloses, ScanOpens, ScanCloses,
            ScanReopens, ProtoCloses, ProtoOpens
  <2>6. CASE Source
    BY <2>6 DEF Source, DisconnectOutput, StopOutput, ProtoSources, PhaseArms, PhaseFinally, Go,
       Raise,
       Unwind, WayInv
  <2>7. CASE Sense
    BY <2>7 DEF Sense, FinalReading, SenseConnects, SenseReleases, Go, Raise, WayInv
  <2>8. CASE Passing \/ ChooseOperation \/ LeaveMenu \/ CtrlC \/ UNCHANGED vars
    BY <1>2, <2>8 DEF Passing, Acknowledge, Screens, AfterScreen, DisconnectSessions,
       ChooseOperation, LeaveMenu, CtrlC, vars, hwVars, opVars, WayInv, Answered
  <2> QED BY <1>2, <2>1, <2>2, <2>3, <2>4, <2>5, <2>6, <2>7, <2>8, StepKinds
<1> QED BY <1>1, <1>2 DEF WayInv

\* RowInv holds initially and every step keeps it.
LEMMA RowStep ==
    /\ Init => RowInv
    /\ Typed /\ ShapeInv /\ WayInv /\ RowInv /\ [Next]_vars => RowInv'
<1> USE DEF Guarded, Body, Leaving
<1>1. Init => RowInv
  BY DEF Init, RowInv, Answered
<1>2. ASSUME Typed, ShapeInv, WayInv, RowInv, [Next]_vars, Answered' PROVE RowInv'
  <2>t. DOMAIN rows = {"op", "phase"} /\ frame \in {"op", "phase"}
    BY <1>2 DEF Typed, TypeOK
  <2>o. op = "cycle" => \/ frame = "phase" /\ Outside = "phase_end"
                        \/ frame = "op" /\ Outside = "classify"
    BY <2>t, Zenon DEF Outside
  <2>r. op = "cycle" => RecordOf(exc) = CycleRecord(exc)
    BY DEF RecordOf, CycleRecord
  <2>k. \* a step that leaves rows and exception alone
        ASSUME rows' = rows
        PROVE  (\A e : Tells(e)' <=> Tells(e)) /\ (exc' = exc => (Agree' <=> Agree))
    BY <2>k DEF Tells, Agree
  <2>1. CASE Sweep
    <3>1. rows' = rows /\ op' = op /\ faults' = faults
          /\ pc \in {"sweep_connect", "sweep_safe"}
          /\ pc' \in {"sweep_connect", "sweep_safe", "sweep_ack", "menu"}
      BY <2>1 DEF Sweep, SweepConnects, SweepSafes, NextDevice, opVars
    <3> QED BY <1>2, <3>1 DEF RowInv, Agree, Answered
  <2>2. CASE Connect
    <3>1. pc = "connect" /\ pc' \in {"begin", "disconnect", "menu"} /\ rows' = rows
          /\ op' = op /\ (faults' = faults \/ DbRaises)
      BY <2>2, Zenon DEF Connect, opVars, DbOk
    <3>2. ~DbRaises
      <4>1. faults \in 0..MaxFaults
        BY <1>2, Zenon DEF Typed, TypeOK
      <4> QED BY <1>2, <4>1, OperationsAssumption DEF DbRaises, Answered
    <3> QED BY <1>2, <3>1, <3>2 DEF RowInv, Agree, Answered
  <2>3. CASE GuardRecords
    <3>1. Answered /\ ~DbRaises /\ op = "cycle"
      BY <1>2, <2>3, AnsweredBefore DEF Answered
    <3>2. CASE HandlerRecords
      BY <1>2, <2>k, <3>1, <3>2 DEF HandlerRecords, Go, RowInv
    <3>3. CASE HandlerFinishes
      <4>1. pc = "finish" /\ pc' = "stop_smu" /\ exc' = exc /\ frame' = frame
            /\ rows' = [rows EXCEPT ![frame] = CycleRecord(exc)]
        BY <2>r, <3>1, <3>3 DEF HandlerFinishes, Go
      <4> QED BY <1>2, <2>t, <3>1, <4>1 DEF RowInv, Tells
    <3>4. CASE Complete
      <4>1. pc = "complete" /\ pc' = Outside /\ exc' = "none" /\ frame' = frame
            /\ rows' = [rows EXCEPT ![frame] = "COMPLETED"]
        BY <1>2, <3>1, <3>4 DEF Complete, WayInv
      <4> QED BY <1>2, <2>t, <2>o, <3>1, <4>1 DEF RowInv
    <3>5. CASE Classify
      <4>1. pc = "classify" /\ pc' = "disconnect" /\ exc' = exc
            /\ rows' = IF exc \in {"station", "other"} THEN [rows EXCEPT !["op"] = "STATION_FAULT"]
                                                       ELSE rows
        BY <3>1, <3>5 DEF Classify, Go
      <4>2. Agree'
        BY <1>2, <2>t, <3>1, <4>1 DEF RowInv, Tells, Agree, CycleRecord
      <4> QED BY <4>1, <4>2 DEF RowInv
    <3> QED BY <2>3, <3>2, <3>3, <3>4, <3>5 DEF GuardRecords
  <2>4. CASE Quiet
    <3>1. Answered /\ ~DbRaises /\ op = "cycle"
      BY <1>2, <2>4, AnsweredBefore DEF Answered
    <3>2. CASE BeginRun
      <4>1. FirstStep = "precheck"
        BY <3>1 DEF FirstStep
      <4>2. pc = "begin" /\ pc' = "precheck" /\ rows' = [rows EXCEPT !["op"] = "open"]
        BY <3>1, <3>2, <4>1 DEF BeginRun
      <4> QED BY <1>2, <2>t, <3>1, <4>2 DEF RowInv
    <3>3. CASE CycleRepeats \/ CycleRests
      <4>1. pc \in {"repeat", "rest"}
            /\ \/ pc' = "run"
               \/ pc' = "handler" /\ exc' = "cancel" /\ rows' = rows
        BY <3>1, <3>3 DEF CycleRepeats, CycleRests, PhaseBegins, CycleFails, Go, Raise
      <4>2. CASE pc' = "run"
        BY <4>2 DEF RowInv
      <4>3. CASE pc' = "handler" /\ exc' = "cancel" /\ rows' = rows
        <5>1. Tells("cancel")
          BY <1>2, <3>1, <4>1 DEF RowInv, Tells
        <5> QED BY <2>k, <4>3, <5>1 DEF RowInv
      <4> QED BY <4>1, <4>2, <4>3
    <3>4. CASE PhaseEnds
      <4>1. pc = "phase_end" /\ exc' = exc /\ pc' \in {"handler", "rest", "repeat", "complete"}
            /\ (pc' = "handler" <=> exc # "none")
            /\ rows' = IF exc = "station" THEN [rows EXCEPT !["phase"] = "STATION_FAULT"] ELSE rows
        BY <3>1, <3>4 DEF PhaseEnds, AfterPhase, ReclassifyPhase
      <4>2. rows'["phase"] = IF exc = "none" THEN "COMPLETED"
                             ELSE IF exc = "station" THEN "STATION_FAULT" ELSE CycleRecord(exc)
        BY <1>2, <2>t, <3>1, <4>1 DEF RowInv
      <4> QED BY <4>1, <4>2 DEF RowInv, Tells
    <3>5. CASE PhaseSamples
      BY <3>5 DEF PhaseSamples, RowInv
    <3>6. pc \notin {"watch", "sleep", "scan_dwell"}
      BY <1>2, <3>1 DEF ShapeInv
    <3> QED BY <2>4, <3>2, <3>3, <3>4, <3>5, <3>6 DEF Quiet, MonitorSamples, MonitorSleeps,
     ScanDwells
  <2>5. CASE Switch
    <3>1. Answered /\ ~DbRaises /\ op = "cycle"
      BY <1>2, <2>5, AnsweredBefore DEF Answered
    <3>2. CASE Precheck
      <4>1. pc = "precheck" /\ pc' \in {"repeat", "disconnect"} /\ rows'["phase"] = rows["phase"]
        BY <2>t, <3>1, <3>2 DEF Precheck
      <4> QED BY <1>2, <3>1, <4>1 DEF RowInv, Agree
    <3>3. CASE StopBank
      <4>1. pc = "stop_bank" /\ pc' = Outside /\ exc' = exc /\ frame' = frame /\ rows' = rows
        BY <3>3 DEF StopBank, Go
      <4>2. exc # "none"
        BY <1>2, <4>1 DEF ShapeInv
      <4> QED BY <1>2, <2>o, <2>k, <3>1, <4>1, <4>2 DEF RowInv
    <3>4. CASE PhaseCloses \/ PhaseEscalates \/ PhaseReopens
      <4>1. pc' \in {"handler", "sense", "phase_ack", "release"} /\ frame' = "phase"
        BY <1>2, <3>1, <3>4 DEF PhaseCloses, PhaseEscalates, PhaseReopens, Go, Raise, Unwind,
      ShapeInv
      <4> QED BY <4>1 DEF RowInv
    <3>d. CASE DisconnectBank
      BY <1>2, <2>k, <3>1, <3>d DEF DisconnectBank, RowInv
    <3>5. pc \notin {"monitor", "scan", "scan_close", "scan_reopen", "proto", "proto_open"}
      BY <1>2, <3>1 DEF ShapeInv
    <3> QED BY <2>5, <3>2, <3>3, <3>4, <3>d, <3>5 DEF Switch, MonitorCloses, ScanOpens, ScanCloses,
            ScanReopens, ProtoCloses, ProtoOpens
  <2>6. CASE Source
    <3>1. Answered /\ op = "cycle"
      BY <1>2, <2>6, AnsweredBefore DEF Answered
    <3>2. CASE DisconnectOutput \/ StopOutput
      BY <1>2, <2>k, <3>1, <3>2 DEF DisconnectOutput, StopOutput, Go, RowInv
    <3>3. CASE PhaseArms \/ PhaseFinally
      BY <3>3 DEF PhaseArms, PhaseFinally, Go, Unwind, RowInv
    <3>4. pc # "proto_source"
      BY <1>2, <3>1 DEF ShapeInv
    <3> QED BY <2>6, <3>2, <3>3, <3>4 DEF Source, ProtoSources
  <2>7. CASE Sense
    <3>1. Answered /\ op = "cycle"
      BY <1>2, <2>7, AnsweredBefore DEF Answered
    <3>2. CASE FinalReading
      BY <1>2, <2>k, <3>1, <3>2 DEF FinalReading, Go, RowInv
    <3>3. CASE SenseConnects \/ SenseReleases
      <4>1. pc \in {"sense", "release"} /\ frame' = frame
            /\ (pc' \in {"arm", "handler"} \/ pc' = "complete")
        BY <3>3 DEF SenseConnects, SenseReleases, Go, Raise
      <4>2. frame = "phase"
        BY <1>2, <3>1, <4>1 DEF ShapeInv
      <4> QED BY <4>1, <4>2 DEF RowInv
    <3> QED BY <2>7, <3>2, <3>3 DEF Sense
  <2>8. CASE ChooseOperation
    BY <2>8 DEF ChooseOperation, RowInv
  <2>10. CASE Passing
    <3>1. rows' = rows /\ op' = op /\ faults' = faults /\ frame' = frame
      BY <2>10 DEF Passing, Acknowledge, DisconnectSessions, opVars
    <3>2. CASE pc = "phase_ack"
      <4>1. pc' = "release"
        BY <2>10, <3>2 DEF Passing, Acknowledge, AfterScreen, DisconnectSessions
      <4> QED BY <4>1 DEF RowInv
    <3>3. CASE pc # "phase_ack"
      <4>1. /\ exc' = exc
            /\ \/ pc = "sweep_ack" /\ pc' = "exit"
               \/ pc \in Leaving /\ pc' \in {"disc_bank", "disc_close", "menu"}
        BY <2>10, <3>3 DEF Passing, Acknowledge, Screens, AfterScreen, DisconnectSessions
      <4> QED BY <1>2, <2>k, <3>1, <4>1 DEF RowInv, Agree, Answered
    <3> QED BY <3>2, <3>3
  <2>9. CASE LeaveMenu \/ CtrlC \/ UNCHANGED vars
    BY <1>2, <2>k, <2>9 DEF LeaveMenu, CtrlC, vars, hwVars, opVars, RowInv, Answered
  <2> QED BY <1>2, <2>1, <2>2, <2>3, <2>4, <2>5, <2>6, <2>7, <2>8, <2>9, <2>10, StepKinds
<1> QED BY <1>1, <1>2 DEF RowInv

\* As long as the database answers, CycleSequence's row and the row of its last
\* phase tell the same story at the menu, however many repetitions ran and
\* wherever a fault or a Ctrl+C struck.
THEOREM CycleRowsTellTheSame == Spec => []CycleRowsAgree
<1>1. RowInv => CycleRowsAgree
  BY DEF RowInv, Leaving, Answered, Agree, CycleRowsAgree
<1> QED BY <1>1, TypeInductive, ShapeStep, WayStep, RowStep, PTL DEF Spec
============================================================================

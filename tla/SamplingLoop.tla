---------------------------- MODULE SamplingLoop ----------------------------
(***************************************************************************)
(* The stabilisation wait and the sampling loop of ChargeSequence.run()    *)
(* and DischargeSequence.run(), with the output on: what GroupRun sees as  *)
(* SamplingEnds. Voltage, current and temperature are levels, whole steps  *)
(* of an arbitrary unit. One iteration reads the SMU, the DMM and the NTC  *)
(* one after the other; the battery may be pulled out, and Ctrl+C pressed, *)
(* between any two of them.                                                *)
(*                                                                         *)
(* The battery's part: in one iteration each of its quantities moves by at *)
(* most one level, and it does not cool down. Pulled out of a charge it    *)
(* leaves the SMU at its voltage limit with no current, pulled out of a    *)
(* discharge a voltage below the floor.                                    *)
(***************************************************************************)
EXTENDS Integers

CONSTANTS
  VoltageMin, VoltageMax,             \* battery_cfg
  MaxChargeA, MaxDischargeA, TempMax,
  ChargeA, ChargeV, DischargeA, DischargeCutoffV,  \* test_setpoints
  CutoffA,        \* Settings.CHARGE_CUTOFF_A
  PlausibleMax,   \* NTC_PLAUSIBLE_TEMP_MAX_C
  MaxFailures,    \* Settings.DMM_MEASUREMENT_MAX_CONSECUTIVE_FAILURES
  Timeout         \* charge_timeout_s or discharge_timeout_s, in iterations

\* What validate_group_test_config() lets through.
ASSUME SetpointAssumption ==
    /\ VoltageMin \in Int /\ VoltageMax \in Int /\ TempMax \in Int
    /\ MaxChargeA \in Nat /\ MaxDischargeA \in Nat
    /\ ChargeA \in 0..MaxChargeA /\ DischargeA \in 0..MaxDischargeA
    /\ ChargeV \in Int /\ ChargeV <= VoltageMax
    /\ DischargeCutoffV \in Int /\ CutoffA \in Nat
    /\ PlausibleMax \in Int /\ MaxFailures \in Nat \ {0} /\ Timeout \in Nat

\* The taper from half the commanded current down to the cutoff takes more
\* iterations than the DMM may fail in a row (nothing in the code checks it).
ASSUME GradualAssumption == ChargeA > 2 * (CutoffA + MaxFailures)

VARIABLES
  op,         \* "charge" or "discharge"
  pc,         \* where the loop is
  end,        \* "none", "completed" (EOC or EOD), or the exception it ends by
  elapsed,    \* iterations since t_start
  fails,      \* consecutive_dmm_failures
  sample,     \* [v, i, t]: dmm_v, smu_reading and t_c of an iteration; t is {} for None
  prev,       \* {prev_i}, {} for None
  cancelled,  \* CancellationToken.is_requested
  ntc,        \* "none": no DAQ or channel; "flaky": a read may fail; "good"
  battery,    \* "in" or "out"
  v, i, t,    \* its voltage, current and temperature
  unseen,     \* history: iterations in a row that began with it out of its limits
  late,       \* history: samples recorded after Ctrl+C
  removal     \* history: "none", "visible" or "hidden", see Remove

loopVars == <<elapsed, fails, prev>>
plantVars == <<battery, v, i, t, unseen, removal>>
vars == <<op, pc, end, loopVars, sample, cancelled, ntc, plantVars, late>>

Abs(x) == IF x < 0 THEN -x ELSE x
Near(x) == (x - 1)..(x + 1)
Sample == [v : Int, i : Int, t : SUBSET Int]

Init ==
    /\ op \in {"charge", "discharge"} /\ ntc \in {"none", "flaky", "good"}
    /\ pc = "stabilise" /\ end = "none"
    /\ elapsed = 0 /\ fails = 0 /\ prev = {}
    /\ sample = [v |-> 0, i |-> 0, t |-> {}]
    /\ cancelled = FALSE
    /\ battery = "in" /\ t = TempMax
    /\ v \in (VoltageMin - 1)..(VoltageMax + 1)
    /\ i \in IF op = "charge" THEN 0..ChargeA ELSE (-DischargeA)..0
    /\ unseen = 0 /\ late = 0 /\ removal = "none"

---------------------------------------------------------------------------
(* SafetyMonitor.check() *)

CurrentMax == IF op = "charge" THEN MaxChargeA ELSE MaxDischargeA

\* A monitor that forgets the sign of a discharge.
SafeUnsigned(s) ==
    /\ s.v <= VoltageMax /\ s.v >= VoltageMin
    /\ s.i <= CurrentMax
    /\ \A c \in s.t : c <= TempMax

Safe(s) ==
    /\ s.v <= VoltageMax /\ s.v >= VoltageMin
    /\ Abs(s.i) <= CurrentMax
    /\ \A c \in s.t : c <= TempMax

\* The battery itself, as far as the monitor can see it: a temperature the
\* NTC reports as implausible is a fault of the sensor.
OutOfLimits(x, y, z) ==
    \/ x > VoltageMax \/ x < VoltageMin
    \/ Abs(y) > CurrentMax
    \/ ntc = "good" /\ z > TempMax /\ z <= PlausibleMax

---------------------------------------------------------------------------
(* The battery *)

\* The code cannot tell the temperatures above PlausibleMax apart.
Warmer == IF t > PlausibleMax THEN t ELSE t + 1

\* One iteration passes.
Drift ==
    /\ UNCHANGED <<battery, removal>>
    /\ \/ battery = "out" /\ unseen' = 0 /\ UNCHANGED <<v, i, t>>
       \/ /\ battery = "in"
          /\ v' \in Near(v) /\ i' \in Near(i) /\ t' \in {t, Warmer}
          /\ IF op = "charge" THEN i' >= 0 ELSE i' <= 0
          /\ unseen' = IF OutOfLimits(v', i', t') THEN unseen + 1 ELSE 0

\* Pulled out at any moment. The samples can show it ("visible") in a charge
\* that has been sampled and is well inside its constant-current phase, in a
\* discharge whose voltage has still to be read.
Remove ==
    /\ battery = "in" /\ pc # "done"
    /\ battery' = "out" /\ i' = 0 /\ unseen' = 0
    /\ v' = IF op = "charge" THEN ChargeV ELSE VoltageMin - 1
    /\ removal' = IF \/ op = "charge" /\ prev # {} /\ 2 * (i - MaxFailures) >= ChargeA
                     \/ op = "discharge" /\ pc \notin {"ntc", "check"}
                  THEN "visible" ELSE "hidden"
    /\ UNCHANGED <<op, pc, end, loopVars, sample, cancelled, ntc, t, late>>

---------------------------------------------------------------------------
(* The loop *)

\* A token that is only looked at before the loop.
CheckCancellationAtStart == cancelled /\ pc = "stabilise"

\* check_cancellation(token)
CheckCancellation == cancelled

End(e) == pc' = "done" /\ end' = e

\* interruptible_sleep(): looks at the token, sleeps, looks again.
InterruptibleSleep ==
    \/ CheckCancellation /\ End("OperationCancelledError") /\ UNCHANGED plantVars
    \/ ~CheckCancellation /\ pc' = "top" /\ Drift /\ UNCHANGED end

Stabilise ==
    /\ pc = "stabilise" /\ InterruptibleSleep
    /\ UNCHANGED <<op, loopVars, sample, cancelled, ntc, late>>

\* A t_start taken anew in every iteration.
TickRestarting == 0

\* The clock; past the timeout it need not count on.
Tick == IF elapsed > Timeout THEN elapsed ELSE elapsed + 1

SleepInterval ==
    /\ pc = "sleep" /\ InterruptibleSleep
    /\ elapsed' = Tick
    /\ UNCHANGED <<op, fails, prev, sample, cancelled, ntc, late>>

\* check_cancellation() and the timeout.
Top ==
    /\ pc = "top"
    /\ \/ CheckCancellation /\ End("OperationCancelledError")
       \/ ~CheckCancellation /\ elapsed > Timeout /\ End("NIPXITimeoutError")
       \/ ~CheckCancellation /\ elapsed <= Timeout /\ pc' = "smu" /\ UNCHANGED end
    /\ UNCHANGED <<op, loopVars, sample, cancelled, ntc, plantVars, late>>

\* smu.measure()
MeasureSMU ==
    /\ pc = "smu"
    /\ \/ pc' = "dmm" /\ sample' = [sample EXCEPT !.i = i] /\ UNCHANGED end
       \/ End("SMUError") /\ UNCHANGED sample
    /\ UNCHANGED <<op, loopVars, cancelled, ntc, plantVars, late>>

\* dmm.measure_dc_voltage(); a recovery is logged, which may raise.
MeasureDMM ==
    /\ pc = "dmm"
    /\ sample' = [sample EXCEPT !.v = v] /\ fails' = 0
    /\ \/ pc' = "ntc" /\ UNCHANGED end
       \/ fails > 0 /\ End("other")
    /\ UNCHANGED <<op, elapsed, prev, cancelled, ntc, plantVars, late>>

TooMany(n) == n >= MaxFailures

\* A failed reading replaced by the last good one.
MeasureDMMFailsStale ==
    /\ pc = "dmm"
    /\ fails' = fails + 1
    /\ \/ End("other")
       \/ TooMany(fails + 1) /\ End("DMMMeasurementLostError")
       \/ ~TooMany(fails + 1) /\ pc' = "ntc" /\ UNCHANGED end
    /\ UNCHANGED <<op, elapsed, prev, sample, cancelled, ntc, plantVars, late>>

\* A retry that starts over as if no sample had been taken.
MeasureDMMFailsForgets ==
    /\ pc = "dmm"
    /\ fails' = fails + 1 /\ prev' = {}
    /\ \/ End("other")
       \/ TooMany(fails + 1) /\ End("DMMMeasurementLostError")
       \/ ~TooMany(fails + 1) /\ pc' = "sleep" /\ UNCHANGED end
    /\ UNCHANGED <<op, elapsed, sample, cancelled, ntc, plantVars, late>>

\* It raised: counted, logged (which may raise), and given up or tried again
\* after a sleep, the rest of the iteration left out.
MeasureDMMFails ==
    /\ pc = "dmm"
    /\ fails' = fails + 1
    /\ \/ End("other")
       \/ TooMany(fails + 1) /\ End("DMMMeasurementLostError")
       \/ ~TooMany(fails + 1) /\ pc' = "sleep" /\ UNCHANGED end
    /\ UNCHANGED <<op, elapsed, prev, sample, cancelled, ntc, plantVars, late>>

\* What read_channel() and classify_ntc_presence() can give for t_c: an absent
\* or faulty sensor, a DAQError and an implausible temperature are all None.
Temperature ==
    LET read == IF battery = "in" /\ t <= PlausibleMax THEN {t} ELSE {}
    IN CASE ntc = "none"  -> {{}}
         [] ntc = "flaky" -> {{}, read}
         [] ntc = "good"  -> {read}

\* The NTC; a degraded reading is logged, which may raise.
ReadNTC ==
    /\ pc = "ntc"
    /\ \E c \in Temperature :
         /\ sample' = [sample EXCEPT !.t = c]
         /\ \/ pc' = "check" /\ UNCHANGED end
            \/ c = {} /\ ntc # "none" /\ End("other")
    /\ UNCHANGED <<op, loopVars, cancelled, ntc, plantVars, late>>

\* End of charge, end of discharge (never below the floor).
CutoffV == IF DischargeCutoffV > VoltageMin THEN DischargeCutoffV ELSE VoltageMin
EndCondition(s) ==
    IF op = "charge" THEN s.v >= ChargeV /\ Abs(s.i) <= CutoffA
                     ELSE s.v <= CutoffV

\* Any current above the cutoff taken for the constant-current phase.
SuspectsRemovalAny(s) == op = "charge" /\ \E p \in prev : Abs(p) > CutoffA

\* charge_transition_suggests_battery_removed() of a sample at the end
\* condition: the one before was still in the constant-current phase.
SuspectsRemoval(s) == op = "charge" /\ \E p \in prev : 2 * Abs(p) >= ChargeA

\* safety.check(), the record (which may raise), and the end conditions.
CheckSample ==
    /\ pc = "check"
    /\ \/ ~Safe(sample) /\ End("SafetyViolationError") /\ UNCHANGED <<prev, late>>
       \/ Safe(sample) /\ End("other") /\ UNCHANGED <<prev, late>>
       \/ /\ Safe(sample)
          /\ late' = late + (IF cancelled THEN 1 ELSE 0)
          /\ \/ /\ EndCondition(sample) /\ UNCHANGED prev
                /\ End(IF SuspectsRemoval(sample) THEN "BatteryRemovedDuringChargeError"
                                                  ELSE "completed")
             \/ /\ ~EndCondition(sample) /\ pc' = "sleep" /\ UNCHANGED end
                /\ prev' = IF op = "charge" THEN {sample.i} ELSE prev
    /\ UNCHANGED <<op, elapsed, fails, sample, cancelled, ntc, plantVars>>

CtrlC ==
    /\ ~cancelled /\ pc # "done"
    /\ cancelled' = TRUE
    /\ UNCHANGED <<op, pc, end, loopVars, sample, ntc, plantVars, late>>

Program ==
    \/ Stabilise \/ Top \/ MeasureSMU \/ MeasureDMM \/ MeasureDMMFails
    \/ ReadNTC \/ CheckSample \/ SleepInterval

Done == pc = "done" /\ UNCHANGED vars

Next == Program \/ Remove \/ CtrlC \/ Done

Spec == Init /\ [][Next]_vars

\* The thread runs on: every call returns or raises, every sleep ends.
FairSpec == Spec /\ WF_vars(Program)

---------------------------------------------------------------------------
(* Properties *)

\* Every variable has its type; the DMM never fails more often in a row than
\* the setting allows.
TypeOK ==
    /\ op \in {"charge", "discharge"} /\ ntc \in {"none", "flaky", "good"}
    /\ pc \in {"stabilise", "top", "smu", "dmm", "ntc", "check", "sleep", "done"}
    /\ end \in {"none", "completed", "OperationCancelledError", "NIPXITimeoutError",
                "SMUError", "DMMMeasurementLostError", "SafetyViolationError",
                "BatteryRemovedDuringChargeError", "other"}
    /\ elapsed \in 0..(Timeout + 1) /\ fails \in 0..MaxFailures
    /\ sample \in Sample /\ prev \in SUBSET Int
    /\ cancelled \in BOOLEAN /\ battery \in {"in", "out"}
    /\ v \in Int /\ i \in Int /\ t \in Int
    /\ unseen \in Nat /\ late \in Nat
    /\ removal \in {"none", "visible", "hidden"}

\* A battery outside its limits is under current for at most as many
\* iterations as the DMM may fail in a row: the iterations that `continue`
\* after a failed reading skip the safety check as well.
UnseenBounded == unseen <= MaxFailures

\* A battery pulled out where the samples can show it is never a completed
\* charge or discharge, even when the DMM fails around that moment.
RemovalNeverPasses == removal = "visible" => end # "completed"

\* A taper that is gradual is never taken for a removal, although prev_i is
\* not refreshed by the iterations whose DMM reading failed.
TaperIsNoRemoval == end = "BatteryRemovedDuringChargeError" => battery = "out"

\* A completed operation on a battery that is still there left it at the end
\* condition and within its limits: the verdict is of this iteration.
CompletedMeansReached ==
    end = "completed" /\ battery = "in" =>
        EndCondition([v |-> v, i |-> i]) /\ ~OutOfLimits(v, i, t)

\* After Ctrl+C at most one more sample is recorded.
OneSampleAfterCancel == late <= 1

\* The loop ends: the timeout is reached on every path through it.
LoopEnds == <>(pc = "done")
=============================================================================

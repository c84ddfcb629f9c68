------------------------- MODULE SamplingLoopProofs -------------------------
(***************************************************************************)
(* Proofs about SamplingLoop for all limits, setpoints, failure counts and *)
(* timeouts that its assumptions allow. The inductive invariant says what  *)
(* the samples know of the battery at each point of an iteration: while it *)
(* is there, how far prev_i and the safety check may lag behind it; once   *)
(* it is gone, that the samples still carry the jump.                      *)
(***************************************************************************)
EXTENDS SamplingLoop, TLAPS

Reading == {"dmm", "ntc", "check"}   \* the current of this iteration is read
Read == {"ntc", "check"}             \* ... and the voltage

\* The loop goes on exactly while nothing has ended it, within the retries.
LoopInv ==
    /\ pc = "done" <=> end # "none"
    /\ pc # "done" => fails < MaxFailures
    /\ pc = "stabilise" => prev = {} /\ fails = 0 /\ unseen = 0

\* The samples of a battery that is there are the battery's own.
SampleInv ==
    battery = "in" =>
        /\ pc \in Reading => sample.i = i
        /\ pc \in Read => sample.v = v
        /\ pc = "check" /\ ntc = "good" /\ t <= PlausibleMax => t \in sample.t

\* How long the battery may have been out of its limits.
UnseenInv ==
    /\ unseen > 0 => battery = "in" /\ OutOfLimits(v, i, t)
    /\ unseen <= MaxFailures
    /\ pc \in {"top", "smu", "dmm"} => unseen <= fails + 1
    /\ pc = "sleep" => unseen <= fails

\* How far prev_i may lag behind the current.
Lag == CASE pc = "sleep" -> fails
         [] pc \in {"top", "smu", "dmm"} -> fails + 1
         [] OTHER -> MaxFailures
PrevInv ==
    /\ op = "charge" => i >= 0 /\ \A p \in prev : p >= 0
    /\ op = "charge" /\ pc \in Reading => sample.i >= 0
    /\ battery = "in" /\ pc # "done" /\ op = "charge" =>
           \A p \in prev : p - i <= Lag /\ i - p <= Lag

\* What the samples still show once the battery is gone.
RemovalInv ==
    /\ removal = "none" <=> battery = "in"
    /\ battery = "out" /\ op = "charge" => v = ChargeV /\ i = 0
    /\ battery = "out" /\ op = "discharge" => v = VoltageMin - 1
    /\ removal = "visible" /\ op = "charge" /\ pc # "done" =>
           /\ \E p \in prev : 2 * p >= ChargeA
           /\ pc \in Reading => 2 * sample.i >= ChargeA \/ sample.i = 0
           /\ pc \in Read /\ sample.i = 0 => sample.v = ChargeV
    /\ removal = "visible" /\ op = "discharge" /\ pc \in Read =>
           sample.v = VoltageMin - 1

\* What the verdict means.
VerdictInv == RemovalNeverPasses /\ TaperIsNoRemoval /\ CompletedMeansReached

IInv == TypeOK /\ LoopInv /\ SampleInv /\ UnseenInv /\ PrevInv /\ RemovalInv /\ VerdictInv

USE SetpointAssumption, GradualAssumption

\* The monitor lets no sample through that shows a battery out of its limits.
LEMMA SafeIsWithinLimits ==
    ASSUME TypeOK, Safe(sample), sample.v = v, sample.i = i,
           ntc = "good" /\ t <= PlausibleMax => t \in sample.t
    PROVE  ~OutOfLimits(v, i, t)
  BY DEF Safe, OutOfLimits, TypeOK, Sample, Abs, CurrentMax

\* The invariant holds with the output just enabled.
LEMMA InitIInv == Init => IInv
<1> SUFFICES ASSUME Init PROVE IInv
  OBVIOUS
<1> USE DEF Init
<1>1. TypeOK
  <2>1. i \in Int /\ v \in Int
    BY DEF Init
  <2>2. sample \in Sample /\ prev \in SUBSET Int
    BY DEF Init, Sample
  <2>3. elapsed \in 0..(Timeout + 1) /\ fails \in 0..MaxFailures /\ t \in Int
    BY DEF Init
  <2> QED
    BY <2>1, <2>2, <2>3 DEF TypeOK
<1>2. LoopInv /\ SampleInv /\ UnseenInv /\ RemovalInv
  BY DEF LoopInv, SampleInv, UnseenInv, RemovalInv, Reading, Read
<1>3. PrevInv
  BY DEF PrevInv, Reading
<1>4. VerdictInv
  BY DEF VerdictInv, RemovalNeverPasses, TaperIsNoRemoval, CompletedMeansReached
<1> QED
  BY <1>1, <1>2, <1>3, <1>4 DEF IInv

USE DEF loopVars, plantVars

\* Every step keeps the types.
LEMMA TypeNext == TypeOK /\ LoopInv /\ [Next]_vars => TypeOK'
<1> SUFFICES ASSUME TypeOK, LoopInv, [Next]_vars PROVE TypeOK'
  OBVIOUS
<1> USE DEF TypeOK, Sample
<1>1. ASSUME Drift
      PROVE  v' \in Int /\ i' \in Int /\ t' \in Int /\ unseen' \in Nat
             /\ battery' = battery /\ removal' = removal
  BY <1>1 DEF Drift, Near, Warmer
<1>2. CASE Stabilise
  BY <1>1, <1>2 DEF Stabilise, InterruptibleSleep, End
<1>3. CASE SleepInterval
  BY <1>1, <1>3 DEF SleepInterval, InterruptibleSleep, End, Tick
<1>4. CASE Top
  BY <1>4 DEF Top, End
<1>5. CASE MeasureSMU
  BY <1>5 DEF MeasureSMU, End
<1>6. CASE MeasureDMM
  BY <1>6 DEF MeasureDMM, End
<1>7. CASE MeasureDMMFails
  BY <1>7 DEF MeasureDMMFails, End, TooMany, LoopInv
<1>8. CASE ReadNTC
  <2>1. PICK c \in Temperature : sample' = [sample EXCEPT !.t = c]
    BY <1>8 DEF ReadNTC
  <2>2. c \in SUBSET Int
    BY DEF Temperature
  <2> QED
    BY <1>8, <2>1, <2>2 DEF ReadNTC, End
<1>9. CASE CheckSample
  <2>1. late' \in {late, late + 1}
    BY <1>9 DEF CheckSample
  <2>2. prev' \in {prev, {sample.i}}
    BY <1>9 DEF CheckSample
  <2>3. pc' \in {"done", "sleep"} /\ end' \in {end, "SafetyViolationError", "other",
            "BatteryRemovedDuringChargeError", "completed"}
    BY <1>9, Zenon DEF CheckSample, End
  <2> QED
    BY <1>9, <2>1, <2>2, <2>3 DEF CheckSample
<1>10. CASE Remove
  BY <1>10 DEF Remove
<1>11. CASE CtrlC
  BY <1>11 DEF CtrlC
<1>12. CASE UNCHANGED vars
  BY <1>12 DEF vars
<1> QED
  BY <1>2, <1>3, <1>4, <1>5, <1>6, <1>7, <1>8, <1>9, <1>10, <1>11, <1>12
     DEF Next, Program, Done
\* The loop's own bookkeeping: TooMany ends it at the last failure allowed.
LEMMA LoopInvNext == IInv /\ [Next]_vars => LoopInv'
<1> SUFFICES ASSUME IInv, [Next]_vars PROVE LoopInv'
  OBVIOUS
<1>t. TypeOK /\ TypeOK'
  BY TypeNext DEF IInv
<1> USE <1>t DEF IInv, TypeOK, Sample, LoopInv
<1>1. CASE Stabilise
  BY <1>1 DEF Stabilise, InterruptibleSleep, End, Drift
<1>2. CASE SleepInterval
  BY <1>2 DEF SleepInterval, InterruptibleSleep, End, Drift
<1>3. CASE Top
  BY <1>3 DEF Top, End
<1>4. CASE MeasureSMU
  BY <1>4 DEF MeasureSMU, End
<1>5. CASE MeasureDMM
  BY <1>5 DEF MeasureDMM, End
<1>6. CASE MeasureDMMFails
  BY <1>6 DEF MeasureDMMFails, End, TooMany
<1>7. CASE ReadNTC
  BY <1>7 DEF ReadNTC, End
<1>8. CASE CheckSample
  BY <1>8 DEF CheckSample, End
<1>9. CASE Remove
  BY <1>9 DEF Remove
<1>10. CASE CtrlC
  BY <1>10 DEF CtrlC
<1>11. CASE UNCHANGED vars
  BY <1>11 DEF vars
<1> QED
  BY <1>1, <1>2, <1>3, <1>4, <1>5, <1>6, <1>7, <1>8, <1>9, <1>10, <1>11
     DEF Next, Program, Done

\* What is read of a battery stays true of it until the iteration is over.
LEMMA SampleInvNext == IInv /\ [Next]_vars => SampleInv'
<1> SUFFICES ASSUME IInv, [Next]_vars PROVE SampleInv'
  OBVIOUS
<1>t. TypeOK /\ TypeOK'
  BY TypeNext DEF IInv
<1> USE <1>t DEF IInv, TypeOK, Sample, SampleInv, Reading, Read
<1>1. CASE Stabilise
  BY <1>1 DEF Stabilise, InterruptibleSleep, End
<1>2. CASE SleepInterval
  BY <1>2 DEF SleepInterval, InterruptibleSleep, End
<1>3. CASE Top
  BY <1>3 DEF Top, End
<1>4. CASE MeasureSMU
  BY <1>4 DEF MeasureSMU, End
<1>5. CASE MeasureDMM
  BY <1>5 DEF MeasureDMM, End
<1>6. CASE MeasureDMMFails
  BY <1>6 DEF MeasureDMMFails, End, TooMany
<1>7. CASE ReadNTC
  BY <1>7 DEF ReadNTC, End, Temperature
<1>8. CASE CheckSample
  BY <1>8 DEF CheckSample, End
<1>9. CASE Remove
  BY <1>9 DEF Remove
<1>10. CASE CtrlC
  BY <1>10 DEF CtrlC
<1>11. CASE UNCHANGED vars
  BY <1>11 DEF vars
<1> QED
  BY <1>1, <1>2, <1>3, <1>4, <1>5, <1>6, <1>7, <1>8, <1>9, <1>10, <1>11
     DEF Next, Program, Done

\* The safety check is never overdue by more than the failures counted.
LEMMA UnseenInvNext == IInv /\ [Next]_vars => UnseenInv'
<1> SUFFICES ASSUME IInv, [Next]_vars PROVE UnseenInv'
  OBVIOUS
<1>t. TypeOK /\ TypeOK'
  BY TypeNext DEF IInv
<1> USE <1>t DEF IInv, TypeOK, Sample, UnseenInv, LoopInv, OutOfLimits, CurrentMax
<1>1. CASE Stabilise
  BY <1>1 DEF Stabilise, InterruptibleSleep, End, Drift
<1>2. CASE SleepInterval
  BY <1>2 DEF SleepInterval, InterruptibleSleep, End, Drift
<1>3. CASE Top
  BY <1>3 DEF Top, End
<1>4. CASE MeasureSMU
  BY <1>4 DEF MeasureSMU, End
<1>5. CASE MeasureDMM
  BY <1>5 DEF MeasureDMM, End
<1>6. CASE MeasureDMMFails
  BY <1>6 DEF MeasureDMMFails, End, TooMany
<1>7. CASE ReadNTC
  BY <1>7 DEF ReadNTC, End
<1>8. CASE CheckSample
  <2>1. battery = "in" /\ Safe(sample) => unseen = 0
    BY <1>8, SafeIsWithinLimits DEF CheckSample, SampleInv, Reading, Read
  <2>2. battery = "out" => unseen = 0
    BY DEF UnseenInv
  <2>3. UNCHANGED <<op, ntc, fails, plantVars>> /\ pc' \in {"done", "sleep"}
    BY <1>8, Zenon DEF CheckSample, End
  <2>4. pc' = "sleep" => Safe(sample)
    BY <1>8 DEF CheckSample, End
  <2> QED
    BY <2>1, <2>2, <2>3, <2>4
<1>9. CASE Remove
  BY <1>9 DEF Remove
<1>10. CASE CtrlC
  BY <1>10 DEF CtrlC
<1>11. CASE UNCHANGED vars
  BY <1>11 DEF vars
<1> QED
  BY <1>1, <1>2, <1>3, <1>4, <1>5, <1>6, <1>7, <1>8, <1>9, <1>10, <1>11
     DEF Next, Program, Done

\* prev_i lags behind the current by at most the failures counted.
LEMMA PrevInvNext == IInv /\ [Next]_vars => PrevInv'
<1> SUFFICES ASSUME IInv, [Next]_vars PROVE PrevInv'
  OBVIOUS
<1>t. TypeOK /\ TypeOK'
  BY TypeNext DEF IInv
<1> USE <1>t DEF IInv, TypeOK, Sample, PrevInv, LoopInv, Lag, Reading
<1>1. CASE Stabilise
  BY <1>1 DEF Stabilise, InterruptibleSleep, End, Drift, Near
<1>2. CASE SleepInterval
  BY <1>2 DEF SleepInterval, InterruptibleSleep, End, Drift, Near
<1>3. CASE Top
  BY <1>3 DEF Top, End
<1>4. CASE MeasureSMU
  BY <1>4 DEF MeasureSMU, End
<1>5. CASE MeasureDMM
  BY <1>5 DEF MeasureDMM, End
<1>6. CASE MeasureDMMFails
  BY <1>6 DEF MeasureDMMFails, End, TooMany
<1>7. CASE ReadNTC
  BY <1>7 DEF ReadNTC, End
<1>8. CASE CheckSample
  <2>1. battery = "in" => sample.i = i
    BY <1>8 DEF CheckSample, SampleInv, Reading
  <2>2. UNCHANGED <<op, i, battery, fails>> /\ pc' \in {"done", "sleep"}
    BY <1>8, Zenon DEF CheckSample, End
  <2>3. pc' = "sleep" /\ op = "charge" => prev' = {sample.i}
    BY <1>8 DEF CheckSample, End
  <2>4. pc' = "done" => prev' = prev
    BY <1>8 DEF CheckSample, End
  <2>5. op = "charge" => sample.i >= 0
    BY <1>8 DEF CheckSample
  <2> QED
    BY <2>1, <2>2, <2>3, <2>4, <2>5
<1>9. CASE Remove
  BY <1>9 DEF Remove
<1>10. CASE CtrlC
  BY <1>10 DEF CtrlC
<1>11. CASE UNCHANGED vars
  BY <1>11 DEF vars
<1> QED
  BY <1>1, <1>2, <1>3, <1>4, <1>5, <1>6, <1>7, <1>8, <1>9, <1>10, <1>11
     DEF Next, Program, Done

\* The samples carry the jump of a removal until the loop ends.
LEMMA RemovalInvNext == IInv /\ [Next]_vars => RemovalInv'
<1> SUFFICES ASSUME IInv, [Next]_vars PROVE RemovalInv'
  OBVIOUS
<1>t. TypeOK /\ TypeOK'
  BY TypeNext DEF IInv
<1> USE <1>t DEF IInv, TypeOK, Sample, RemovalInv, PrevInv, SampleInv, LoopInv, Lag, Reading, Read
<1>1. CASE Stabilise
  BY <1>1 DEF Stabilise, InterruptibleSleep, End, Drift
<1>2. CASE SleepInterval
  BY <1>2 DEF SleepInterval, InterruptibleSleep, End, Drift
<1>3. CASE Top
  BY <1>3 DEF Top, End
<1>4. CASE MeasureSMU
  BY <1>4 DEF MeasureSMU, End
<1>5. CASE MeasureDMM
  BY <1>5 DEF MeasureDMM, End
<1>6. CASE MeasureDMMFails
  BY <1>6 DEF MeasureDMMFails, End, TooMany
<1>7. CASE ReadNTC
  BY <1>7 DEF ReadNTC, End
<1>8. CASE CheckSample
  BY <1>8 DEF CheckSample, End, EndCondition, SuspectsRemoval, Abs
<1>9. CASE Remove
  BY <1>9 DEF Remove
<1>10. CASE CtrlC
  BY <1>10 DEF CtrlC
<1>11. CASE UNCHANGED vars
  BY <1>11 DEF vars
<1> QED
  BY <1>1, <1>2, <1>3, <1>4, <1>5, <1>6, <1>7, <1>8, <1>9, <1>10, <1>11
     DEF Next, Program, Done

\* The verdict of the last sample.
LEMMA VerdictInvNext == IInv /\ [Next]_vars => VerdictInv'
<1> SUFFICES ASSUME IInv, [Next]_vars PROVE VerdictInv'
  OBVIOUS
<1>t. TypeOK /\ TypeOK'
  BY TypeNext DEF IInv
<1> USE <1>t DEF IInv, TypeOK, Sample, LoopInv, VerdictInv, RemovalNeverPasses, TaperIsNoRemoval,
       CompletedMeansReached
<1>1. CASE Stabilise
  BY <1>1 DEF Stabilise, InterruptibleSleep, End, Drift
<1>2. CASE SleepInterval
  BY <1>2 DEF SleepInterval, InterruptibleSleep, End, Drift
<1>3. CASE Top
  BY <1>3 DEF Top, End
<1>4. CASE MeasureSMU
  BY <1>4 DEF MeasureSMU, End
<1>5. CASE MeasureDMM
  BY <1>5 DEF MeasureDMM, End
<1>6. CASE MeasureDMMFails
  BY <1>6 DEF MeasureDMMFails, End, TooMany
<1>7. CASE ReadNTC
  BY <1>7 DEF ReadNTC, End
<1>8. CASE CheckSample
  <2>1. RemovalNeverPasses'
    BY <1>8 DEF CheckSample, End, RemovalInv, Read, Reading, Safe,
                EndCondition, SuspectsRemoval, Abs
  <2>2. TaperIsNoRemoval'
    BY <1>8 DEF CheckSample, End, SampleInv, PrevInv, Lag, Read, Reading,
                EndCondition, SuspectsRemoval, Abs
  <2>3. CompletedMeansReached'
    BY <1>8, SafeIsWithinLimits
       DEF CheckSample, End, SampleInv, Read, Reading, EndCondition, OutOfLimits, CurrentMax
  <2> QED
    BY <2>1, <2>2, <2>3
<1>9. CASE Remove
  BY <1>9 DEF Remove
<1>10. CASE CtrlC
  BY <1>10 DEF CtrlC
<1>11. CASE UNCHANGED vars
  BY <1>11 DEF vars, EndCondition, OutOfLimits, CurrentMax
<1> QED
  BY <1>1, <1>2, <1>3, <1>4, <1>5, <1>6, <1>7, <1>8, <1>9, <1>10, <1>11
     DEF Next, Program, Done

\* The invariant is inductive.
THEOREM Invariance == Spec => []IInv
<1>1. IInv /\ [Next]_vars => IInv'
  BY TypeNext, LoopInvNext, SampleInvNext, UnseenInvNext, PrevInvNext,
     RemovalInvNext, VerdictInvNext DEF IInv
<1> QED
  BY InitIInv, <1>1, PTL DEF Spec

---------------------------------------------------------------------------
(* The results *)

\* The types, and the bound on consecutive DMM failures with them.
THEOREM TypeCorrect == Spec => []TypeOK
<1>1. IInv => TypeOK
  BY DEF IInv
<1> QED
  BY Invariance, <1>1, PTL

\* However the DMM fails, a battery out of its limits is under current for at
\* most MaxFailures iterations before the loop ends.
THEOREM UnseenIsBounded == Spec => []UnseenBounded
<1>1. IInv => UnseenBounded
  BY DEF IInv, UnseenInv, UnseenBounded
<1> QED
  BY Invariance, <1>1, PTL

\* A battery pulled out where the samples can show it is never reported as a
\* completed charge or discharge.
THEOREM RemovalIsCaught == Spec => []RemovalNeverPasses
<1>1. IInv => RemovalNeverPasses
  BY DEF IInv, VerdictInv
<1> QED
  BY Invariance, <1>1, PTL

\* A taper slower than GradualAssumption's bound is never taken for a removal.
THEOREM NoFalseRemoval == Spec => []TaperIsNoRemoval
<1>1. IInv => TaperIsNoRemoval
  BY DEF IInv, VerdictInv
<1> QED
  BY Invariance, <1>1, PTL

\* A completed operation left the battery at its end condition, in its limits.
THEOREM CompletionIsReal == Spec => []CompletedMeansReached
<1>1. IInv => CompletedMeansReached
  BY DEF IInv, VerdictInv
<1> QED
  BY Invariance, <1>1, PTL

---------------------------------------------------------------------------
(* Cancellation needs an invariant of its own *)

\* No sample after Ctrl+C has been recorded before the loop looks at the
\* token again.
LateInv == late <= 1 /\ (late > 0 => cancelled) /\ (late > 0 => pc \in {"sleep", "done"})

\* After Ctrl+C at most one more sample is recorded.
THEOREM CancelIsPrompt == Spec => []OneSampleAfterCancel
<1>1. Init => LateInv
  BY DEF Init, LateInv
<1>2. TypeOK /\ LateInv /\ [Next]_vars => LateInv'
  <2> SUFFICES ASSUME TypeOK, LateInv, [Next]_vars PROVE LateInv'
    OBVIOUS
  <2> USE DEF LateInv, TypeOK
  <2>1. CASE Stabilise \/ SleepInterval
    BY <2>1 DEF Stabilise, SleepInterval, InterruptibleSleep, CheckCancellation, End
  <2>2. CASE Top \/ MeasureSMU \/ MeasureDMM \/ MeasureDMMFails \/ ReadNTC
    BY <2>2 DEF Top, MeasureSMU, MeasureDMM, MeasureDMMFails, ReadNTC, End
  <2>3. CASE CheckSample
    BY <2>3 DEF CheckSample, End
  <2>4. CASE Remove \/ CtrlC \/ UNCHANGED vars
    BY <2>4 DEF Remove, CtrlC, vars
  <2> QED
    BY <2>1, <2>2, <2>3, <2>4 DEF Next, Program, Done
<1>3. LateInv => OneSampleAfterCancel
  BY DEF LateInv, OneSampleAfterCancel
<1> QED
  BY <1>1, <1>2, <1>3, TypeCorrect, PTL DEF Spec
=============================================================================

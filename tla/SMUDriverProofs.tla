-------------------------- MODULE SMUDriverProofs --------------------------
(* The promises of hardware/smu.py that the layers above rely on, for every
   number of attempts and every way commands and readbacks can fail. *)
EXTENDS SMUDriver, TLAPS

\* source_dc_voltage_point() is the only method whose finally returns what was
\* pending, and that is never emergency_output_off()'s True.
CallInv == pc \in {"sourcing", "finally"} => op = "source"

IInv == CallInv /\ TrueMeansOff /\ VerdictIsFresh

---------------------------------------------------------------------------
(* Type correctness: the retry counter, the Boolean state, and the rest *)

AttemptOK == attempt \in 1..MaxAttempts

FlagsOK == session \in BOOLEAN /\ out \in BOOLEAN

NamesOK ==
    /\ setpoint \in {"zero", "set"} /\ lastKnown \in {"True", "False", "None"}
    /\ op \in Op
    /\ pc \in {"idle", "baseline", "write", "attempt", "sourcing", "finally"}
    /\ result \in Result /\ pending \in Outcome /\ rv \in Outcome

\* session and out are Boolean.
LEMMA FlagsKept == FlagsOK /\ [Next]_vars => FlagsOK'
<1> SUFFICES ASSUME FlagsOK, [Next]_vars PROVE FlagsOK'
    OBVIOUS
<1> USE DEF FlagsOK
<1>1. CASE Connect
    BY <1>1, Zenon DEF Connect
<1>2. CASE Disconnect
    BY <1>2, Zenon DEF Disconnect
<1>3. CASE Begin("configure") \/ Begin("source")
    BY <1>3, Zenon DEF Begin, Return
<1>4. CASE ForceOffAndVerify
    BY <1>4, Zenon DEF ForceOffAndVerify, DisableOutcomes, Return
<1>5. CASE Configure
    BY <1>5, Zenon DEF Configure, Return
<1>6. CASE OutputEnable
    BY <1>6, Zenon DEF OutputEnable, EnableOutcomes, Return
<1>7. CASE ZeroOutputSetpoint
    BY <1>7, Zenon DEF ZeroOutputSetpoint, Return
<1>8. CASE EmergencyBegin
    BY <1>8, Zenon DEF EmergencyBegin
<1>9. CASE EmergencyAttempt
    BY <1>9, Zenon DEF EmergencyAttempt, DisableOutcomes
<1>10. CASE SourceConfigure
    BY <1>10, Zenon DEF SourceConfigure, EnableOutcomes, Return
<1>11. CASE SourcePoint
    BY <1>11, Zenon DEF SourcePoint
<1>12. CASE SourceFinally
    BY <1>12, Zenon DEF SourceFinally, DisableOutcomes, Return
<1>13. CASE UNCHANGED vars
    BY <1>13, Zenon DEF vars
<1> QED BY <1>1, <1>2, <1>3, <1>4, <1>5, <1>6, <1>7, <1>8, <1>9, <1>10,
           <1>11, <1>12, <1>13 DEF Next

\* The variables that range over names.
LEMMA NamesKept == NamesOK /\ [Next]_vars => NamesOK'
<1> SUFFICES ASSUME NamesOK, [Next]_vars PROVE NamesOK'
    OBVIOUS
<1> USE DEF NamesOK, Op, Outcome, Result
<1>1. CASE Connect
    BY <1>1 DEF Connect
<1>2. CASE Disconnect
    BY <1>2 DEF Disconnect
<1>3. CASE Begin("configure") \/ Begin("source")
    BY <1>3 DEF Begin, Return
<1>4. CASE ForceOffAndVerify
    BY <1>4 DEF ForceOffAndVerify, Return
<1>5. CASE Configure
    BY <1>5 DEF Configure, Return
<1>6. CASE OutputEnable
    BY <1>6 DEF OutputEnable, Queried, Return
<1>7. CASE ZeroOutputSetpoint
    BY <1>7 DEF ZeroOutputSetpoint, ApplyZeroSetpoint, Return
<1>8. CASE EmergencyBegin
    BY <1>8 DEF EmergencyBegin, ApplyZeroSetpoint
<1>9. CASE EmergencyAttempt
    BY <1>9 DEF EmergencyAttempt, Readback, AttemptResult, Return
<1>10. CASE SourceConfigure
    BY <1>10 DEF SourceConfigure, Return
<1>11. CASE SourcePoint
    BY <1>11 DEF SourcePoint
<1>12. CASE SourceFinally
    BY <1>12 DEF SourceFinally, Return
<1>13. CASE UNCHANGED vars
    <2> HIDE DEF Op, Outcome, Result
    <2> QED BY <1>13 DEF vars
<1> QED BY <1>1, <1>2, <1>3, <1>4, <1>5, <1>6, <1>7, <1>8, <1>9, <1>10,
           <1>11, <1>12, <1>13 DEF Next

\* The loop stops at the last attempt.
LEMMA AttemptKept == AttemptOK /\ [Next]_vars => AttemptOK'
<1> SUFFICES ASSUME AttemptOK, [Next]_vars PROVE AttemptOK'
    OBVIOUS
<1>1. CASE EmergencyBegin
    BY <1>1, SMUAssumption DEF EmergencyBegin, AttemptOK
<1>2. CASE EmergencyAttempt
    BY <1>2, SMUAssumption DEF EmergencyAttempt, LastAttempt, NextAttempt, AttemptOK
<1>3. attempt' = attempt \/ EmergencyBegin \/ EmergencyAttempt
    BY DEF Next, Connect, Disconnect, Begin, ForceOffAndVerify, Configure, OutputEnable,
           ZeroOutputSetpoint, SourceConfigure, SourcePoint, SourceFinally, vars
<1> QED BY <1>1, <1>2, <1>3 DEF AttemptOK

\* Every variable of the driver keeps its type, and the retry loop of
\* emergency_output_off() never counts past EMERGENCY_OUTPUT_OFF_MAX_ATTEMPTS.
THEOREM TypeCorrect == Spec => []TypeOK
<1>1. Init => FlagsOK /\ NamesOK
    BY Zenon DEF Init, FlagsOK, NamesOK, Op, Outcome, Result
<1>2. Init => AttemptOK
    BY SMUAssumption DEF Init, AttemptOK
<1>3. FlagsOK /\ NamesOK /\ AttemptOK => TypeOK
    BY DEF FlagsOK, NamesOK, AttemptOK, TypeOK
<1> QED BY <1>1, <1>2, <1>3, FlagsKept, NamesKept, AttemptKept, PTL DEF Spec

---------------------------------------------------------------------------
(* What a call means *)

\* Every step of the driver or of the instrument keeps the invariant: True
\* needs a readback that said DISABLED, and the verdict of a False is the last
\* attempt's.
LEMMA InvKept == AttemptOK /\ IInv /\ [Next]_vars => IInv'
<1> SUFFICES ASSUME AttemptOK, IInv, [Next]_vars PROVE IInv'
    OBVIOUS
<1> USE DEF IInv, CallInv, TrueMeansOff, VerdictIsFresh
<1>1. CASE Connect
    BY <1>1 DEF Connect
<1>2. CASE Disconnect
    BY <1>2 DEF Disconnect
<1>3. CASE Begin("configure") \/ Begin("source")
    BY <1>3 DEF Begin, Return
<1>4. CASE ForceOffAndVerify
    BY <1>4 DEF ForceOffAndVerify, DisableOutcomes, Readback, Return
<1>5. CASE Configure
    BY <1>5 DEF Configure, Return
<1>6. CASE OutputEnable
    BY <1>6 DEF OutputEnable, Return
<1>7. CASE ZeroOutputSetpoint
    BY <1>7 DEF ZeroOutputSetpoint, Return
<1>8. CASE EmergencyBegin
    BY <1>8 DEF EmergencyBegin
<1>9. CASE EmergencyAttempt
    BY <1>9, SMUAssumption
       DEF EmergencyAttempt, DisableOutcomes, Readback, AttemptResult, LastAttempt,
           AttemptOK, Return
<1>10. CASE SourceConfigure
    BY <1>10 DEF SourceConfigure, Return
<1>11. CASE SourcePoint
    BY <1>11 DEF SourcePoint
<1>12. CASE SourceFinally
    BY <1>12 DEF SourceFinally, Return
<1>13. CASE UNCHANGED vars
    BY <1>13 DEF vars
<1> QED BY <1>1, <1>2, <1>3, <1>4, <1>5, <1>6, <1>7, <1>8, <1>9, <1>10, <1>11,
           <1>12, <1>13 DEF Next

\* What the two theorems below project from.
LEMMA Invariance == Spec => []IInv
<1>1. Init => AttemptOK /\ IInv
    BY SMUAssumption DEF Init, AttemptOK, IInv, CallInv, TrueMeansOff, VerdictIsFresh
<1> QED BY <1>1, AttemptKept, InvKept, PTL DEF Spec

\* emergency_output_off() answers True on an open session only when the output
\* is off, whichever commands were lost and however often it had to retry.
THEOREM VerifiedOffIsOff == Spec => []TrueMeansOff
<1>1. IInv => TrueMeansOff
    BY DEF IInv
<1> QED BY <1>1, Invariance, PTL

\* When emergency_output_off() answers False it has used every attempt, and the
\* reason it logs is the last attempt's: for every bound on the attempts and
\* every pattern of lost commands and failed readbacks, "still enabled" is said
\* only of an output that is on.
THEOREM LastVerdictIsTrue == Spec => []VerdictIsFresh
<1>1. IInv => VerdictIsFresh
    BY DEF IInv
<1> QED BY <1>1, Invariance, PTL
============================================================================

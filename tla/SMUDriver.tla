----------------------------- MODULE SMUDriver -----------------------------
(***************************************************************************)
(* hardware/smu.py: the NI-DCPower source-measure unit driver, called by   *)
(* one thread at a time, against an instrument whose every command can     *)
(* fail, be ignored, or take effect although the call raised.              *)
(*                                                                         *)
(* out is the instrument's real output; a readback that succeeds returns   *)
(* it. What survives session.close() is left open: the output may stay as  *)
(* it was (test_control/hardware_manager.py:471).                          *)
(***************************************************************************)
EXTENDS Integers

CONSTANT MaxAttempts   \* Settings.EMERGENCY_OUTPUT_OFF_MAX_ATTEMPTS

ASSUME SMUAssumption == MaxAttempts \in Nat \ {0}

VARIABLES
  session,    \* self._session is not None (self.connected follows it)
  out,        \* the instrument's output stage is on
  setpoint,   \* "zero" or "set": the committed level and limit
  lastKnown,  \* self.last_known_output_state
  op,         \* the public method being executed
  pc,         \* where it is
  attempt,    \* emergency_output_off()'s loop variable
  result,     \* its last_result
  pending,    \* exception in flight through source_dc_voltage_point()'s finally
  rv          \* how the last call ended

vars == <<session, out, setpoint, lastKnown, op, pc, attempt, result, pending,
          rv>>

Result == {"DISABLED", "STILL_ENABLED", "VERIFICATION_COMM_FAILURE"}
Op == {"none", "connect", "disconnect", "configure", "enable", "zero",
       "emergency", "source"}
Outcome == {"none", "ok", "True", "False", "SMUError", "SMUStateVerificationError",
            "OperationCancelledError", "driver exception"}

Init ==
    /\ session = FALSE
    /\ out \in BOOLEAN             \* never assume the PMU starts safe
    /\ setpoint = "zero"
    /\ lastKnown = "None"
    /\ op = "none" /\ pc = "idle" /\ attempt = 1
    /\ result = "VERIFICATION_COMM_FAILURE"
    /\ pending = "none" /\ rv = "none"

---------------------------------------------------------------------------
(* The instrument, as the driver uses it *)

\* A readback of output_enabled: the truth, or an exception.
Readback(o) == {IF o THEN "STILL_ENABLED" ELSE "DISABLED", "VERIFICATION_COMM_FAILURE"}

\* output_disable() on an open session: abort() (its failure swallowed), then
\* output_enabled = False, which may raise, and with or without an exception
\* may or may not have reached the output.
DisableOutcomes == [raised : BOOLEAN, out : {FALSE, out}]

\* output_enabled = True, commit(), initiate(): as uncertain the other way.
EnableOutcomes == [raised : BOOLEAN, out : {TRUE, out}]

Return(v) == pc' = "idle" /\ rv' = v

\* query_output_state(): records what it read.
Queried(r) == CASE r = "STILL_ENABLED" -> "True"
                [] r = "DISABLED" -> "False"
                [] OTHER -> "None"

---------------------------------------------------------------------------
(* connect(), disconnect() *)

Connect ==
    /\ pc = "idle" /\ ~session
    /\ op' = "connect"
    /\ \/ session' = TRUE /\ rv' = "ok"
       \/ session' = FALSE /\ rv' = "SMUError"
    /\ UNCHANGED <<out, setpoint, lastKnown, pc, attempt, result, pending>>

\* close() failures are swallowed; the session is forgotten either way.
Disconnect ==
    /\ pc = "idle" /\ session
    /\ op' = "disconnect" /\ rv' = "ok"
    /\ session' = FALSE
    /\ out' \in {FALSE, out}
    /\ UNCHANGED <<setpoint, lastKnown, pc, attempt, result, pending>>

---------------------------------------------------------------------------
(* force_output_off_and_verify() and the two methods that begin with it *)

\* set_charge_mode()/set_discharge_mode() and source_dc_voltage_point() refuse
\* to start without a session.
Begin(o) ==
    /\ pc = "idle" /\ o \in {"configure", "source"}
    /\ op' = o
    /\ IF session THEN pc' = "baseline" /\ UNCHANGED rv
                  ELSE Return("SMUError")
    /\ UNCHANGED <<session, out, setpoint, lastKnown, attempt, result, pending>>

\* The baseline: query, output_disable(), verify_output_disabled(). The call
\* goes on only when the output was read back off.
ForceOffAndVerify ==
    /\ pc = "baseline"
    /\ \E d \in DisableOutcomes : \E r \in Readback(d.out) :
         LET ok == ~d.raised /\ r = "DISABLED"
         IN /\ out' = d.out
            /\ lastKnown' = CASE d.raised -> "None"
                              [] ok       -> "False"
                              [] OTHER    -> "True"
            /\ IF ok THEN pc' = "write" /\ UNCHANGED rv ELSE Return("SMUError")
    /\ UNCHANGED <<session, setpoint, op, attempt, result, pending>>

\* _configure_current_source(): write level and limit, commit, read back. A
\* failed write is an SMUError; a failed readback escapes as it is; a wrong
\* one is a verification error.
Configure ==
    /\ pc = "write" /\ op = "configure"
    /\ setpoint' \in {"set", setpoint}
    /\ \/ setpoint' = "set" /\ Return("ok")
       \/ \E e \in {"SMUError", "driver exception", "SMUStateVerificationError"} : Return(e)
    /\ UNCHANGED <<session, out, lastKnown, op, attempt, result, pending>>

---------------------------------------------------------------------------
(* output_enable() *)

OutputEnable ==
    /\ pc = "idle" /\ op' = "enable"
    /\ IF ~session
       THEN Return("SMUError") /\ UNCHANGED <<out, lastKnown>>
       ELSE \E d \in EnableOutcomes : \E r \in Readback(d.out) :
              /\ out' = d.out
              /\ IF d.raised
                 THEN Return("SMUError") /\ UNCHANGED lastKnown
                 ELSE /\ lastKnown' = Queried(r)
                      /\ Return(IF r = "STILL_ENABLED" THEN "ok" ELSE "SMUError")
    /\ UNCHANGED <<session, setpoint, attempt, result, pending>>

---------------------------------------------------------------------------
(* emergency_output_off(), zero_output_setpoint_best_effort() *)

\* _apply_zero_setpoint(): one attempt, failures swallowed, nothing read back.
ApplyZeroSetpoint == IF session THEN setpoint' \in {"zero", setpoint}
                                ELSE UNCHANGED setpoint

ZeroOutputSetpoint ==
    /\ pc = "idle" /\ op' = "zero"
    /\ ApplyZeroSetpoint
    /\ \E v \in IF session THEN {"True", "False"} ELSE {"True"} : Return(v)
    /\ UNCHANGED <<session, out, lastKnown, attempt, result, pending>>

\* Entry: zero the setpoint while the output is still enabled.
EmergencyBegin ==
    /\ pc = "idle" /\ op' = "emergency" /\ pc' = "attempt"
    /\ ApplyZeroSetpoint
    /\ attempt' = 1
    /\ result' = "VERIFICATION_COMM_FAILURE"
    /\ UNCHANGED <<session, out, lastKnown, pending, rv>>

\* A driver that takes an unanswered readback for a disabled output.
AttemptResultOptimistic(d, r) ==
    CASE d.raised -> "VERIFICATION_COMM_FAILURE"
      [] r = "VERIFICATION_COMM_FAILURE" -> "DISABLED"
      [] OTHER -> r

\* A loop that keeps the verdict of an earlier attempt when the command raises.
AttemptResultStale(d, r) == IF d.raised THEN result ELSE r

\* What one attempt concludes from the disable command and the readback.
AttemptResult(d, r) == IF d.raised THEN "VERIFICATION_COMM_FAILURE" ELSE r

LastAttempt == attempt >= MaxAttempts

NextAttempt == attempt + 1

\* One iteration of the retry loop; without a session nothing is sent and the
\* result is DISABLED.
EmergencyAttempt ==
    /\ pc = "attempt"
    /\ \E d \in DisableOutcomes : \E r \in Readback(d.out) :
         LET res == IF session THEN AttemptResult(d, r) ELSE "DISABLED"
         IN /\ out' = IF session THEN d.out ELSE out
            /\ result' = res
            /\ CASE res = "DISABLED" -> Return("True") /\ UNCHANGED attempt
                 [] res # "DISABLED" /\ LastAttempt -> Return("False") /\ UNCHANGED attempt
                 [] OTHER -> attempt' = NextAttempt /\ UNCHANGED <<pc, rv>>
    /\ UNCHANGED <<session, setpoint, lastKnown, op, pending>>

---------------------------------------------------------------------------
(* source_dc_voltage_point(), after its baseline *)

\* The configuration ends with output_enabled = True and commit(); an
\* exception, before or after the enable was sent, leaves the method here,
\* before the try with the finally.
SourceConfigure ==
    /\ pc = "write" /\ op = "source"
    /\ setpoint' \in {"set", setpoint}
    /\ \E d \in EnableOutcomes :
         /\ out' = d.out
         /\ IF d.raised
            THEN Return("SMUError")
            ELSE setpoint' = "set" /\ pc' = "sourcing" /\ UNCHANGED rv
    /\ UNCHANGED <<session, lastKnown, op, attempt, result, pending>>

\* Readback verification, initiate(), measurement and hold, up to the finally.
SourcePoint ==
    /\ pc = "sourcing"
    /\ pc' = "finally"
    /\ pending' \in {"ok", "SMUError", "SMUStateVerificationError", "OperationCancelledError"}
    /\ pending' \in {"ok", "OperationCancelledError"} => out
    /\ lastKnown' \in CASE pending' \in {"ok", "OperationCancelledError"} -> {"True"}
                        [] pending' = "SMUError" /\ out -> {lastKnown, "True"}
                        [] OTHER -> {lastKnown}
    /\ UNCHANGED <<session, out, setpoint, op, attempt, result, rv>>

\* The finally: output_disable() may raise in its turn; an unverified disable
\* is only logged. A normal end still raises when the limit was reached.
SourceFinally ==
    /\ pc = "finally"
    /\ \E d \in DisableOutcomes :
         /\ out' = d.out
         /\ \E v \in IF d.raised THEN {"SMUError"}
                     ELSE IF pending = "ok" THEN {"ok", "SMUError"} ELSE {pending} : Return(v)
    /\ pending' = "none"
    /\ UNCHANGED <<session, setpoint, lastKnown, op, attempt, result>>

Next ==
    \/ Connect \/ Disconnect
    \/ Begin("configure") \/ Begin("source") \/ ForceOffAndVerify \/ Configure
    \/ OutputEnable \/ ZeroOutputSetpoint
    \/ EmergencyBegin \/ EmergencyAttempt
    \/ SourceConfigure \/ SourcePoint \/ SourceFinally

Spec == Init /\ [][Next]_vars

---------------------------------------------------------------------------
(* Properties *)

\* Every variable has its type; the retry counter stays within its bound.
TypeOK ==
    /\ session \in BOOLEAN /\ out \in BOOLEAN
    /\ setpoint \in {"zero", "set"}
    /\ lastKnown \in {"True", "False", "None"}
    /\ op \in Op
    /\ pc \in {"idle", "baseline", "write", "attempt", "sourcing", "finally"}
    /\ attempt \in 1..MaxAttempts
    /\ result \in Result
    /\ pending \in Outcome /\ rv \in Outcome

\* emergency_output_off() returns True on an open session only when the output
\* is off, whatever commands were lost on the way.
TrueMeansOff == pc = "idle" /\ op = "emergency" /\ rv = "True" /\ session => ~out

\* emergency_output_off() gives up only after its last attempt, and the reason
\* it then logs for the operator is this attempt's and no earlier one's:
\* STILL_ENABLED ("the instrument confirms output is still on") is said only
\* of an output that is on, although a disable that raises on a later attempt
\* may have switched it off.
VerdictIsFresh ==
    pc = "idle" /\ op = "emergency" /\ rv = "False" =>
        attempt = MaxAttempts /\ (result = "STILL_ENABLED" => out) /\ result # "DISABLED"
============================================================================

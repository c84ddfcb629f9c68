------------------------------ MODULE LegacyRun ------------------------------
(***************************************************************************)
(* main.py: the unattended charge and discharge of every active channel    *)
(* through TestExecutor, BatteryTestSequence, ChargeCycle and              *)
(* DischargeCycle, from connect_all() to the process's exit code.          *)
(***************************************************************************)
EXTENDS Integers

CONSTANT NumChannels  \* settings.ACTIVE_CHANNELS

ASSUME LegacyRunAssumption == NumChannels \in Nat \ {0}

Channels == 1..NumChannels

VARIABLES
  pc,         \* where the run is
  ch,         \* the channel the loop is at
  out,        \* the SMU's output is on
  contact,    \* the channel whose relay is closed, 0 for none
  smuUp,      \* hw.smu.connected
  cancelled,  \* CancellationToken.requested
  exc,        \* the exception in flight: "none", "cancel" or "error"
  code,       \* the process's exit code
  critical    \* history, read by properties only: CRITICAL was logged for an
              \* output that could not be verified off, since it was last enabled

vars == <<pc, ch, out, contact, smuUp, cancelled, exc, code, critical>>

Init ==
    /\ pc = "connect" /\ ch = 1
    /\ out \in BOOLEAN /\ contact \in {0} \cup Channels  \* left by an earlier process
    /\ smuUp = FALSE /\ cancelled = FALSE /\ exc = "none"
    /\ code = 0 /\ critical = FALSE

---------------------------------------------------------------------------
(* Drivers, by what their calls promise *)

\* emergency_output_off(): verified (vacuously without a session), or CRITICAL
\* is logged; never raises.
OutputOff == out' = (out /\ ~smuUp) /\ UNCHANGED critical
OutputUnverified == smuUp /\ out' \in {out, FALSE} /\ critical' = TRUE
EmergencyOutputOff == OutputOff \/ OutputUnverified

RelayCloses == contact' = ch
RelayCloseRaises == contact' \in {contact, 0, ch}
RelayOpens == contact' = 0
RelayOpenRaises == contact' \in {contact, 0}

Go(next) == pc' = next /\ UNCHANGED exc
Raise(e, to) == pc' = to /\ exc' = e

---------------------------------------------------------------------------
(* main() *)

\* SIGINT only sets the token, from connect_all() until the handler is restored.
CtrlC ==
    /\ pc \notin {"disconnect", "output_ack", "disc_relay", "relay_ack", "disc_close", "exit"}
    /\ ~cancelled /\ cancelled' = TRUE
    /\ UNCHANGED <<pc, ch, out, contact, smuUp, exc, code, critical>>

\* connect_all(), then ResultManager.__enter__() opens the storage.
MainConnects ==
    /\ pc = "connect"
    /\ \E up \in SUBSET {"smu", "relay"} :
         /\ smuUp' = ("smu" \in up)
         /\ out' = (out /\ "smu" \notin up)
         /\ contact' = IF "relay" \in up THEN 0 ELSE contact
    /\ \/ pc' = "channel" /\ UNCHANGED code
       \/ pc' = "disconnect" /\ code' = 1
    /\ UNCHANGED <<ch, cancelled, exc, critical>>

\* HardwareInitError: connect_all() has rolled back, exit code 1.
MainConnectFails ==
    /\ pc = "connect" /\ pc' = "disconnect" /\ code' = 1
    /\ out' \in {out, FALSE} /\ contact' \in {contact, 0}
    /\ UNCHANGED <<ch, smuUp, cancelled, exc, critical>>

\* TestExecutor.run() has caught the exception; the storage is closed and the
\* report written, either of which may raise.
MainEnds ==
    /\ pc = "executor" /\ Go("disconnect")
    /\ code' \in {1, CASE exc = "none" -> 0 [] exc = "cancel" -> 3 [] OTHER -> 2}
    /\ UNCHANGED <<ch, out, contact, smuUp, cancelled, critical>>

\* disconnect_all(), in the outermost finally. Step 1: the output off, or
\* CRITICAL and the SAFETY FAULT screen, which waits for ENTER.
MainDisconnects ==
    /\ pc = "disconnect"
    /\ \/ OutputOff /\ Go("disc_relay")
       \/ OutputUnverified /\ Go("output_ack")
    /\ UNCHANGED <<ch, contact, smuUp, cancelled, code>>

\* Step 2: open_all() on a bank that is connected still, whatever the output did.
MainOpensRelays ==
    /\ pc = "disc_relay"
    /\ \/ RelayOpens /\ Go("disc_close")
       \/ RelayOpenRaises /\ Go("relay_ack")
       \/ UNCHANGED contact /\ Go("disc_close")      \* not connected
    /\ UNCHANGED <<ch, out, smuUp, cancelled, code, critical>>

\* Step 3: the sessions; that of an unverified output is left to the atexit
\* handlers.
MainClosesSessions ==
    /\ pc = "disc_close" /\ Go("exit") /\ smuUp' = FALSE
    /\ UNCHANGED <<ch, out, contact, cancelled, code, critical>>

Acknowledge ==
    /\ \/ pc = "output_ack" /\ Go("disc_relay")
       \/ pc = "relay_ack" /\ Go("disc_close")
    /\ UNCHANGED <<ch, out, contact, smuUp, cancelled, code, critical>>

---------------------------------------------------------------------------
(* BatteryTestSequence.run() *)

NextChannel ==
    IF ch < NumChannels THEN Go("channel") /\ ch' = ch + 1
                        ELSE Go("executor") /\ UNCHANGED ch

\* The current is read outside the try: a DAQ error meets no handler, a current
\* that is not zero skips the channel.
ChannelSkipped ==
    /\ pc = "channel"
    /\ \/ Raise("error", "executor") /\ UNCHANGED ch
       \/ NextChannel
    /\ UNCHANGED <<out, contact, smuUp, cancelled, code, critical>>

ChannelCloses ==
    /\ pc = "channel"
    /\ \/ cancelled /\ Raise("cancel", "stop_smu") /\ UNCHANGED contact
       \/ ~cancelled /\ RelayCloses /\ Go("charge")
       \/ ~cancelled /\ RelayCloseRaises /\ Raise("error", "stop_smu")
    /\ UNCHANGED <<ch, out, smuUp, cancelled, code, critical>>

\* The current between charge and discharge: not zero is a continue, which skips
\* the try's else and leaves the relay closed.
BetweenCycles ==
    /\ pc = "between"
    /\ \/ Go("discharge") /\ UNCHANGED ch
       \/ NextChannel
       \/ Raise("error", "stop_smu") /\ UNCHANGED ch
    /\ UNCHANGED <<out, contact, smuUp, cancelled, code, critical>>

\* The try's else: what raises here meets no handler.
ChannelOpens ==
    /\ pc = "open"
    /\ \/ RelayOpens /\ NextChannel
       \/ RelayOpenRaises /\ Raise("error", "executor") /\ UNCHANGED ch
    /\ UNCHANGED <<out, smuUp, cancelled, code, critical>>

\* safe_cancel_shutdown() / emergency_stop(): the output, then the relays.
StopOutput ==
    /\ pc = "stop_smu" /\ Go("stop_relay") /\ EmergencyOutputOff
    /\ UNCHANGED <<ch, contact, smuUp, cancelled, code>>

StopRelays ==
    /\ pc = "stop_relay" /\ Go("executor")
    /\ RelayOpens \/ RelayOpenRaises
    /\ UNCHANGED <<ch, out, smuUp, cancelled, code, critical>>

---------------------------------------------------------------------------
(* ChargeCycle.run(), DischargeCycle.run() *)

\* check_cancellation(), mode, output_enable(): before the try.
Arms(next) ==
    /\ \/ cancelled /\ Raise("cancel", "stop_smu") /\ UNCHANGED <<out, critical>>
       \/ ~cancelled /\ Raise("error", "stop_smu") /\ UNCHANGED <<out, critical>>
       \/ ~cancelled /\ smuUp /\ Raise("error", "stop_smu") /\ out' \in BOOLEAN /\ critical' = FALSE
       \/ ~cancelled /\ smuUp /\ Go(next) /\ out' = TRUE /\ critical' = FALSE
    /\ UNCHANGED <<ch, contact, smuUp, cancelled, code>>

\* The end condition or a timeout (False, which the caller drops), a
\* cancellation, a safety violation or an error.
Ends(next) ==
    /\ \/ Go(next)
       \/ cancelled /\ Raise("cancel", "stop_smu")
       \/ Raise("error", "stop_smu")
    /\ UNCHANGED <<ch, contact, smuUp, cancelled, code>>

ChargeArms == pc = "charge" /\ Arms("charging")

DischargeArms == pc = "discharge" /\ Arms("discharging")

\* A charge that returns on its timeout before the try whose finally turns off.
ChargeEndsWithoutFinally ==
    /\ pc = "charging"
    /\ EmergencyOutputOff \/ UNCHANGED <<out, critical>>
    /\ Ends("between")

\* The finally: emergency_output_off(), its failure only logged.
ChargeEnds == pc = "charging" /\ EmergencyOutputOff /\ Ends("between")

DischargeEnds == pc = "discharging" /\ EmergencyOutputOff /\ Ends("open")

---------------------------------------------------------------------------

Next ==
    \/ MainConnects \/ MainConnectFails \/ MainEnds \/ CtrlC
    \/ MainDisconnects \/ MainOpensRelays \/ MainClosesSessions \/ Acknowledge
    \/ ChannelSkipped \/ ChannelCloses \/ BetweenCycles \/ ChannelOpens
    \/ StopOutput \/ StopRelays
    \/ ChargeArms \/ ChargeEnds \/ DischargeArms \/ DischargeEnds

Spec == Init /\ [][Next]_vars

---------------------------------------------------------------------------
(* Properties *)

TypeOK ==
    /\ ch \in Channels /\ contact \in {0} \cup Channels /\ code \in 0..3
    /\ out \in BOOLEAN /\ smuUp \in BOOLEAN /\ cancelled \in BOOLEAN /\ critical \in BOOLEAN
    /\ exc \in {"none", "cancel", "error"}

\* No relay moves under a live output of a connected SMU unless CRITICAL was
\* logged since that output was last enabled: neither the ways a cycle ends, nor
\* the continue that leaves a relay closed, nor emergency_stop() and
\* disconnect_all() switch a battery that is being driven.
\* is_safe_to_switch_relay() alone would not do: with the relay open, a live
\* output draws no current.
RelaysMoveOnDeadOutput == [][contact' # contact /\ smuUp => ~out \/ critical]_vars

=============================================================================

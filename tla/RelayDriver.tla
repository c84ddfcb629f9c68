---------------------------- MODULE RelayDriver ----------------------------
(***************************************************************************)
(* hardware/relay_eth.py: NumatoRelayMatrix, the driver of an interlocked  *)
(* relay bank behind a Telnet socket, called by one thread at a time.      *)
(*                                                                         *)
(* The bank executes the commands of a socket in order and answers each    *)
(* with its echo, its result and a prompt. The driver never numbers a      *)
(* command and takes the next prompt it sees for its answer. A command can *)
(* be ignored by the bank, the link can drop, and a slow bank can answer   *)
(* after the driver's deadline, on the same socket.                        *)
(***************************************************************************)
EXTENDS Integers, Sequences, FiniteSets

CONSTANTS NumChannels,  \* num_channels
          MaxFaults     \* bound on the faults of a behaviour

ASSUME RelayAssumption ==
    /\ NumChannels \in Nat /\ NumChannels >= 2
    /\ MaxFaults \in Nat

Channels == 1..NumChannels

VARIABLES
  \* the bank and the socket
  mask,       \* the relays that are energised
  inbox,      \* commands sent and not yet executed
  replies,    \* answers not yet received
  sock,       \* "none", "up", or "broken": self._sock is set, the link is not
  connected,  \* self.connected
  \* the call in progress
  op, chan,   \* the public method and its channel
  stage,      \* the command it is at
  phase,      \* "send" or "recv" of that command
  try,        \* 1, or 2 after the automatic reconnect
  origin,     \* the command that a reconnect or an emergency interrupts
  rv,         \* how the last call ended
  faults,     \* faults so far, at most MaxFaults
  \* history, read by properties only
  late        \* whose answer this call may take for another's: "no" answer,
              \* one of its "own" that came late, one left from "before" it

bankVars == <<mask, inbox, replies>>
callVars == <<op, chan, stage, phase, try, origin, rv>>
vars == <<bankVars, sock, connected, callVars, faults, late>>

EmergencyStages == {"emerg_off", "emerg_read"}
ReadAllStages == {"check", "verify_off", "verify_bank", "hello", "emerg_read"}
CommandStages == ReadAllStages \cup {"off", "on", "verify_one", "emerg_off"}
Command == [cmd : {"readall", "writeall", "on", "read"}, ch : Channels]
Reply == [cmd : {"readall", "writeall", "on", "read"}, val : SUBSET Channels]

\* What each command of a call sends. The channel of the first two is unused.
CommandOf(s) == [cmd |-> CASE s \in ReadAllStages -> "readall"
                           [] s \in {"off", "emerg_off"} -> "writeall"
                           [] s = "on" -> "on"
                           [] OTHER -> "read",
                 ch |-> chan]

Init ==
    /\ mask \in SUBSET Channels        \* whatever an earlier process left
    /\ inbox = <<>> /\ replies = <<>>
    /\ sock = "none" /\ connected = FALSE
    /\ op = "none" /\ chan = 1 /\ stage = "idle" /\ phase = "send"
    /\ try = 1 /\ origin = "check" /\ rv = "none"
    /\ faults = 0 /\ late = "no"

Fault == faults < MaxFaults /\ faults' = faults + 1

---------------------------------------------------------------------------
(* The bank *)

Apply(m, c) == CASE c.cmd = "writeall" -> {}
                 [] c.cmd = "on" -> m \cup {c.ch}
                 [] OTHER -> m

\* The answer: the echo of the command and, for a read, the state.
Answer(m, c) == [cmd |-> c.cmd,
                 val |-> CASE c.cmd = "readall" -> m
                           [] c.cmd = "read" -> m \cap {c.ch}
                           [] OTHER -> {}]

Execute ==
    /\ inbox # <<>>
    /\ LET c == Head(inbox)
       IN /\ \/ mask' = Apply(mask, c) /\ UNCHANGED faults
             \/ c.cmd \in {"writeall", "on"} /\ UNCHANGED mask /\ Fault
          /\ replies' = Append(replies, Answer(mask', c))
    /\ inbox' = Tail(inbox)
    /\ UNCHANGED <<sock, connected, callVars, late>>

\* The mask after the first k commands on the way: what no later "writeall"
\* among them switched off.
After(k) ==
    LET Kept(i) == \A j \in (i + 1)..k : inbox[j].cmd # "writeall"
    IN {c \in Channels : \/ c \in mask /\ Kept(0)
                         \/ \E i \in 1..k : inbox[i] = [cmd |-> "on", ch |-> c] /\ Kept(i)}

\* Closing a socket: some of what was still on its way is executed.
Flush == /\ \E k \in 0..Len(inbox) : mask' = After(k)
         /\ inbox' = <<>> /\ replies' = <<>>

---------------------------------------------------------------------------
(* The parsers, on the answer to any command *)

\* _parse_readall_response(): a hex number that ends the text. The echo of
\* "relay writeall 00" ends in one; so does "off".
ParsesAsMask(r) == r.cmd \in {"readall", "writeall"} \/ (r.cmd = "read" /\ r.val = {})
ParsedMask(r) == CASE r.cmd = "readall" -> r.val
                   [] r.cmd = "writeall" -> {}
                   [] OTHER -> Channels          \* "ff"

\* _parse_read_response(): "on" or "off" anywhere in the text, so also in the
\* echo of "relay on 3".
ParsesAsState(r) == r.cmd \in {"on", "read"}
ParsedState(r) == r.cmd = "on" \/ r.val # {}

---------------------------------------------------------------------------
(* How a call goes on *)

Return(v) == stage' = "idle" /\ rv' = v /\ UNCHANGED <<op, chan, phase, try, origin>>

GoTo(s) == stage' = s /\ phase' = "send" /\ try' = 1 /\ UNCHANGED <<op, chan, origin, rv>>

\* _emergency_all_off(), once per failure, on whatever socket there is.
Emergency(from) == /\ stage' = "emerg_off" /\ phase' = "send" /\ origin' = from
                   /\ UNCHANGED <<op, chan, try, rv>>

\* The original failure is raised; check_current_relay_state() swallows it.
Raise(from) == IF from = "check" THEN GoTo("off") ELSE Return("error")

\* connect() gave up: raised to the caller, or the emergency of a reconnect.
ConnectFails == IF op = "connect" THEN Return("error") ELSE Emergency(origin)

\* _call_with_reconnect() on a RelayError or a timeout.
CommError == CASE stage \in EmergencyStages -> Raise(origin)
               [] stage = "hello" -> ConnectFails
               [] stage \notin EmergencyStages \cup {"hello"} /\ try = 1 ->
                    /\ stage' = "reconnect" /\ origin' = stage
                    /\ UNCHANGED <<op, chan, phase, try, rv>>
               [] OTHER -> Emergency(stage)

\* An exception _call_with_reconnect() does not cover: an unparseable answer
\* (parsed by its caller), or the OSError of recv().
OtherError == CASE stage \in EmergencyStages -> Raise(origin)
                [] stage = "hello" -> ConnectFails
                [] OTHER -> Raise(stage)

\* The stage after a successful command.
AfterCommand ==
    CASE stage = "check" -> GoTo("off")
      [] stage = "off" -> GoTo("verify_off")
      [] stage = "verify_off" -> IF op = "close" THEN GoTo("on") ELSE Return("ok")
      [] stage = "on" -> GoTo("verify_one")
      [] stage = "verify_one" -> GoTo("verify_bank")
      [] stage = "verify_bank" -> Return("ok")
      [] stage = "emerg_off" -> stage' = "emerg_read" /\ phase' = "send"
                                /\ UNCHANGED <<op, chan, try, origin, rv>>
      [] stage = "emerg_read" -> Raise(origin)
      [] stage = "hello" /\ op = "connect" -> Return("ok")
      [] OTHER -> /\ stage' = origin /\ phase' = "send" /\ try' = 2
                  /\ UNCHANGED <<op, chan, origin, rv>>

\* A verification that only logs a mismatch.
MismatchLogged == AfterCommand

\* verify_all() and verify_single() on a mismatch.
Mismatch == Emergency(stage)

Expected == CASE stage = "verify_off" -> {}
              [] stage = "verify_bank" -> {chan}
              [] OTHER -> {}

\* What the driver makes of an answer.
Accept(r) ==
    CASE stage \in {"off", "on", "emerg_off"} -> AfterCommand
      [] stage = "verify_one" ->
           CASE ~ParsesAsState(r) -> OtherError
             [] ParsesAsState(r) /\ ~ParsedState(r) -> Mismatch
             [] OTHER -> AfterCommand
      [] OTHER ->
           CASE ~ParsesAsMask(r) -> OtherError
             [] ParsesAsMask(r) /\ stage \in {"verify_off", "verify_bank"}
                                /\ ParsedMask(r) # Expected -> Mismatch
             [] OTHER -> AfterCommand

---------------------------------------------------------------------------
(* The public methods *)

Begin(o, n) ==
    /\ stage = "idle"
    /\ op' = o /\ chan' = n /\ try' = 1 /\ phase' = "send"
    /\ stage' = IF o = "connect" THEN "reconnect" ELSE "check"
    /\ late' = IF inbox = <<>> /\ replies = <<>> THEN "no" ELSE "before"
    /\ UNCHANGED <<bankVars, sock, connected, origin, rv, faults>>

\* connect(), alone or from _call_with_reconnect(): the old socket is closed,
\* a new one opened and logged in, or not.
Reconnect ==
    /\ stage = "reconnect"
    /\ Flush
    /\ connected' = FALSE
    /\ \/ /\ sock' = "up" /\ stage' = "hello" /\ phase' = "send"
          /\ UNCHANGED <<op, chan, try, origin, rv, faults>>
       \/ sock' = "none" /\ ConnectFails /\ Fault
    /\ UNCHANGED late

Disconnect ==
    /\ stage = "idle" /\ sock # "none"
    /\ Flush
    /\ sock' = "none" /\ connected' = FALSE
    /\ op' = "disconnect" /\ rv' = "ok"
    /\ UNCHANGED <<chan, stage, phase, try, origin, faults, late>>

\* _send_raw(). A send on a dead link fails at once or by its answer.
Send ==
    /\ stage \in CommandStages /\ phase = "send"
    /\ IF sock = "up"
       THEN /\ inbox' = Append(inbox, CommandOf(stage))
            /\ phase' = "recv"
            /\ UNCHANGED <<op, chan, stage, try, origin, rv>>
       ELSE CommError /\ UNCHANGED inbox
    /\ UNCHANGED <<mask, replies, sock, connected, faults, late>>

\* _read_until(): the text up to the first prompt, and whatever else came in
\* the same chunk, which is thrown away.
Receive ==
    /\ phase = "recv" /\ stage \in CommandStages /\ replies # <<>>
    /\ \E k \in 1..Len(replies) : replies' = SubSeq(replies, k + 1, Len(replies))
    /\ Accept(Head(replies))
    /\ connected' = IF stage = "hello" THEN ParsesAsMask(Head(replies)) ELSE connected
    /\ UNCHANGED <<mask, inbox, sock, faults, late>>

\* The link goes: the peer closes it, or nothing is heard of it again.
LinkDrops ==
    /\ phase = "recv" /\ stage \in CommandStages /\ Fault
    /\ sock' = "broken" /\ CommError
    /\ UNCHANGED <<bankVars, connected, late>>

\* The peer resets the connection: recv() raises an OSError.
LinkResets ==
    /\ phase = "recv" /\ stage \in CommandStages /\ Fault
    /\ sock' = "broken" /\ OtherError
    /\ UNCHANGED <<bankVars, connected, late>>

\* The deadline passes; the answer is still to come on this socket.
AnswerLate ==
    /\ phase = "recv" /\ stage \in CommandStages /\ replies = <<>> /\ Fault
    /\ CommError
    /\ late' = IF late = "no" THEN "own" ELSE late
    /\ UNCHANGED <<bankVars, sock, connected>>

Call == \/ Begin("connect", 1) \/ Begin("open_all", 1)
        \/ \E n \in Channels : Begin("open", n) \/ Begin("close", n)

InCall == Reconnect \/ Send \/ Receive \/ LinkDrops \/ LinkResets \/ AnswerLate

Next == Call \/ Disconnect \/ InCall \/ Execute

Spec == Init /\ [][Next]_vars

---------------------------------------------------------------------------
(* Properties *)

\* Every variable has its type; no call retries more than once.
TypeOK ==
    /\ mask \in SUBSET Channels
    /\ inbox \in Seq(Command) /\ replies \in Seq(Reply)
    /\ sock \in {"none", "up", "broken"} /\ connected \in BOOLEAN
    /\ op \in {"none", "connect", "disconnect", "open", "open_all", "close"}
    /\ chan \in Channels
    /\ stage \in CommandStages \cup {"idle", "reconnect"}
    /\ phase \in {"send", "recv"} /\ try \in {1, 2}
    /\ origin \in CommandStages
    /\ rv \in {"none", "ok", "error"}
    /\ faults \in 0..MaxFaults /\ late \in {"no", "own", "before"}

\* The interlock: a relay is only ever energised when the whole bank is off,
\* whatever was lost or repeated by the reconnect, unless the answer to an
\* earlier command may be taken for the readback. A call that finds such an
\* answer waiting is exempt to its end, also after a reconnect has flushed it.
OnlyOntoDeadBank == [][late # "no" \/ mask' \subseteq mask \/ mask = {}]_vars

\* A call returns normally only with the bank as it promised. After close(n)
\* relay n alone is energised, even when answers came late during the call and
\* were taken for those to later commands: only answers left over from earlier
\* calls can imitate the two readbacks that end it. After open() and open_all()
\* every relay is off, unless their one readback met a late answer.
ReturnMeansBank ==
    stage = "idle" /\ rv = "ok" =>
        /\ op = "close" /\ late # "before" => mask = {chan}
        /\ op \in {"open", "open_all"} /\ late = "no" => mask = {}
============================================================================

------------------------- MODULE RelayDriverProofs -------------------------
(***************************************************************************)
(* Proofs about RelayDriver, for every number of channels and of faults.   *)
(*                                                                         *)
(* What a call may conclude from an answer depends on which command the    *)
(* answer belongs to, and the driver does not know. The invariants follow  *)
(* the commands that are on their way, executed or not, as one stream: its *)
(* first entry is the command whose answer is taken next. A call that      *)
(* began on a quiet link and met no late answer has at most its own        *)
(* command in the stream (NoLateInv). One that met late answers of its own *)
(* has older ones in front, and the order in which close() sends commands  *)
(* whose answers it can parse keeps them from imitating its last two       *)
(* readbacks (CloseInv).                                                   *)
(***************************************************************************)
EXTENDS RelayDriver, SequenceTheorems, TLAPS

---------------------------------------------------------------------------
(* How a step moves the call on *)

\* A command has failed: the call ends with an error, goes on to the all-off
\* after a failed state check, begins the emergency, or reconnects.
Fails ==
    /\ op' = op /\ chan' = chan /\ phase' \in {phase, "send"} /\ try' \in {try, 1, 2}
    /\ \/ stage' = "idle" /\ rv' = "error" /\ origin' = origin
       \/ /\ stage' = "off" /\ phase' = "send" /\ origin' = origin /\ rv' = rv
          /\ stage = "check" \/ (stage \in EmergencyStages /\ origin = "check")
       \/ /\ stage' = "emerg_off" /\ phase' = "send" /\ stage \notin EmergencyStages
          /\ origin' = IF stage = "hello" THEN origin ELSE stage
          /\ rv' = rv /\ (stage = "hello" => op # "connect")
       \/ /\ stage' = "reconnect" /\ origin' = stage /\ rv' = rv
          /\ stage \notin EmergencyStages \cup {"hello"}

\* A command has succeeded: the next one begins, or the call returns.
Advances ==
    /\ op' = op /\ chan' = chan /\ origin' = origin
    /\ phase' \in {phase, "send"} /\ try' \in {try, 1, 2}
    /\ \/ stage = "check" /\ stage' = "off" /\ phase' = "send" /\ rv' = rv
       \/ stage = "off" /\ stage' = "verify_off" /\ phase' = "send" /\ rv' = rv
       \/ stage = "verify_off" /\ op = "close" /\ stage' = "on" /\ phase' = "send" /\ rv' = rv
       \/ stage = "verify_off" /\ op # "close" /\ stage' = "idle" /\ rv' = "ok"
       \/ stage = "on" /\ stage' = "verify_one" /\ phase' = "send" /\ rv' = rv
       \/ stage = "verify_one" /\ stage' = "verify_bank" /\ phase' = "send" /\ rv' = rv
       \/ stage = "verify_bank" /\ stage' = "idle" /\ rv' = "ok"
       \/ stage = "emerg_off" /\ stage' = "emerg_read" /\ phase' = "send" /\ rv' = rv
       \/ stage = "emerg_read" /\ origin = "check" /\ stage' = "off" /\ phase' = "send" /\ rv' = rv
       \/ stage = "emerg_read" /\ origin # "check" /\ stage' = "idle" /\ rv' = "error"
       \/ stage = "hello" /\ op = "connect" /\ stage' = "idle" /\ rv' = "ok"
       \/ stage = "hello" /\ op # "connect" /\ stage' = origin /\ phase' = "send" /\ rv' = rv

\* The answers that the readbacks of a call accept.
Satisfies(r) ==
    /\ stage = "verify_one" => ParsesAsState(r)
    /\ stage \in {"verify_off", "verify_bank"} => ParsesAsMask(r) /\ ParsedMask(r) = Expected

\* _call_with_reconnect() on a failed command.
LEMMA CommErrorFails ==
    ASSUME stage \in CommandStages, CommError
    PROVE  Fails
<1>1. CASE stage \in EmergencyStages
  BY <1>1, Zenon DEF CommError, Raise, Return, GoTo, Fails, EmergencyStages
<1>2. CASE stage = "hello"
  BY <1>2 DEF CommError, ConnectFails, Emergency, Return, Fails, EmergencyStages
<1>3. CASE stage \notin EmergencyStages \cup {"hello"}
  <2>1. CASE try = 1
    BY <1>3, <2>1 DEF CommError, Fails
  <2>2. CASE try # 1
    BY <1>3, <2>2 DEF CommError, Emergency, Fails
  <2> QED BY <2>1, <2>2
<1> QED BY <1>1, <1>2, <1>3

\* An exception that the reconnect does not cover.
LEMMA OtherErrorFails ==
    ASSUME stage \in CommandStages, OtherError
    PROVE  Fails
<1>1. CASE stage \in EmergencyStages
  BY <1>1 DEF OtherError, Raise, Return, GoTo, Fails, EmergencyStages
<1>2. CASE stage = "hello"
  BY <1>2 DEF OtherError, ConnectFails, Emergency, Return, Fails, EmergencyStages
<1>3. CASE stage \notin EmergencyStages \cup {"hello"}
  BY <1>3 DEF OtherError, Raise, Return, GoTo, Fails
<1> QED BY <1>1, <1>2, <1>3

\* The order of a call's commands.
LEMMA AfterCommandAdvances ==
    ASSUME stage \in CommandStages, AfterCommand
    PROVE  Advances
<1> USE DEF Advances, Return, GoTo
<1>1. CASE stage \in {"check", "off", "on", "verify_one", "emerg_off"}
  BY <1>1 DEF AfterCommand
<1>2. CASE stage \in {"verify_off", "verify_bank"}
  BY <1>2 DEF AfterCommand
<1>3. CASE stage = "emerg_read"
  BY <1>3 DEF AfterCommand, Raise
<1>4. CASE stage = "hello"
  BY <1>4 DEF AfterCommand
<1> QED BY <1>1, <1>2, <1>3, <1>4 DEF CommandStages, ReadAllStages

\* An answer is either refused, or it satisfies the readback it is taken for.
LEMMA AcceptOutcome ==
    ASSUME NEW r, stage \in CommandStages, Accept(r)
    PROVE  Fails \/ (Advances /\ Satisfies(r))
<1>a. Mismatch /\ stage \notin EmergencyStages \cup {"hello"} => Fails
  BY DEF Mismatch, Emergency, Fails
<1>1. CASE stage \in {"off", "on", "emerg_off"}
  BY <1>1, AfterCommandAdvances DEF Accept, Satisfies
<1>2. CASE stage = "verify_one"
  <2>1. CASE ~ParsesAsState(r)
    BY <1>2, <2>1, OtherErrorFails DEF Accept
  <2>2. CASE ParsesAsState(r) /\ ~ParsedState(r)
    BY <1>2, <2>2, <1>a DEF Accept, EmergencyStages
  <2>3. CASE ParsesAsState(r) /\ ParsedState(r)
    BY <1>2, <2>3, AfterCommandAdvances DEF Accept, Satisfies
  <2> QED BY <2>1, <2>2, <2>3
<1>3. CASE stage \notin {"off", "on", "emerg_off", "verify_one"}
  <2>1. CASE ~ParsesAsMask(r)
    BY <1>3, <2>1, OtherErrorFails DEF Accept
  <2>2. CASE ParsesAsMask(r) /\ stage \in {"verify_off", "verify_bank"}
                             /\ ParsedMask(r) # Expected
    BY <1>3, <2>2, <1>a DEF Accept, EmergencyStages
  <2>3. CASE ParsesAsMask(r) /\ ~(/\ stage \in {"verify_off", "verify_bank"}
                                  /\ ParsedMask(r) # Expected)
    BY <1>3, <2>3, AfterCommandAdvances DEF Accept, Satisfies
  <2> QED BY <2>1, <2>2, <2>3
<1> QED BY <1>1, <1>2, <1>3

---------------------------------------------------------------------------
(* Types *)

BankType == mask \in SUBSET Channels /\ inbox \in Seq(Command) /\ replies \in Seq(Reply)

CallType ==
    /\ sock \in {"none", "up", "broken"}
    /\ op \in {"none", "connect", "disconnect", "open", "open_all", "close"}
    /\ chan \in Channels
    /\ stage \in CommandStages \cup {"idle", "reconnect"}
    /\ phase \in {"send", "recv"}
    /\ origin \in CommandStages
    /\ rv \in {"none", "ok", "error"}
    /\ late \in {"no", "own", "before"}

CounterType == try \in {1, 2} /\ faults \in 0..MaxFaults

\* A command that the driver sends, and the answer of the bank to a command,
\* are of the types of the two channels.
LEMMA WireTypes ==
    ASSUME BankType, CallType
    PROVE  /\ CommandOf(stage) \in Command
           /\ \A m \in SUBSET Channels, c \in Command : Answer(m, c) \in Reply
           /\ \A m \in SUBSET Channels, c \in Command : Apply(m, c) \in SUBSET Channels
<1>1. CommandOf(stage) \in Command
  BY DEF CallType, CommandOf, Command
<1>2. ASSUME NEW m \in SUBSET Channels, NEW c \in Command
      PROVE  Answer(m, c) \in Reply
  <2>1. c.cmd \in {"readall", "writeall", "on", "read"}
    BY DEF Command
  <2>2. (CASE c.cmd = "readall" -> m
           [] c.cmd = "read" -> m \cap {c.ch}
           [] OTHER -> {}) \in SUBSET Channels
    BY <2>1
  <2> QED BY <2>1, <2>2 DEF Answer, Reply
<1>3. ASSUME NEW m \in SUBSET Channels, NEW c \in Command
      PROVE  Apply(m, c) \in SUBSET Channels
  BY DEF Apply, Command
<1> QED BY <1>1, <1>2, <1>3

\* What is on the wire stays well typed.
LEMMA BankTypeStep ==
    ASSUME BankType, CallType, [Next]_vars
    PROVE  BankType'
<1>1. CASE Execute
  <2>1. Head(inbox) \in Command /\ inbox' \in Seq(Command)
    BY <1>1, EmptySeq DEF Execute, BankType
  <2>2. mask' \in SUBSET Channels
    BY <1>1, <2>1, WireTypes DEF Execute, BankType
  <2>3. replies' \in Seq(Reply)
    BY <1>1, <2>1, <2>2, WireTypes DEF Execute, BankType
  <2> QED BY <2>1, <2>2, <2>3 DEF BankType
<1>2. CASE Send
  <2>1. CommandOf(stage) \in Command
    BY WireTypes
  <2>2. inbox' \in Seq(Command)
    BY <1>2, <2>1 DEF Send, BankType
  <2> QED BY <1>2, <2>2 DEF Send, BankType
<1>3. CASE Receive
  <2>1. PICK k \in 1..Len(replies) : replies' = SubSeq(replies, k + 1, Len(replies))
    BY <1>3 DEF Receive
  <2>2. replies' \in Seq(Reply)
    BY <2>1, SubSeqProperties DEF BankType
  <2> QED BY <1>3, <2>2 DEF Receive, BankType
<1>4. CASE Flush
  <2>1. mask' \in SUBSET Channels
    BY <1>4 DEF Flush, After
  <2>2. inbox' \in Seq(Command) /\ replies' \in Seq(Reply)
    BY <1>4, EmptySeq DEF Flush
  <2> QED BY <2>1, <2>2 DEF BankType
<1>5. CASE UNCHANGED bankVars
  BY <1>5 DEF BankType, bankVars
<1> QED BY <1>1, <1>2, <1>3, <1>4, <1>5
        DEF Next, Call, InCall, Begin, Disconnect, Reconnect, LinkDrops, LinkResets,
            AnswerLate, vars

\* The steps in the middle of a call: sending a command, taking an answer, or
\* failing to.
LEMMA CallStep ==
    ASSUME BankType, InCall, stage # "reconnect"
    PROVE  /\ stage \in CommandStages
           /\ \/ /\ Send /\ sock = "up" /\ phase' = "recv"
                 /\ UNCHANGED <<op, chan, stage, try, origin, rv>>
              \/ Send /\ sock # "up" /\ Fails /\ UNCHANGED inbox
              \/ Receive /\ (Fails \/ (Advances /\ Satisfies(replies[1])))
              \/ (LinkDrops \/ LinkResets \/ AnswerLate) /\ Fails
<1>1. CASE Send
  BY <1>1, CommErrorFails DEF Send
<1>2. CASE Receive
  <2>1. Head(replies) = replies[1] /\ Accept(Head(replies)) /\ stage \in CommandStages
    BY <1>2 DEF Receive
  <2> QED BY <1>2, <2>1, AcceptOutcome
<1>3. CASE LinkDrops
  BY <1>3, CommErrorFails DEF LinkDrops
<1>4. CASE LinkResets
  BY <1>4, OtherErrorFails DEF LinkResets
<1>5. CASE AnswerLate
  BY <1>5, CommErrorFails DEF AnswerLate
<1>6. ~Reconnect
  BY DEF Reconnect
<1> QED BY <1>1, <1>2, <1>3, <1>4, <1>5, <1>6 DEF InCall

\* A connect() that opened a socket goes on to its first readall; one that did
\* not ends the call, or begins the emergency of the call that reconnects.
LEMMA ReconnectStep ==
    ASSUME Reconnect
    PROVE  /\ stage = "reconnect" /\ Flush /\ UNCHANGED <<op, chan, late>>
           /\ origin' = origin /\ phase' \in {phase, "send"} /\ try' = try
           /\ \/ stage' = "hello" /\ phase' = "send" /\ sock' = "up" /\ rv' = rv
              \/ stage' = "idle" /\ op = "connect" /\ sock' = "none" /\ rv' = "error"
              \/ /\ stage' = "emerg_off" /\ phase' = "send" /\ op # "connect"
                 /\ sock' = "none" /\ rv' = rv
BY DEF Reconnect, ConnectFails, Return, Emergency

\* What the driver keeps of a call stays well typed.
LEMMA CallTypeStep ==
    ASSUME BankType, CallType, CounterType, [Next]_vars
    PROVE  CallType' /\ CounterType'
<1> USE RelayAssumption
<1>1. CASE Call
  <2>1. PICK o \in {"connect", "open", "open_all", "close"}, n \in Channels : Begin(o, n)
    BY <1>1 DEF Call, Channels
  <2> QED BY <2>1 DEF Begin, CallType, CounterType, CommandStages, ReadAllStages
<1>2. CASE Disconnect
  BY <1>2 DEF Disconnect, CallType, CounterType
<1>3. CASE Execute
  BY <1>3 DEF Execute, Fault, callVars, CallType, CounterType
<1>4. CASE Reconnect
  <2>1. faults' \in 0..MaxFaults
    BY <1>4 DEF Reconnect, Fault, CounterType
  <2> QED BY <1>4, <2>1, ReconnectStep DEF CallType, CounterType, CommandStages,
              ReadAllStages
<1>5. CASE InCall /\ stage # "reconnect"
  <2>1. faults' \in 0..MaxFaults
    BY <1>5, CallStep DEF Send, Receive, LinkDrops, LinkResets, AnswerLate, Fault, CounterType
  <2>2. sock' \in {"none", "up", "broken"} /\ late' \in {"no", "own", "before"}
    BY <1>5, CallStep DEF Send, Receive, LinkDrops, LinkResets, AnswerLate, CallType
  <2>3. CASE Fails
    BY <1>5, CallStep, <2>1, <2>2, <2>3 DEF Fails, CallType, CounterType, CommandStages,
       EmergencyStages, ReadAllStages
  <2>4. CASE Advances
    BY <1>5, CallStep, <2>1, <2>2, <2>4 DEF Advances, CallType, CounterType, CommandStages,
       EmergencyStages, ReadAllStages
  <2>5. CASE Send /\ phase' = "recv" /\ UNCHANGED <<op, chan, stage, try, origin, rv>>
    BY <2>1, <2>2, <2>5 DEF CallType, CounterType
  <2> QED BY <1>5, CallStep, <2>3, <2>4, <2>5
<1>6. CASE UNCHANGED vars
  BY <1>6 DEF vars, callVars, CallType, CounterType
<1>7. Reconnect => stage = "reconnect"
  BY DEF Reconnect
<1> QED BY <1>1, <1>2, <1>3, <1>4, <1>5, <1>6, <1>7 DEF Next, InCall,
           Send, Receive, LinkDrops, LinkResets, AnswerLate, CommandStages, ReadAllStages

\* TypeOK holds initially and every step keeps it.
LEMMA TypeInductive ==
    /\ Init => TypeOK
    /\ TypeOK /\ [Next]_vars => TypeOK'
<1>1. Init => TypeOK
  <2> SUFFICES ASSUME Init PROVE TypeOK
    OBVIOUS
  <2>1. BankType
    BY EmptySeq DEF Init, BankType
  <2>2. CallType
    BY RelayAssumption DEF Init, CallType, Channels, CommandStages, ReadAllStages
  <2>3. CounterType
    BY RelayAssumption DEF Init, CounterType
  <2>4. connected \in BOOLEAN
    BY Zenon DEF Init
  <2> QED BY <2>1, <2>2, <2>3, <2>4, Zenon DEF TypeOK, BankType, CallType, CounterType
<1>2. ASSUME TypeOK, [Next]_vars PROVE TypeOK'
  <2>1. BankType /\ CallType /\ CounterType /\ connected \in BOOLEAN
    BY <1>2, Zenon DEF TypeOK, BankType, CallType, CounterType
  <2>2. BankType'
    BY <1>2, <2>1, BankTypeStep
  <2>3. CallType' /\ CounterType'
    BY <1>2, <2>1, CallTypeStep
  <2>4. connected' \in BOOLEAN
    <3>1. CASE connected' = connected
      BY <2>1, <3>1, Zenon
    <3>2. CASE connected' = FALSE
      BY <3>2, Zenon
    <3>3. CASE Receive
      BY <2>1, <3>3, Zenon DEF Receive, ParsesAsMask
    <3> QED BY <1>2, <3>1, <3>2, <3>3, Zenon DEF Next, Call, InCall, Begin, Disconnect,
               Execute, Reconnect, Send, LinkDrops, LinkResets, AnswerLate, vars
  <2> QED BY <2>2, <2>3, <2>4, Zenon DEF TypeOK, BankType, CallType, CounterType
<1> QED BY <1>1, <1>2

\* The driver's fields, the call in progress and the bank's queues keep their
\* types, and no call retries more than once.
THEOREM TypeCorrect == Spec => []TypeOK
BY TypeInductive, PTL DEF Spec

---------------------------------------------------------------------------
(* The stream of commands whose answers have not been taken *)

Pending == Len(replies) + Len(inbox)
Cmd(i) == IF i <= Len(replies) THEN replies[i].cmd ELSE inbox[i - Len(replies)].cmd

\* The stream is finite and counts its executed commands first.
LEMMA StreamLengths ==
    ASSUME BankType
    PROVE  /\ Len(replies) \in Nat /\ Len(inbox) \in Nat /\ Pending \in Nat
           /\ inbox = <<>> <=> Len(inbox) = 0
           /\ replies = <<>> <=> Len(replies) = 0
BY EmptySeq DEF BankType, Pending

\* Executing a command does not change the stream.
LEMMA StreamExecute ==
    ASSUME BankType, Execute
    PROVE  /\ Len(inbox) > 0 /\ Len(inbox') = Len(inbox) - 1
           /\ Len(replies') = Len(replies) + 1 /\ Pending' = Pending
           /\ \A i \in 1..Pending : Cmd(i)' = Cmd(i)
           /\ replies'[Len(replies')] = Answer(mask', inbox[1])
<1>1. Len(inbox) > 0
  BY StreamLengths DEF Execute
<1>2. Len(inbox') = Len(inbox) - 1
      /\ \A i \in 1..Len(inbox') : inbox'[i] = inbox[i + 1]
  BY <1>1, StreamLengths DEF Execute, BankType
<1>3. replies' = Append(replies, Answer(mask', inbox[1]))
  BY DEF Execute
<1>4. Len(replies') = Len(replies) + 1
      /\ \A i \in 1..Len(replies) : replies'[i] = replies[i]
  BY <1>3, StreamLengths DEF BankType
<1>5. replies'[Len(replies')] = Answer(mask', inbox[1])
  BY <1>3, <1>4, StreamLengths DEF BankType
<1>6. Answer(mask', inbox[1]).cmd = inbox[1].cmd
  BY DEF Answer
<1>7. Pending' = Pending
  <2>1. Pending' = (Len(replies) + 1) + (Len(inbox) - 1)
    BY <1>2, <1>4 DEF Pending
  <2> QED BY <2>1, StreamLengths DEF Pending
<1>8. ASSUME NEW i \in 1..Pending PROVE Cmd(i)' = Cmd(i)
  <2>1. CASE i <= Len(replies)
    BY <1>4, <2>1, StreamLengths DEF Cmd, Pending
  <2>2. CASE i = Len(replies) + 1
    BY <1>4, <1>5, <1>6, <2>2, StreamLengths DEF Cmd, Pending
  <2>3. CASE i > Len(replies) + 1
    <3>1. i - Len(replies') \in 1..Len(inbox')
      BY <1>2, <1>4, <2>3, StreamLengths DEF Pending
    <3>2. inbox'[i - Len(replies')] = inbox[i - Len(replies)]
      BY <1>2, <1>4, <3>1, StreamLengths DEF Pending
    <3> QED BY <1>4, <2>3, <3>2, StreamLengths DEF Cmd, Pending
  <2> QED BY <2>1, <2>2, <2>3, StreamLengths DEF Pending
<1> QED BY <1>1, <1>2, <1>4, <1>5, <1>7, <1>8

\* Sending a command appends it.
LEMMA StreamSend ==
    ASSUME BankType, NEW c \in Command, inbox' = Append(inbox, c), replies' = replies
    PROVE  /\ Len(inbox') = Len(inbox) + 1 /\ inbox'[Len(inbox')] = c
           /\ Pending' = Pending + 1
           /\ \A i \in 1..Pending : Cmd(i)' = Cmd(i)
           /\ \A i : i = Pending + 1 => Cmd(i)' = c.cmd
<1>1. Len(inbox') = Len(inbox) + 1 /\ inbox'[Len(inbox')] = c
      /\ \A i \in 1..Len(inbox) : inbox'[i] = inbox[i]
  BY StreamLengths DEF BankType
<1>2. Pending' = Pending + 1
  BY <1>1, StreamLengths DEF Pending
<1>3. ASSUME NEW i \in 1..Pending PROVE Cmd(i)' = Cmd(i)
  <2>1. CASE i <= Len(replies)
    BY <2>1 DEF Cmd
  <2>2. CASE i > Len(replies)
    BY <1>1, <2>2, StreamLengths DEF Cmd, Pending
  <2> QED BY <2>1, <2>2, StreamLengths
<1>4. ASSUME NEW i, i = Pending + 1 PROVE Cmd(i)' = c.cmd
  <2>1. i > Len(replies) /\ i - Len(replies) = Len(inbox') /\ i \in Nat
    BY <1>1, <1>4, StreamLengths DEF Pending
  <2> QED BY <1>1, <2>1, StreamLengths DEF Cmd
<1> QED BY <1>1, <1>2, <1>3, <1>4

\* Taking an answer drops a prefix of the executed part of the stream.
LEMMA StreamReceive ==
    ASSUME BankType, Receive
    PROVE  \E k \in 1..Len(replies) :
              /\ Len(replies') = Len(replies) - k /\ inbox' = inbox
              /\ Pending' = Pending - k
              /\ \A i \in 1..Pending' : Cmd(i)' = Cmd(i + k)
<1>1. PICK k \in 1..Len(replies) : replies' = SubSeq(replies, k + 1, Len(replies))
  BY DEF Receive
<1>2. /\ Len(replies') = Len(replies) - k
      /\ \A i \in 1..(Len(replies) - k) : replies'[i] = replies[i + k]
  BY <1>1, StreamLengths, SubSeqProperties DEF BankType
<1>3. inbox' = inbox
  BY DEF Receive
<1>4. Pending' = Pending - k
  BY <1>2, <1>3, StreamLengths DEF Pending
<1>5. ASSUME NEW i \in 1..Pending' PROVE Cmd(i)' = Cmd(i + k)
  <2>1. CASE i <= Len(replies) - k
    BY <1>2, <2>1, StreamLengths DEF Cmd, Pending
  <2>2. CASE i > Len(replies) - k
    BY <1>2, <1>3, <2>2, StreamLengths DEF Cmd, Pending
  <2> QED BY <2>1, <2>2, <1>4, StreamLengths
<1> QED BY <1>2, <1>3, <1>4, <1>5

---------------------------------------------------------------------------
(* The order of a call *)

\* The commands of close() after the all-off that it verified.
Switching == {"on", "verify_one", "verify_bank"}

\* The command that a call is at, a reconnect in its middle left aside.
Target == IF stage \in {"reconnect", "hello"} THEN origin ELSE stage

\* Past the verified all-off, and while an answer is awaited, the socket is up;
\* only close() goes past it.
ControlInv ==
    /\ /\ stage \in CommandStages
       /\ phase = "recv" \/ stage \in Switching \cup {"hello", "verify_off"}
       => sock = "up"
    /\ op # "connect" /\ Target \in Switching => op = "close"
    /\ stage \in CommandStages \ {"hello"} => op \in {"open", "open_all", "close"}
    /\ stage \in {"reconnect", "hello"} => op \in {"connect", "open", "open_all", "close"}

\* ControlInv holds initially and every step keeps it.
LEMMA ControlStep ==
    /\ Init => ControlInv
    /\ BankType /\ CallType /\ ControlInv /\ [Next]_vars => ControlInv'
<1> USE DEF CommandStages, ReadAllStages, EmergencyStages, Switching, Target
<1>1. Init => ControlInv
  BY DEF Init, ControlInv
<1>2. ASSUME BankType, CallType, ControlInv, [Next]_vars PROVE ControlInv'
  <2>1. CASE Call
    <3>1. PICK o \in {"connect", "open", "open_all", "close"}, n \in Channels : Begin(o, n)
      BY <2>1, RelayAssumption DEF Call, Channels
    <3> QED BY <3>1 DEF Begin, ControlInv
  <2>2. CASE Disconnect
    BY <2>2 DEF Disconnect, ControlInv
  <2>3. CASE Execute \/ UNCHANGED vars
    BY <1>2, <2>3 DEF Execute, vars, callVars, ControlInv
  <2>4. CASE Reconnect
    <3>1. /\ stage = "reconnect" /\ op' = op /\ origin' = origin
          /\ \/ stage' = "hello" /\ phase' = "send" /\ sock' = "up"
             \/ stage' = "idle"
             \/ stage' = "emerg_off" /\ phase' = "send" /\ op # "connect"
      BY <2>4, ReconnectStep
    <3> QED BY <1>2, <3>1 DEF ControlInv
  <2>5. CASE InCall /\ stage # "reconnect"
    <3>1. CASE Fails
      <4>1. stage \in CommandStages
        BY <1>2, <2>5, CallStep
      <4>2. op' = op /\ (stage' \in {"off", "emerg_off"} => phase' = "send")
            /\ stage' \in {"idle", "off", "emerg_off", "reconnect"}
            /\ (stage' = "reconnect" => origin' = stage /\ stage # "hello")
            /\ (stage' = "emerg_off" /\ stage = "hello" => op # "connect")
            /\ (stage' = "off" => stage # "hello")
        BY <3>1 DEF Fails
      <4> QED BY <1>2, <4>1, <4>2 DEF ControlInv
    <3>2. CASE Receive /\ Advances
      <4>1. sock' = sock /\ sock = "up"
        BY <1>2, <3>2 DEF Receive, ControlInv
      <4> QED BY <1>2, <3>2, <4>1 DEF Advances, ControlInv
    <3>3. CASE Send /\ sock = "up" /\ UNCHANGED <<op, stage, origin>>
      BY <1>2, <3>3 DEF Send, ControlInv
    <3> QED BY <1>2, <2>5, <3>1, <3>2, <3>3, CallStep
  <2>6. Reconnect => stage = "reconnect"
    BY DEF Reconnect
  <2> QED BY <1>2, <2>1, <2>2, <2>3, <2>4, <2>5, <2>6 DEF Next, InCall, Send, Receive,
             LinkDrops, LinkResets, AnswerLate
<1> QED BY <1>1, <1>2

\* The steps of the system, with the outcome of those of a call.
LEMMA StepCases ==
    ASSUME BankType, [Next]_vars
    PROVE  \/ \E o \in {"connect", "open", "open_all", "close"}, n \in Channels : Begin(o, n)
           \/ Disconnect
           \/ Execute
           \/ Reconnect
           \/ /\ Send /\ stage \in CommandStages /\ sock = "up" /\ phase' = "recv"
              /\ UNCHANGED <<op, chan, stage, try, origin, rv>>
           \/ /\ Fails /\ stage \in CommandStages
              /\ \/ Send /\ sock # "up" /\ UNCHANGED inbox
                 \/ Receive \/ LinkDrops \/ LinkResets \/ AnswerLate
           \/ Receive /\ stage \in CommandStages /\ Advances /\ Satisfies(replies[1])
           \/ UNCHANGED vars
<1>1. CASE Call
  BY <1>1, RelayAssumption DEF Call, Channels
<1>2. CASE InCall /\ stage # "reconnect"
  BY <1>2, CallStep
<1>3. CASE InCall /\ stage = "reconnect"
  BY <1>3 DEF InCall, Send, Receive, LinkDrops, LinkResets, AnswerLate, CommandStages,
     ReadAllStages
<1> QED BY <1>1, <1>2, <1>3 DEF Next

---------------------------------------------------------------------------
(* A call that meets no late answer *)

\* What the bank has been asked, and what it will answer, are at most the
\* command of the call; past the verified all-off only its own relay can be on,
\* and a command that energises a relay is only on its way then.
NoLateInv ==
    late = "no" =>
      /\ Pending <= 1
      /\ phase = "send" /\ stage \in CommandStages /\ sock = "up" => Pending = 0
      /\ phase = "recv" /\ stage \in CommandStages =>
            /\ Pending = 1
            /\ Len(inbox) = 1 => inbox[1] = CommandOf(stage)
            /\ Len(replies) = 1 => replies[1] = Answer(mask, CommandOf(stage))
      /\ Len(inbox) = 1 /\ inbox[1].cmd = "on" => inbox[1].ch = chan /\ mask \subseteq {chan}
      /\ op # "connect" /\ Target \in Switching => mask \subseteq {chan}
      /\ stage = "idle" /\ rv = "ok" /\ op \in {"open", "open_all"} =>
            Len(inbox) = 0 /\ mask = {}

\* NoLateInv holds initially and every step keeps it.
LEMMA NoLateStep ==
    /\ Init => NoLateInv
    /\ BankType /\ CallType /\ ControlInv /\ NoLateInv /\ [Next]_vars => NoLateInv'
<1> USE DEF CommandStages, ReadAllStages, EmergencyStages, Switching, Target
<1>1. Init => NoLateInv
  BY EmptySeq DEF Init, NoLateInv, Pending
<1>2. ASSUME BankType, CallType, ControlInv, NoLateInv, [Next]_vars, late' = "no"
      PROVE  NoLateInv'
  <2>t. BankType' /\ Len(replies) \in Nat /\ Len(inbox) \in Nat
        /\ Len(replies') \in Nat /\ Len(inbox') \in Nat
    <3>1. BankType'
      BY <1>2, BankTypeStep
    <3> QED BY <1>2, <3>1, StreamLengths, LenProperties DEF BankType
  <2>1. CASE \E o \in {"connect", "open", "open_all", "close"}, n \in Channels : Begin(o, n)
    <3>1. PICK o \in {"connect", "open", "open_all", "close"}, n \in Channels : Begin(o, n)
      BY <2>1
    <3>2. Len(inbox') = 0 /\ Len(replies') = 0
      BY <1>2, <3>1, StreamLengths DEF Begin, bankVars
    <3> QED BY <3>1, <3>2 DEF Begin, NoLateInv, Pending
  <2>2. CASE Disconnect
    <3>1. Len(inbox') = 0 /\ Len(replies') = 0
      BY <2>2, EmptySeq DEF Disconnect, Flush
    <3> QED BY <2>2, <3>1 DEF Disconnect, NoLateInv, Pending
  <2>3. CASE Execute
    <3>1. late = "no" /\ UNCHANGED <<sock, op, chan, stage, phase, origin, rv>>
      BY <1>2, <2>3 DEF Execute, callVars
    <3>2. Len(inbox) = 1 /\ Len(replies) = 0 /\ Len(inbox') = 0 /\ Len(replies') = 1
          /\ replies'[1] = Answer(mask', inbox[1])
      BY <1>2, <2>t, <2>3, <3>1, StreamExecute DEF NoLateInv, Pending
    <3>3. mask' = mask \/ mask' = Apply(mask, inbox[1])
      BY <2>3 DEF Execute
    <3>4. mask \subseteq {chan} => mask' \subseteq {chan}
      BY <1>2, <3>1, <3>2, <3>3 DEF NoLateInv, Apply
    <3>5. CommandOf(stage)' = CommandOf(stage)
      BY <3>1 DEF CommandOf
    <3>6. phase = "recv" /\ stage \in CommandStages =>
             replies'[1] = Answer(mask', CommandOf(stage))
      BY <1>2, <3>1, <3>2 DEF NoLateInv
    <3>7. ~(phase = "send" /\ stage \in CommandStages /\ sock = "up")
      BY <1>2, <3>1, <3>2 DEF NoLateInv, Pending
    <3>8. op # "connect" /\ Target \in Switching => mask' \subseteq {chan}
      BY <1>2, <3>1, <3>4 DEF NoLateInv
    <3>9. ~(stage = "idle" /\ rv = "ok" /\ op \in {"open", "open_all"})
      BY <1>2, <3>1, <3>2 DEF NoLateInv
    <3> QED BY <3>1, <3>2, <3>5, <3>6, <3>7, <3>8, <3>9 DEF NoLateInv, Pending
  <2>4. CASE Reconnect
    <3>1. Len(inbox') = 0 /\ Len(replies') = 0
      BY <2>4, EmptySeq DEF Reconnect, Flush
    <3>2. /\ stage = "reconnect" /\ UNCHANGED <<op, chan, late, origin>>
          /\ \/ stage' = "hello" /\ phase' = "send"
             \/ stage' = "idle" /\ rv' = "error"
             \/ stage' = "emerg_off" /\ phase' = "send"
      BY <2>4, ReconnectStep
    <3>3. mask \subseteq {chan} => mask' \subseteq {chan}
      <4>1. PICK k \in 0..Len(inbox) : mask' = After(k)
        BY <2>4 DEF Reconnect, Flush
      <4>2. Len(inbox) <= 1
        BY <1>2, <2>t, <3>2 DEF NoLateInv, Pending
      <4>3. ASSUME NEW c \in mask' PROVE c \in mask \/ c = chan
        <5>1. c \in mask \/ \E i \in 1..k : inbox[i] = [cmd |-> "on", ch |-> c]
          BY <4>1, <4>3 DEF After
        <5>2. CASE \E i \in 1..k : inbox[i] = [cmd |-> "on", ch |-> c]
          <6>1. Len(inbox) = 1 /\ inbox[1] = [cmd |-> "on", ch |-> c]
            <7>1. PICK i \in 1..k : inbox[i] = [cmd |-> "on", ch |-> c]
              BY <5>2
            <7>2. \A n \in Nat : \A l \in 0..n : \A j \in 1..l : n <= 1 => j = 1 /\ n = 1
              OBVIOUS
            <7>3. Len(inbox) \in Nat
              BY <2>t
            <7>4. i = 1 /\ Len(inbox) = 1
              BY <4>2, <7>2, <7>3
            <7> QED BY <7>1, <7>4
          <6>2. inbox[1].cmd = "on" /\ inbox[1].ch = c
            BY <6>1
          <6> QED BY <1>2, <3>2, <6>1, <6>2 DEF NoLateInv
        <5> QED BY <5>1, <5>2
      <4> QED BY <4>3
    <3> QED BY <1>2, <3>1, <3>2, <3>3 DEF NoLateInv, Pending
  <2>5. CASE /\ Send /\ stage \in CommandStages /\ sock = "up" /\ phase' = "recv"
             /\ UNCHANGED <<op, chan, stage, try, origin, rv>>
    <3>1. late = "no" /\ UNCHANGED <<mask, replies, sock>> /\ phase = "send"
          /\ inbox' = Append(inbox, CommandOf(stage))
      BY <1>2, <2>5 DEF Send
    <3>2. Len(inbox) = 0 /\ Len(replies) = 0
      BY <1>2, <2>5, <2>t, <3>1 DEF NoLateInv, Pending
    <3>3. CommandOf(stage) \in Command
      BY <1>2, WireTypes
    <3>4. Len(inbox') = 1 /\ inbox'[1] = CommandOf(stage)
      BY <1>2, <3>1, <3>2, <3>3, StreamSend
    <3>5. CommandOf(stage)' = CommandOf(stage)
      BY <2>5 DEF CommandOf
    <3>6. CommandOf(stage).cmd = "on" => stage = "on"
      BY <2>5 DEF CommandOf
    <3>7. CommandOf(stage).ch = chan
      BY DEF CommandOf
    <3>8. stage = "on" => mask \subseteq {chan}
      BY <1>2, <3>1 DEF NoLateInv, ControlInv
    <3>9. op # "connect" /\ Target \in Switching => mask \subseteq {chan}
      BY <1>2, <3>1 DEF NoLateInv
    <3> QED BY <2>5, <3>1, <3>2, <3>4, <3>5, <3>6, <3>7, <3>8, <3>9 DEF NoLateInv, Pending
  <2>6. CASE /\ Fails /\ stage \in CommandStages
             /\ \/ Send /\ sock # "up" /\ UNCHANGED inbox
                \/ Receive \/ LinkDrops \/ LinkResets \/ AnswerLate
    <3>1. late = "no" /\ mask' = mask /\ ~AnswerLate
      BY <1>2, <2>6 DEF Send, Receive, LinkDrops, LinkResets, AnswerLate, bankVars
    <3>2. \/ sock' # "up" /\ inbox' = inbox /\ replies' = replies
          \/ Len(inbox') = 0 /\ Len(replies') = 0
      <4>1. CASE Receive
        <5>1. PICK k \in 1..Len(replies) : Len(replies') = Len(replies) - k /\ inbox' = inbox
          BY <1>2, <4>1, StreamReceive
        <5>2. Pending = 1
          BY <1>2, <3>1, <4>1 DEF Receive, NoLateInv
        <5> QED BY <2>t, <5>1, <5>2 DEF Pending
      <4> QED BY <2>6, <3>1, <4>1 DEF Send, LinkDrops, LinkResets, bankVars
    <3>3. op' = op /\ chan' = chan /\ (stage' \in {"off", "emerg_off"} => phase' = "send")
          /\ stage' \in {"idle", "off", "emerg_off", "reconnect"}
          /\ (stage' = "reconnect" => origin' = stage /\ stage # "hello")
          /\ (stage' = "idle" => rv' = "error")
      BY <2>6 DEF Fails
    <3>4. Pending' <= 1
      BY <1>2, <2>t, <3>1, <3>2 DEF NoLateInv, Pending
    <3>5. phase' = "send" /\ stage' \in CommandStages /\ sock' = "up" => Pending' = 0
      BY <3>2 DEF Pending
    <3>6. Len(inbox') = 1 /\ inbox'[1].cmd = "on" =>
             inbox'[1].ch = chan /\ mask \subseteq {chan}
      BY <1>2, <3>1, <3>2 DEF NoLateInv
    <3>7. op # "connect" /\ Target' \in Switching => mask \subseteq {chan}
      BY <1>2, <2>6, <3>1, <3>3 DEF NoLateInv
    <3> QED BY <3>1, <3>3, <3>4, <3>5, <3>6, <3>7 DEF NoLateInv
  <2>7. CASE Receive /\ stage \in CommandStages /\ Advances /\ Satisfies(replies[1])
    <3>1. late = "no" /\ mask' = mask /\ inbox' = inbox /\ phase = "recv"
      BY <1>2, <2>7 DEF Receive
    <3>2. PICK k \in 1..Len(replies) : Len(replies') = Len(replies) - k
      BY <1>2, <2>7, StreamReceive
    <3>3. Len(replies) = 1 /\ Len(inbox') = 0 /\ Len(replies') = 0
          /\ replies[1] = Answer(mask, CommandOf(stage))
      BY <1>2, <2>t, <2>7, <3>1, <3>2 DEF NoLateInv, Pending
    <3>4. stage = "verify_off" => mask = {}
      <4>1. SUFFICES ASSUME stage = "verify_off" PROVE mask = {}
        OBVIOUS
      <4>2. CommandOf(stage).cmd = "readall"
        BY <4>1 DEF CommandOf
      <4>3. replies[1].cmd = "readall" /\ replies[1].val = mask
        BY <3>3, <4>2 DEF Answer
      <4> QED BY <2>7, <4>1, <4>3 DEF Satisfies, ParsedMask, Expected
    <3>5. op' = op /\ chan' = chan /\ (stage' = "idle" \/ phase' = "send")
      BY <2>7 DEF Advances
    <3>6. op # "connect" /\ Target' \in Switching => mask \subseteq {chan}
      BY <1>2, <2>7, <3>1, <3>4 DEF Advances, NoLateInv
    <3>7. stage' = "idle" /\ rv' = "ok" /\ op \in {"open", "open_all"} => mask = {}
      <4>1. SUFFICES ASSUME stage' = "idle", rv' = "ok", op \in {"open", "open_all"}
                     PROVE  mask = {}
        OBVIOUS
      <4>2. stage # "verify_bank"
        BY <1>2, <4>1 DEF ControlInv
      <4>3. stage = "verify_off"
        BY <1>2, <2>7, <4>1, <4>2 DEF Advances, CallType
      <4> QED BY <3>4, <4>3
    <3> QED BY <3>1, <3>3, <3>5, <3>6, <3>7 DEF NoLateInv, Pending
  <2>8. CASE UNCHANGED vars
    BY <1>2, <2>8 DEF vars, bankVars, callVars, NoLateInv, Pending, CommandOf
  <2> QED BY <1>2, <2>1, <2>2, <2>3, <2>4, <2>5, <2>6, <2>7, <2>8, StepCases
<1>3. ASSUME late' # "no" PROVE NoLateInv'
  BY <1>3 DEF NoLateInv
<1> QED BY <1>1, <1>2, <1>3

\* Whatever a step executes of the stream of such a call, it energises a relay
\* only when none is energised.
LEMMA InterlockStep ==
    ASSUME BankType, NoLateInv, late = "no", [Next]_vars
    PROVE  mask' \subseteq mask \/ mask = {}
<1>1. Len(replies) \in Nat /\ Len(inbox) \in Nat /\ Len(inbox) <= 1
  BY StreamLengths DEF NoLateInv, Pending
<1>2. SUFFICES ASSUME NEW c, c \in mask', c \notin mask PROVE mask = {}
  OBVIOUS
<1>3. SUFFICES Len(inbox) = 1 /\ inbox[1].cmd = "on" /\ inbox[1].ch = c
  BY <1>2 DEF NoLateInv
<1>4. CASE Execute
  <2>1. mask' = mask \/ mask' = Apply(mask, inbox[1])
    BY <1>4 DEF Execute
  <2>2. mask' = Apply(mask, inbox[1])
    BY <1>2, <2>1
  <2>3. Len(inbox) = 1
    BY <1>1, <1>4, StreamExecute
  <2> QED BY <1>2, <2>2, <2>3 DEF Apply
<1>5. CASE Flush
  <2>1. PICK k \in 0..Len(inbox) : mask' = After(k)
    BY <1>5 DEF Flush
  <2>2. PICK i \in 1..k : inbox[i] = [cmd |-> "on", ch |-> c]
    BY <1>2, <2>1 DEF After
  <2>3. i = 1 /\ Len(inbox) = 1
    <3>1. \A n \in Nat : n <= 1 /\ k \in 0..n => i = 1 /\ n = 1
      OBVIOUS
    <3> QED BY <1>1, <3>1
  <2> QED BY <2>2, <2>3
<1>6. CASE mask' = mask
  BY <1>2, <1>6
<1> QED BY <1>4, <1>5, <1>6 DEF Next, Call, InCall, Begin, Disconnect, Reconnect, Send,
           Receive, LinkDrops, LinkResets, AnswerLate, bankVars, vars

---------------------------------------------------------------------------
(* A close() that meets late answers of its own *)

\* The commands whose answer _parse_read_response() accepts.
Echoes == {"on", "read"}

\* Up to the command that energises the relay, or in the emergency of a failed
\* state check, after which the call goes on.
Early == \/ stage \in {"check", "off", "verify_off"}
         \/ stage = "on" /\ phase = "send"
         \/ stage \in EmergencyStages /\ origin = "check"

\* Which command the i-th of the stream can be. None before "relay on" has an
\* answer that parses as the state of one relay; so when verify_single() is
\* satisfied, its own answer at most is left over.
Place(i) ==
    /\ Early => Cmd(i) \notin Echoes
    /\ stage = "hello" => Cmd(i) = "readall"
    /\ (stage = "on" /\ phase = "recv") \/ (stage = "verify_one" /\ phase = "send") =>
          (Cmd(i) \in Echoes => i = Pending)
    /\ stage = "verify_one" /\ phase = "recv" =>
          /\ i = Pending => Cmd(i) = "read"
          /\ Cmd(i) \in Echoes => i >= Pending - 1
    /\ stage = "verify_bank" /\ phase = "send" => Cmd(i) = "read"
    /\ stage = "verify_bank" /\ phase = "recv" =>
          Cmd(i) = IF i = Pending THEN "readall" ELSE "read"

\* How many commands the stream can hold.
Extent ==
    /\ stage = "hello" => Pending = IF phase = "send" THEN 0 ELSE 1
    /\ stage = "verify_bank" => Pending <= IF phase = "send" THEN 1 ELSE 2

\* The readback that ends close() is its own and finds the bank as it is, and
\* nothing that could change the bank is left.
CloseInv ==
    late # "before" =>
      /\ \A i \in 1..Pending : Place(i)
      /\ Extent
      /\ stage = "verify_bank" /\ phase = "recv" /\ Len(inbox) = 0 =>
            replies[Len(replies)].val = mask
      /\ stage = "idle" /\ rv = "ok" /\ op = "close" => Len(inbox) = 0 /\ mask = {chan}

\* CloseInv holds initially and every step keeps it.
LEMMA CloseStep ==
    /\ Init => CloseInv
    /\ BankType /\ CallType /\ ControlInv /\ CloseInv /\ [Next]_vars => CloseInv'
<1> USE DEF CommandStages, ReadAllStages, EmergencyStages, Switching, Target, Echoes
<1>1. Init => CloseInv
  BY EmptySeq DEF Init, CloseInv, Extent, Pending
<1>2. ASSUME BankType, CallType, ControlInv, CloseInv, [Next]_vars, late' # "before"
      PROVE  CloseInv'
  <2>t. BankType' /\ Len(replies) \in Nat /\ Len(inbox) \in Nat /\ Pending \in Nat
        /\ Len(replies') \in Nat /\ Len(inbox') \in Nat /\ Pending' \in Nat
    <3>1. BankType'
      BY <1>2, BankTypeStep
    <3> QED BY <1>2, <3>1, LenProperties DEF BankType, Pending
  <2>0. \* a step that empties the stream
        ASSUME Len(inbox') = 0, Len(replies') = 0, stage' \notin {"idle", "verify_bank"},
               stage' = "hello" => phase' = "send"
        PROVE  CloseInv'
    <3>1. Pending' = 0
      BY <2>0 DEF Pending
    <3> QED BY <2>0, <3>1 DEF CloseInv, Extent
  <2>1. CASE \E o \in {"connect", "open", "open_all", "close"}, n \in Channels : Begin(o, n)
    <3>1. PICK o \in {"connect", "open", "open_all", "close"}, n \in Channels : Begin(o, n)
      BY <2>1
    <3>2. Len(inbox') = 0 /\ Len(replies') = 0
      BY <1>2, <3>1, StreamLengths DEF Begin, bankVars
    <3> QED BY <2>0, <3>1, <3>2 DEF Begin
  <2>2. CASE Disconnect
    <3>1. Len(inbox') = 0 /\ Len(replies') = 0
      BY <2>2, EmptySeq DEF Disconnect, Flush
    <3> QED BY <2>2, <3>1 DEF Disconnect, CloseInv, Extent, Pending
  <2>3. CASE Execute
    <3>1. late # "before" /\ UNCHANGED <<op, chan, stage, phase, origin, rv>>
      BY <1>2, <2>3 DEF Execute, callVars
    <3>2. Pending' = Pending /\ \A i \in 1..Pending : Cmd(i)' = Cmd(i)
      BY <1>2, <2>3, StreamExecute
    <3>3. Early' = Early /\ Extent'
      BY <1>2, <3>1, <3>2 DEF CloseInv, Extent, Early
    <3>4. \A i \in 1..Pending' : Place(i)'
      BY <1>2, <3>1, <3>2, <3>3 DEF CloseInv, Place
    <3>5. ASSUME stage = "verify_bank", phase = "recv", Len(inbox') = 0
          PROVE  replies'[Len(replies')].val = mask'
      <4>1. Len(inbox) = 1 /\ replies'[Len(replies')] = Answer(mask', inbox[1])
        BY <1>2, <2>t, <2>3, <3>5, StreamExecute
      <4>2. Pending \in 1..Pending /\ Cmd(Pending) = inbox[1].cmd
        BY <2>t, <4>1 DEF Pending, Cmd
      <4>3. inbox[1].cmd = "readall"
        BY <1>2, <3>1, <3>5, <4>2 DEF CloseInv, Place
      <4> QED BY <4>1, <4>3 DEF Answer
    <3>6. ~(stage = "idle" /\ rv = "ok" /\ op = "close")
      BY <1>2, <2>3, <3>1, StreamExecute DEF CloseInv
    <3> QED BY <3>1, <3>3, <3>4, <3>5, <3>6 DEF CloseInv
  <2>4. CASE Reconnect
    <3>1. Len(inbox') = 0 /\ Len(replies') = 0
      BY <2>4, EmptySeq DEF Reconnect, Flush
    <3>2. \/ stage' = "hello" /\ phase' = "send"
          \/ stage' = "idle" /\ rv' = "error"
          \/ stage' = "emerg_off" /\ phase' = "send"
      BY <2>4, ReconnectStep
    <3>3. CASE stage' = "idle"
      BY <3>1, <3>2, <3>3 DEF CloseInv, Extent, Pending
    <3> QED BY <2>0, <3>1, <3>2, <3>3
  <2>5. CASE /\ Send /\ stage \in CommandStages /\ sock = "up" /\ phase' = "recv"
             /\ UNCHANGED <<op, chan, stage, try, origin, rv>>
    <3>1. late # "before" /\ replies' = replies /\ phase = "send"
          /\ inbox' = Append(inbox, CommandOf(stage))
      BY <1>2, <2>5 DEF Send
    <3>2. CommandOf(stage) \in Command
      BY <1>2, WireTypes
    <3>3. /\ Len(inbox') = Len(inbox) + 1 /\ Pending' = Pending + 1
          /\ \A i \in 1..Pending : Cmd(i)' = Cmd(i)
          /\ \A i : i = Pending + 1 => Cmd(i)' = CommandOf(stage).cmd
      BY <1>2, <3>1, <3>2, StreamSend
    <3>4. Extent'
      BY <1>2, <2>t, <2>5, <3>1, <3>3 DEF CloseInv, Extent
    <3>5. ASSUME NEW i \in 1..Pending' PROVE Place(i)'
      <4>1. CASE i = Pending + 1
        <5>1. /\ stage \in ReadAllStages => CommandOf(stage).cmd = "readall"
              /\ stage \in {"off", "emerg_off"} => CommandOf(stage).cmd = "writeall"
              /\ stage = "verify_one" => CommandOf(stage).cmd = "read"
          BY DEF CommandOf
        <5>2. Cmd(i)' = CommandOf(stage).cmd /\ i = Pending' /\ i >= Pending' - 1
          BY <2>t, <3>3, <4>1
        <5>3. Early' => Cmd(i)' \notin Echoes
          BY <2>5, <5>1, <5>2 DEF Early
        <5>4. /\ stage \in {"hello", "verify_bank"} => Cmd(i)' = "readall"
              /\ stage = "verify_one" => Cmd(i)' = "read"
          BY <5>1, <5>2
        <5> QED BY <2>5, <5>2, <5>3, <5>4 DEF Place
      <4>2. CASE i # Pending + 1
        <5>1. i \in 1..Pending /\ Cmd(i)' = Cmd(i) /\ i # Pending'
          BY <2>t, <3>3, <4>2
        <5>2. Place(i)
          BY <1>2, <3>1, <5>1 DEF CloseInv
        <5>3. stage = "hello" => FALSE
          BY <1>2, <2>t, <3>1, <5>1 DEF CloseInv, Extent
        <5> QED BY <2>t, <2>5, <3>1, <3>3, <5>1, <5>2, <5>3 DEF Place, Early
      <4> QED BY <4>1, <4>2
    <3> QED BY <2>t, <2>5, <3>3, <3>4, <3>5 DEF CloseInv
  <2>8. CASE UNCHANGED vars
    BY <1>2, <2>8 DEF vars, bankVars, callVars, CloseInv, Extent, Place, Early, Pending, Cmd
  <2>s. \* a step that takes an answer, or none, leaves a suffix of the stream
        ASSUME (Receive \/ UNCHANGED <<inbox, replies>>)
        PROVE  \A i \in 1..Pending' : \E j \in 1..Pending : Cmd(i)' = Cmd(j)
    <3>1. CASE Receive
      <4>1. PICK k \in 1..Len(replies) : Pending' = Pending - k
                 /\ \A i \in 1..Pending' : Cmd(i)' = Cmd(i + k)
        BY <1>2, <3>1, StreamReceive
      <4>2. ASSUME NEW i \in 1..Pending' PROVE i + k \in 1..Pending
        BY <2>t, <4>1
      <4> QED BY <4>1, <4>2
    <3>2. CASE UNCHANGED <<inbox, replies>>
      BY <3>2 DEF Pending, Cmd
    <3> QED BY <2>s, <3>1, <3>2
  <2>6. CASE /\ Fails /\ stage \in CommandStages
             /\ \/ Send /\ sock # "up" /\ UNCHANGED inbox
                \/ Receive \/ LinkDrops \/ LinkResets \/ AnswerLate
    <3>1. late # "before" /\ (Receive \/ UNCHANGED <<inbox, replies>>)
      BY <1>2, <2>6 DEF Send, Receive, LinkDrops, LinkResets, AnswerLate, bankVars
    <3>2. \/ stage' = "idle" /\ rv' = "error"
          \/ stage' = "reconnect"
          \/ stage' \in {"off", "emerg_off"} /\ phase' = "send"
      BY <2>6 DEF Fails
    <3>3. Early' => Early \/ stage = "hello"
      BY <2>6 DEF Fails, Early
    <3>4. ASSUME NEW i \in 1..Pending' PROVE Place(i)'
      <4>1. PICK j \in 1..Pending : Cmd(i)' = Cmd(j)
        BY <2>s, <3>1
      <4>2. Place(j)
        BY <1>2, <3>1 DEF CloseInv
      <4>3. Early' => Cmd(i)' \notin Echoes
        BY <3>3, <4>1, <4>2 DEF Place
      <4> QED BY <3>2, <4>3 DEF Place
    <3> QED BY <3>2, <3>4 DEF CloseInv, Extent
  <2>7. CASE Receive /\ stage \in CommandStages /\ Advances /\ Satisfies(replies[1])
    <3>1. late # "before" /\ mask' = mask /\ phase = "recv"
      BY <1>2, <2>7 DEF Receive
    <3>2. PICK k \in 1..Len(replies) :
             /\ Len(replies') = Len(replies) - k /\ inbox' = inbox /\ Pending' = Pending - k
             /\ \A i \in 1..Pending' : Cmd(i)' = Cmd(i + k)
      BY <1>2, <2>7, StreamReceive
    <3>3. 1 \in 1..Pending /\ Cmd(1) = replies[1].cmd /\ Place(1)
      BY <1>2, <2>t, <3>1, <3>2 DEF Pending, Cmd, CloseInv
    <3>4. CASE stage = "verify_bank"
      <4>1. ParsesAsMask(replies[1]) /\ ParsedMask(replies[1]) = {chan}
        BY <2>7, <3>4 DEF Satisfies, Expected
      <4>2. Channels # {chan}
        <5>1. 1 \in Channels /\ 2 \in Channels
          BY RelayAssumption DEF Channels
        <5> QED BY <5>1
      <4>3. Cmd(1) = IF 1 = Pending THEN "readall" ELSE "read"
        BY <3>1, <3>3, <3>4 DEF Place
      <4>4. Pending = 1 /\ replies[1].cmd = "readall" /\ replies[1].val = {chan}
        BY <3>3, <4>1, <4>2, <4>3 DEF ParsesAsMask, ParsedMask
      <4>5. Len(replies) = 1 /\ Len(inbox) = 0 /\ Pending' = 0
        BY <2>t, <3>2, <4>4 DEF Pending
      <4>6. mask = {chan}
        BY <1>2, <3>1, <3>4, <4>4, <4>5 DEF CloseInv
      <4>7. stage' = "idle" /\ chan' = chan
        BY <2>7, <3>4 DEF Advances
      <4> QED BY <3>1, <3>2, <4>5, <4>6, <4>7 DEF CloseInv, Extent
    <3>5. CASE stage = "verify_one"
      <4>1. Cmd(1) \in Echoes
        BY <2>7, <3>3, <3>5 DEF Satisfies, ParsesAsState
      <4>2. Pending <= 2
        BY <2>t, <3>1, <3>3, <3>5, <4>1 DEF Place
      <4>3. stage' = "verify_bank" /\ phase' = "send"
        BY <2>7, <3>5 DEF Advances
      <4>4. ASSUME NEW i \in 1..Pending' PROVE Place(i)'
        <5>1. i + k = Pending /\ i + k \in 1..Pending
          BY <2>t, <3>2, <4>2
        <5>2. Place(i + k)
          BY <1>2, <3>1, <5>1 DEF CloseInv
        <5>3. Cmd(i)' = "read"
          BY <3>1, <3>2, <3>5, <5>1, <5>2 DEF Place
        <5> QED BY <4>3, <5>3 DEF Place, Early
      <4> QED BY <2>t, <3>2, <4>2, <4>3, <4>4 DEF CloseInv, Extent
    <3>6. CASE stage = "hello"
      <4>1. Pending' = 0
        BY <1>2, <2>t, <3>1, <3>2, <3>6 DEF CloseInv, Extent
      <4>2. \/ stage' \in CommandStages /\ phase' = "send"
            \/ stage' = "idle" /\ op' = "connect"
        BY <1>2, <2>7, <3>6 DEF Advances, CallType
      <4> QED BY <4>1, <4>2 DEF CloseInv, Extent
    <3>7. CASE stage = "on"
      <4>1. stage' = "verify_one" /\ phase' = "send"
        BY <2>7, <3>7 DEF Advances
      <4>2. ASSUME NEW i \in 1..Pending' PROVE Place(i)'
        <5>1. i + k \in 1..Pending /\ (i + k = Pending <=> i = Pending')
          BY <2>t, <3>2
        <5>2. Place(i + k)
          BY <1>2, <3>1, <5>1 DEF CloseInv
        <5>3. Cmd(i)' \in Echoes => i = Pending'
          BY <3>1, <3>2, <3>7, <5>1, <5>2 DEF Place
        <5> QED BY <4>1, <5>3 DEF Place, Early
      <4> QED BY <4>1, <4>2 DEF CloseInv, Extent
    <3>8. CASE stage \in {"check", "off", "verify_off", "emerg_off", "emerg_read"}
      <4>1. /\ \/ stage' \in {"off", "verify_off", "on", "emerg_read"} /\ phase' = "send"
               \/ stage' = "idle"
            /\ (stage' = "idle" => rv' = "error" \/ op' # "close")
            /\ (Early' => Early)
        BY <2>7, <3>8 DEF Advances, Early
      <4>2. ASSUME NEW i \in 1..Pending' PROVE Place(i)'
        <5>1. PICK j \in 1..Pending : Cmd(i)' = Cmd(j)
          BY <2>7, <2>s
        <5>2. Place(j)
          BY <1>2, <3>1 DEF CloseInv
        <5> QED BY <4>1, <5>1, <5>2 DEF Place
      <4> QED BY <4>1, <4>2 DEF CloseInv, Extent
    <3> QED BY <2>7, <3>4, <3>5, <3>6, <3>7, <3>8
  <2> QED BY <1>2, <2>1, <2>2, <2>3, <2>4, <2>5, <2>6, <2>7, <2>8, StepCases
<1>3. ASSUME late' = "before" PROVE CloseInv'
  BY <1>3 DEF CloseInv
<1> QED BY <1>1, <1>2, <1>3

---------------------------------------------------------------------------
(* What the driver guarantees *)

IInv == TypeOK /\ ControlInv /\ NoLateInv /\ CloseInv

\* IInv holds initially and every step keeps it.
LEMMA Inductive ==
    /\ Init => IInv
    /\ IInv /\ [Next]_vars => IInv'
<1>1. TypeOK => BankType /\ CallType
  BY Zenon DEF TypeOK, BankType, CallType
<1> QED BY <1>1, TypeInductive, ControlStep, NoLateStep, CloseStep, Zenon DEF IInv

\* A normal return of close(n) means that relay n and no other is energised, even
\* when answers came late during the call; one of open() or open_all() that met no
\* late answer means that every relay is off.
THEOREM ReturnIsTrue == Spec => []ReturnMeansBank
<1>1. IInv => ReturnMeansBank
  BY Zenon DEF IInv, NoLateInv, CloseInv, ReturnMeansBank
<1> QED BY <1>1, Inductive, PTL DEF Spec

\* The interlock: in a call that met no late answer, whatever the reconnect
\* repeats or the old socket still executes, a relay is energised only when the
\* whole bank is off.
THEOREM InterlockHolds == Spec => OnlyOntoDeadBank
<1>1. IInv /\ [Next]_vars => [late # "no" \/ mask' \subseteq mask \/ mask = {}]_vars
  <2>1. TypeOK => BankType
    BY Zenon DEF TypeOK, BankType
  <2> QED BY <2>1, InterlockStep DEF IInv
<1> QED BY <1>1, Inductive, PTL DEF Spec, OnlyOntoDeadBank
============================================================================

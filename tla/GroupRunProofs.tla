--------------------------- MODULE GroupRunProofs ---------------------------
(***************************************************************************)
(* Proofs about GroupRun, for every number of positions, in every mode and *)
(* with or without failures of the database.                               *)
(***************************************************************************)
EXTENDS GroupRun, TLAPS

USE DEF devVars

---------------------------------------------------------------------------
(* Type correctness *)

\* The initial state is well typed.
LEMMA TypeInit == Init => TypeOK
  BY GroupRunAssumption DEF Init, TypeOK, Results, Contact, Positions, Exception, Result, Verdict

\* The policy answers every exception with one of the five results.
LEMMA ResultOfType == \A e : ResultOf(e) \in Result
  BY Zenon DEF ResultOf, Result

\* A relay call leaves a position or none connected, and moves only the
\* relay's own connected flag.
LEMMA RelayType ==
    ASSUME TypeOK, NEW c, RelayClose(c) \/ RelayOpen(c)
    PROVE  /\ contact' \in Contact
           /\ connected' \subseteq {"smu", "relay"}
           /\ "smu" \in connected' <=> "smu" \in connected
<1> USE DEF TypeOK, Contact
<1>1. contact' \in {contact, 0, pos}
  BY DEF RelayClose, RelayOpen
<1>2. connected' \in {connected \cup {"relay"}, connected, connected \ {"relay"}}
  BY DEF RelayClose, RelayOpen
<1> QED
  BY <1>1, <1>2

\* Recording a position's result.
LEMMA ResultsType ==
    ASSUME TypeOK, NEW r \in Result PROVE [outcome EXCEPT ![pos] = r] \in Results
  BY DEF TypeOK, Results

\* Going on to the next position stays within the list.
LEMMA NextInList == pos \in Positions => LastPosition \/ NextPosition \in Positions
  BY GroupRunAssumption DEF Positions, LastPosition, NextPosition

\* Every step of the program keeps the types.
LEMMA TypeProgram ==
    ASSUME TypeOK, Program
    PROVE  TypeOK'
<1> USE DEF TypeOK, Goto
<1>1. CASE SMUConnect
  <2>1. out' \in {"on", "off"} /\ connected' \subseteq {"smu", "relay"}
    BY <1>1 DEF SMUConnect, RollBack
  <2>2. pc' \in {"smu_off", "relay_connect", "exit"}
    BY <1>1 DEF SMUConnect, RollBack
  <2> QED
    BY <1>1, <2>1, <2>2 DEF SMUConnect, RollBack
<1>2. CASE SMUStartupOff
  BY <1>2 DEF SMUStartupOff, EmergencyOutputOff, RollBack
<1>3. CASE RelayConnect
  BY <1>3 DEF RelayConnect, RollBack
<1>4. CASE RelayStartupOff
  <2>1. pc' \in {"group", "disc_smu", "exit"} /\ out' \in {"on", "off"}
    BY <1>4 DEF RelayStartupOff, RollBack
  <2>2. contact' \in Contact /\ connected' \subseteq {"smu", "relay"}
    <3>1. \/ RelayOpen("ok") \/ UNCHANGED <<contact, connected>>
          \/ contact' \in {contact, 0} /\ connected' = {}
      BY <1>4 DEF RelayStartupOff, RollBack
    <3>2. 0 \in Contact
      BY DEF Contact
    <3> QED
      BY <3>1, <3>2, RelayType
  <2> QED
    BY <1>4, <2>1, <2>2 DEF RelayStartupOff, RollBack
<1>5. CASE GroupBegins
  BY <1>5 DEF GroupBegins, Escape
<1>6. CASE SlotBegins
  BY <1>6, ResultsType DEF SlotBegins, Escape, Exception, Result
<1>7. CASE PrecheckCloses
  BY <1>7, RelayType DEF PrecheckCloses, Escape
<1>8. CASE PrecheckOpens
  BY <1>8, RelayType DEF PrecheckOpens, Escape
<1>9. CASE PrecheckResult
  BY <1>9, ResultsType DEF PrecheckResult, Escape, Result
<1>10. CASE RunCloses
  BY <1>10, RelayType DEF RunCloses, Raise, RelayFault, Exception
<1>11. CASE Arm
  BY <1>11 DEF Arm, Raise, Exception
<1>12. CASE SamplingEnds
  BY <1>12 DEF SamplingEnds, Exception
<1>13. CASE InnerFinally
  BY <1>13 DEF InnerFinally, EmergencyOutputOff, Raise, Exception
<1>14. CASE Escalate
  BY <1>14, RelayType DEF Escalate, ShowFault, Exception
<1>15. CASE RunOpens
  BY <1>15, RelayType DEF RunOpens, Raise, RelayFault, Exception
<1>16. CASE Complete
  BY <1>16 DEF Complete, Exception
<1>17. CASE HandlerRecords
  BY <1>17 DEF HandlerRecords, Exception
<1>18. CASE StopOutput
  BY <1>18 DEF StopOutput, EmergencyOutputOff
<1>19. CASE StopRelays
  BY <1>19, RelayType DEF StopRelays
<1>20. CASE Classify
  BY <1>20, ResultOfType, ResultsType DEF Classify, Escape
<1>21. CASE SlotEnds
  BY <1>21, NextInList DEF SlotEnds, Escape
<1>22. CASE Unwind
  BY <1>22 DEF Unwind
<1>23. CASE DisconnectOutput
  BY <1>23 DEF DisconnectOutput, EmergencyOutputOff, ShowFault
<1>24. CASE DisconnectRelays
  BY <1>24, RelayType DEF DisconnectRelays, ShowFault
<1>25. CASE CloseSessions
  BY <1>25 DEF CloseSessions
<1>26. CASE AtExit
  BY <1>26 DEF AtExit, EmergencyOutputOff
<1> QED
  BY <1>1, <1>2, <1>3, <1>4, <1>5, <1>6, <1>7, <1>8, <1>9, <1>10, <1>11, <1>12,
     <1>13, <1>14, <1>15, <1>16, <1>17, <1>18, <1>19, <1>20, <1>21, <1>22,
     <1>23, <1>24, <1>25, <1>26 DEF Program

\* The loop over the positions never leaves the list, and every variable keeps
\* its type.
THEOREM TypeCorrect == Spec => []TypeOK
<1>1. TypeOK /\ [Next]_vars => TypeOK'
  <2> SUFFICES ASSUME TypeOK, [Next]_vars PROVE TypeOK'
    OBVIOUS
  <2>1. CASE Program
    BY <2>1, TypeProgram
  <2>2. CASE CtrlC
    BY <2>2 DEF CtrlC, TypeOK, Contact
  <2>3. CASE Acknowledge
    BY <2>3 DEF Acknowledge, TypeOK, Goto
  <2>4. CASE UNCHANGED vars
    BY <2>4 DEF vars, TypeOK
  <2> QED
    BY <2>1, <2>2, <2>3, <2>4 DEF Next, Ended
<1> QED
  BY <1>1, TypeInit, PTL DEF Spec

---------------------------------------------------------------------------
(* What a PASS means, and where the output goes on *)

\* The facts that carry PassMeansSafe and OutputOnlyOnSelectedBattery: what
\* holds at each step between relay.close() and the recorded result.
SafeInv ==
    /\ pc = "arm" => contact = pos
    /\ pc \in {"sampling", "inner_off"} => "smu" \in connected
    /\ pc = "run_open" => out = "off"
    /\ pc = "complete" => out = "off" /\ contact = 0
    /\ pc = "classify" /\ exc = "none" => out = "off" /\ contact = 0
    /\ pc \in {"handler", "stop_smu", "stop_relay"} => exc # "none"
    /\ pc = "ack" /\ ret = "handler" => exc # "none"
    /\ PassMeansSafe

\* Only the absence of an exception is a PASS; an unclassified one is a
\* station fault.
LEMMA ResultOfPass ==
    /\ \A e : ResultOf(e) = "PASS" => e = "none"
    /\ ResultOf("other") = "STATION_FAULT"
<1>1. \A e : ResultOf(e) = "PASS" => e = "none"
  BY Zenon DEF ResultOf
<1>2. ResultOf("other") = "STATION_FAULT"
  BY Zenon DEF ResultOf
<1> QED
  BY <1>1, <1>2

\* Every step of the program keeps SafeInv.
LEMMA SafeProgram ==
    ASSUME TypeOK, SafeInv, Program
    PROVE  SafeInv'
<1> USE DEF SafeInv, PassMeansSafe, TypeOK, Results,
        Goto, EmergencyOutputOff, Escape, Raise, ShowFault, RollBack, RelayFault, Verdict
<1>1. CASE SMUConnect
  BY <1>1 DEF SMUConnect
<1>2. CASE SMUStartupOff
  BY <1>2 DEF SMUStartupOff
<1>3. CASE RelayConnect
  BY <1>3 DEF RelayConnect
<1>4. CASE RelayStartupOff
  BY <1>4 DEF RelayStartupOff, RelayOpen, RelayClose
<1>5. CASE GroupBegins
  BY <1>5 DEF GroupBegins
<1>6. CASE SlotBegins
  BY <1>6 DEF SlotBegins
<1>7. CASE PrecheckCloses
  BY <1>7 DEF PrecheckCloses, RelayOpen, RelayClose
<1>8. CASE PrecheckOpens
  BY <1>8 DEF PrecheckOpens, RelayOpen, RelayClose
<1>9. CASE PrecheckResult
  BY <1>9 DEF PrecheckResult
<1>10. CASE RunCloses
  BY <1>10 DEF RunCloses, RelayOpen, RelayClose
<1>11. CASE Arm
  BY <1>11 DEF Arm
<1>12. CASE SamplingEnds
  BY <1>12 DEF SamplingEnds
<1>13. CASE InnerFinally
  BY <1>13 DEF InnerFinally
<1>14. CASE Escalate
  BY <1>14 DEF Escalate
<1>15. CASE RunOpens
  BY <1>15 DEF RunOpens, RelayOpen, RelayClose
<1>16. CASE Complete
  BY <1>16 DEF Complete
<1>17. CASE HandlerRecords
  BY <1>17 DEF HandlerRecords
<1>18. CASE StopOutput
  BY <1>18 DEF StopOutput
<1>19. CASE StopRelays
  BY <1>19 DEF StopRelays
<1>20. CASE Classify
  BY <1>20, ResultOfPass DEF Classify
<1>21. CASE SlotEnds
  BY <1>21 DEF SlotEnds
<1>22. CASE Unwind
  BY <1>22 DEF Unwind
<1>23. CASE DisconnectOutput
  BY <1>23 DEF DisconnectOutput
<1>24. CASE DisconnectRelays
  BY <1>24 DEF DisconnectRelays, RelayOpen, RelayClose
<1>25. CASE CloseSessions
  BY <1>25 DEF CloseSessions
<1>26. CASE AtExit
  BY <1>26 DEF AtExit
<1> QED
  BY <1>1, <1>2, <1>3, <1>4, <1>5, <1>6, <1>7, <1>8, <1>9, <1>10, <1>11, <1>12,
     <1>13, <1>14, <1>15, <1>16, <1>17, <1>18, <1>19, <1>20, <1>21, <1>22,
     <1>23, <1>24, <1>25, <1>26 DEF Program

\* SafeInv holds initially, and every step keeps it.
LEMMA SafeInductive ==
    /\ Init => SafeInv
    /\ TypeOK /\ SafeInv /\ [Next]_vars => SafeInv'
<1>1. Init => SafeInv
  BY DEF Init, SafeInv, PassMeansSafe
<1>2. ASSUME TypeOK, SafeInv, [Next]_vars PROVE SafeInv'
  <2>1. CASE Program
    BY <1>2, <2>1, SafeProgram
  <2>2. CASE CtrlC
    BY <1>2, <2>2 DEF CtrlC, SafeInv, PassMeansSafe
  <2>3. CASE Acknowledge
    BY <1>2, <2>3 DEF Acknowledge, Goto, SafeInv, PassMeansSafe, TypeOK
  <2>4. CASE UNCHANGED vars
    BY <1>2, <2>4 DEF vars, SafeInv, PassMeansSafe
  <2> QED
    BY <1>2, <2>1, <2>2, <2>3, <2>4 DEF Next, Ended
<1> QED
  BY <1>1, <1>2

\* A position is reported PASS only with the output off and its battery
\* disconnected: charge_sequence.py reaches complete() only through a verified
\* emergency_output_off() and a relay.open() that returned.
THEOREM PassIsSafe == Spec => []PassMeansSafe
<1>1. SafeInv => PassMeansSafe
  BY DEF SafeInv
<1> QED
  BY <1>1, SafeInductive, TypeCorrect, PTL DEF Spec

\* The output goes on in output_enable() only, and there relay.close() has
\* just returned for this position.
LEMMA OnlyArmEnergises ==
    ASSUME TypeOK, Next, out = "off", out' = "on" PROVE pc = "arm"
<1> USE DEF TypeOK, devVars, EmergencyOutputOff, RollBack
<1>1. CASE SMUConnect
  BY <1>1 DEF SMUConnect
<1>2. CASE SMUStartupOff
  BY <1>2 DEF SMUStartupOff
<1>3. CASE RelayConnect
  BY <1>3 DEF RelayConnect
<1>4. CASE RelayStartupOff
  BY <1>4 DEF RelayStartupOff
<1>5. CASE GroupBegins
  BY <1>5 DEF GroupBegins
<1>6. CASE SlotBegins
  BY <1>6 DEF SlotBegins
<1>7. CASE PrecheckCloses
  BY <1>7 DEF PrecheckCloses
<1>8. CASE PrecheckOpens
  BY <1>8 DEF PrecheckOpens
<1>9. CASE PrecheckResult
  BY <1>9 DEF PrecheckResult
<1>10. CASE RunCloses
  BY <1>10 DEF RunCloses
<1>11. CASE Arm
  BY <1>11 DEF Arm
<1>12. CASE SamplingEnds
  BY <1>12 DEF SamplingEnds
<1>13. CASE InnerFinally
  BY <1>13 DEF InnerFinally
<1>14. CASE Escalate
  BY <1>14 DEF Escalate
<1>15. CASE RunOpens
  BY <1>15 DEF RunOpens
<1>16. CASE Complete
  BY <1>16 DEF Complete
<1>17. CASE HandlerRecords
  BY <1>17 DEF HandlerRecords
<1>18. CASE StopOutput
  BY <1>18 DEF StopOutput
<1>19. CASE StopRelays
  BY <1>19 DEF StopRelays
<1>20. CASE Classify
  BY <1>20 DEF Classify
<1>21. CASE SlotEnds
  BY <1>21 DEF SlotEnds
<1>22. CASE Unwind
  BY <1>22 DEF Unwind
<1>23. CASE DisconnectOutput
  BY <1>23 DEF DisconnectOutput
<1>24. CASE DisconnectRelays
  BY <1>24 DEF DisconnectRelays
<1>25. CASE CloseSessions
  BY <1>25 DEF CloseSessions
<1>26. CASE AtExit
  BY <1>26 DEF AtExit
<1>27. CASE CtrlC
  BY <1>27 DEF CtrlC
<1>28. CASE Acknowledge
  BY <1>28 DEF Acknowledge
<1>29. CASE Ended
  BY <1>29 DEF Ended, vars
<1> QED
  BY <1>1, <1>2, <1>3, <1>4, <1>5, <1>6, <1>7, <1>8, <1>9, <1>10, <1>11, <1>12,
     <1>13, <1>14, <1>15, <1>16, <1>17, <1>18, <1>19, <1>20, <1>21, <1>22,
     <1>23, <1>24, <1>25, <1>26, <1>27, <1>28, <1>29 DEF Next, Program

\* The output is switched on only with the battery under test, and no other,
\* connected to it, whatever relay calls, cancellations and database failures
\* came before.
THEOREM EnergisesSelectedBattery == Spec => OutputOnlyOnSelectedBattery
<1>1. TypeOK /\ SafeInv /\ [Next]_vars => [out = "off" /\ out' = "on" => contact = pos]_vars
  <2> SUFFICES ASSUME TypeOK, SafeInv, Next, out = "off", out' = "on" PROVE contact = pos
    BY DEF vars
  <2> QED
    BY OnlyArmEnergises DEF SafeInv
<1> QED
  BY <1>1, SafeInductive, TypeCorrect, PTL DEF Spec, OutputOnlyOnSelectedBattery

\* A sequence that has got as far as enabling its output was not cancelled
\* before its first check_cancellation().
CancelInv == pc = "arm" /\ Cancelled => pos = cancelPos

\* Every step of the program keeps CancelInv: RunCloses alone leads to "arm".
LEMMA CancelProgram ==
    ASSUME TypeOK, CancelInv, Program
    PROVE  CancelInv'
<1> USE DEF CancelInv, Goto, Escape, Raise, ShowFault, RollBack
<1>1. CASE SMUConnect
  BY <1>1 DEF SMUConnect
<1>2. CASE SMUStartupOff
  BY <1>2 DEF SMUStartupOff
<1>3. CASE RelayConnect
  BY <1>3 DEF RelayConnect
<1>4. CASE RelayStartupOff
  BY <1>4 DEF RelayStartupOff
<1>5. CASE GroupBegins
  BY <1>5 DEF GroupBegins
<1>6. CASE SlotBegins
  BY <1>6 DEF SlotBegins
<1>7. CASE PrecheckCloses
  BY <1>7 DEF PrecheckCloses
<1>8. CASE PrecheckOpens
  BY <1>8 DEF PrecheckOpens
<1>9. CASE PrecheckResult
  BY <1>9 DEF PrecheckResult
<1>10. CASE RunCloses
  BY <1>10 DEF RunCloses, Cancelled
<1>11. CASE Arm
  BY <1>11 DEF Arm
<1>12. CASE SamplingEnds
  BY <1>12 DEF SamplingEnds
<1>13. CASE InnerFinally
  BY <1>13 DEF InnerFinally
<1>14. CASE Escalate
  BY <1>14 DEF Escalate
<1>15. CASE RunOpens
  BY <1>15 DEF RunOpens
<1>16. CASE Complete
  BY <1>16 DEF Complete
<1>17. CASE HandlerRecords
  BY <1>17 DEF HandlerRecords
<1>18. CASE StopOutput
  BY <1>18 DEF StopOutput
<1>19. CASE StopRelays
  BY <1>19 DEF StopRelays
<1>20. CASE Classify
  BY <1>20 DEF Classify
<1>21. CASE SlotEnds
  BY <1>21 DEF SlotEnds
<1>22. CASE Unwind
  BY <1>22 DEF Unwind
<1>23. CASE DisconnectOutput
  BY <1>23 DEF DisconnectOutput
<1>24. CASE DisconnectRelays
  BY <1>24 DEF DisconnectRelays
<1>25. CASE CloseSessions
  BY <1>25 DEF CloseSessions
<1>26. CASE AtExit
  BY <1>26 DEF AtExit
<1> QED
  BY <1>1, <1>2, <1>3, <1>4, <1>5, <1>6, <1>7, <1>8, <1>9, <1>10, <1>11, <1>12,
     <1>13, <1>14, <1>15, <1>16, <1>17, <1>18, <1>19, <1>20, <1>21, <1>22,
     <1>23, <1>24, <1>25, <1>26 DEF Program

\* After Ctrl+C no battery but the one under test at that moment is energised.
THEOREM CancelledRunEnergisesNoOther == Spec => CancelEnergisesNoOther
<1>1. Init => CancelInv
  BY DEF Init, CancelInv
<1>2. TypeOK /\ CancelInv /\ [Next]_vars => CancelInv'
  <2> SUFFICES ASSUME TypeOK, CancelInv, [Next]_vars PROVE CancelInv'
    OBVIOUS
  <2>1. CASE Program
    BY <2>1, CancelProgram
  <2>2. CASE CtrlC
    BY <2>2 DEF CtrlC, CancelInv
  <2>3. CASE Acknowledge
    BY <2>3 DEF Acknowledge, Goto, CancelInv, TypeOK
  <2>4. CASE UNCHANGED vars
    BY <2>4 DEF vars, CancelInv, Cancelled
  <2> QED
    BY <2>1, <2>2, <2>3, <2>4 DEF Next, Ended
<1>3. TypeOK /\ CancelInv /\ [Next]_vars
        => [out = "off" /\ out' = "on" /\ Cancelled => pos = cancelPos]_vars
  <2> SUFFICES ASSUME TypeOK, CancelInv, Next, out = "off", out' = "on", Cancelled
               PROVE  pos = cancelPos
    BY DEF vars
  <2> QED
    BY OnlyArmEnergises DEF CancelInv
<1> QED
  BY <1>1, <1>2, <1>3, TypeCorrect, PTL DEF Spec, CancelEnergisesNoOther

---------------------------------------------------------------------------
(* The output between positions *)

\* Where "hot" can be in marks: while the sequence, its handlers or the last
\* shutdown still have an output to turn off. Past them only a station fault
\* or an escaping exception carries it, and neither begins another position.
HotInv ==
    "hot" \in marks =>
      \/ pc \in {"sampling", "inner_off", "handler", "stop_smu", "unwind", "disc_smu"}
      \/ pc = "classify" /\ exc = "other"
      \/ pc = "slot_done" /\ outcome[pos] = "STATION_FAULT"

\* Every step of the program keeps HotInv.
LEMMA HotProgram ==
    ASSUME TypeOK, HotInv, Program
    PROVE  HotInv'
<1> USE DEF HotInv, TypeOK, Results,
        Goto, Escape, Raise, ShowFault, RollBack, Positions, StopsGroup
<1>1. CASE SMUConnect
  BY <1>1 DEF SMUConnect
<1>2. CASE SMUStartupOff
  BY <1>2 DEF SMUStartupOff
<1>3. CASE RelayConnect
  BY <1>3 DEF RelayConnect
<1>4. CASE RelayStartupOff
  BY <1>4 DEF RelayStartupOff
<1>5. CASE GroupBegins
  BY <1>5 DEF GroupBegins
<1>6. CASE SlotBegins
  BY <1>6 DEF SlotBegins
<1>7. CASE PrecheckCloses
  BY <1>7 DEF PrecheckCloses
<1>8. CASE PrecheckOpens
  BY <1>8 DEF PrecheckOpens
<1>9. CASE PrecheckResult
  BY <1>9 DEF PrecheckResult
<1>10. CASE RunCloses
  BY <1>10 DEF RunCloses
<1>11. CASE Arm
  BY <1>11 DEF Arm
<1>12. CASE SamplingEnds
  BY <1>12 DEF SamplingEnds
<1>13. CASE InnerFinally
  BY <1>13 DEF InnerFinally
<1>14. CASE Escalate
  BY <1>14 DEF Escalate
<1>15. CASE RunOpens
  BY <1>15 DEF RunOpens
<1>16. CASE Complete
  BY <1>16 DEF Complete
<1>17. CASE HandlerRecords
  BY <1>17 DEF HandlerRecords
<1>18. CASE StopOutput
  BY <1>18 DEF StopOutput
<1>19. CASE StopRelays
  BY <1>19 DEF StopRelays
<1>20. CASE Classify
  <2> SUFFICES ASSUME "hot" \in marks, pc' = "slot_done" PROVE outcome'[pos'] = "STATION_FAULT"
    BY <1>20 DEF Classify
  <2>1. exc = "other" /\ pos' = pos
    BY <1>20 DEF Classify
  <2>2. outcome' = [outcome EXCEPT ![pos] = ResultOf(exc)]
    BY <1>20 DEF Classify
  <2>3. ResultOf(exc) = "STATION_FAULT"
    BY <2>1, ResultOfPass
  <2> QED
    BY <2>1, <2>2, <2>3
<1>21. CASE SlotEnds
  BY <1>21 DEF SlotEnds
<1>22. CASE Unwind
  BY <1>22 DEF Unwind
<1>23. CASE DisconnectOutput
  BY <1>23 DEF DisconnectOutput
<1>24. CASE DisconnectRelays
  BY <1>24 DEF DisconnectRelays
<1>25. CASE CloseSessions
  BY <1>25 DEF CloseSessions
<1>26. CASE AtExit
  BY <1>26 DEF AtExit
<1> QED
  BY <1>1, <1>2, <1>3, <1>4, <1>5, <1>6, <1>7, <1>8, <1>9, <1>10, <1>11, <1>12,
     <1>13, <1>14, <1>15, <1>16, <1>17, <1>18, <1>19, <1>20, <1>21, <1>22,
     <1>23, <1>24, <1>25, <1>26 DEF Program

\* No position is begun before the output of the one before it has been
\* commanded off, even when an exception skipped that position's own shutdown.
THEOREM ShutdownBeforeNextPosition == Spec => []NextPositionOnlyAfterShutdown
<1>1. Init => HotInv
  BY DEF Init, HotInv
<1>2. TypeOK /\ HotInv /\ [Next]_vars => HotInv'
  <2> SUFFICES ASSUME TypeOK, HotInv, [Next]_vars PROVE HotInv'
    OBVIOUS
  <2>1. CASE Program
    BY <2>1, HotProgram
  <2>2. CASE CtrlC
    BY <2>2 DEF CtrlC, HotInv
  <2>3. CASE Acknowledge
    BY <2>3 DEF Acknowledge, Goto, HotInv, TypeOK
  <2>4. CASE UNCHANGED vars
    BY <2>4 DEF vars, HotInv
  <2> QED
    BY <2>1, <2>2, <2>3, <2>4 DEF Next, Ended
<1>3. HotInv => NextPositionOnlyAfterShutdown
  BY DEF HotInv, NextPositionOnlyAfterShutdown
<1> QED
  BY <1>1, <1>2, <1>3, TypeCorrect, PTL DEF Spec

---------------------------------------------------------------------------
(* The output at the end of the run *)

\* disconnect_all() has commanded the output off and not yet closed a session.
Closing ==
    \/ pc \in {"disc_relay", "disc_close"}
    \/ pc = "ack" /\ ret \in {"disc_relay", "disc_close"}

\* Since the run enabled its output the SMU's session is open until
\* disconnect_all() closes it, which it does only for an output read back off;
\* otherwise the operator was told.
EndInv ==
    /\ pc \in {"smu_connect", "smu_off", "relay_connect", "relay_off"} => "enabled" \notin marks
    /\ pc = "ack" => ret \in {"handler", "disc_relay", "disc_close"}
    /\ "enabled" \in marks =>
         /\ pc \notin {"exit", "ended"} => "smu" \in connected
         /\ Closing /\ shutoff = "verified" => out = "off"
         /\ Closing /\ shutoff = "unverified" => "told" \in marks
         /\ pc \in {"exit", "ended"} /\ out = "on" => "smu" \in connected /\ "told" \in marks

\* Every step of the program keeps EndInv.
LEMMA EndProgram ==
    ASSUME TypeOK, EndInv, Program
    PROVE  EndInv'
<1> USE DEF EndInv, Closing, TypeOK,
        Goto, EmergencyOutputOff, Escape, Raise, ShowFault, RollBack, Verdict
<1>1. CASE SMUConnect
  BY <1>1 DEF SMUConnect
<1>2. CASE SMUStartupOff
  BY <1>2 DEF SMUStartupOff
<1>3. CASE RelayConnect
  BY <1>3 DEF RelayConnect
<1>4. CASE RelayStartupOff
  BY <1>4 DEF RelayStartupOff, RelayOpen, RelayClose
<1>5. CASE GroupBegins
  BY <1>5 DEF GroupBegins
<1>6. CASE SlotBegins
  BY <1>6 DEF SlotBegins
<1>7. CASE PrecheckCloses
  BY <1>7 DEF PrecheckCloses, RelayOpen, RelayClose
<1>8. CASE PrecheckOpens
  BY <1>8 DEF PrecheckOpens, RelayOpen, RelayClose
<1>9. CASE PrecheckResult
  BY <1>9 DEF PrecheckResult
<1>10. CASE RunCloses
  BY <1>10 DEF RunCloses, RelayOpen, RelayClose
<1>11. CASE Arm
  BY <1>11 DEF Arm
<1>12. CASE SamplingEnds
  BY <1>12 DEF SamplingEnds
<1>13. CASE InnerFinally
  BY <1>13 DEF InnerFinally
<1>14. CASE Escalate
  BY <1>14 DEF Escalate, RelayOpen, RelayClose
<1>15. CASE RunOpens
  BY <1>15 DEF RunOpens, RelayOpen, RelayClose
<1>16. CASE Complete
  BY <1>16 DEF Complete
<1>17. CASE HandlerRecords
  BY <1>17 DEF HandlerRecords
<1>18. CASE StopOutput
  BY <1>18 DEF StopOutput
<1>19. CASE StopRelays
  BY <1>19 DEF StopRelays, RelayOpen, RelayClose
<1>20. CASE Classify
  BY <1>20 DEF Classify
<1>21. CASE SlotEnds
  BY <1>21 DEF SlotEnds
<1>22. CASE Unwind
  BY <1>22 DEF Unwind
<1>23. CASE DisconnectOutput
  BY <1>23 DEF DisconnectOutput
<1>24. CASE DisconnectRelays
  <2>1. "smu" \in connected' <=> "smu" \in connected
    BY <1>24, RelayType DEF DisconnectRelays
  <2>2. /\ pc = "disc_relay" /\ UNCHANGED <<out, shutoff>>
        /\ "enabled" \in marks' <=> "enabled" \in marks
        /\ "told" \in marks => "told" \in marks'
        /\ \/ pc' = "disc_close"
           \/ pc' = "ack" /\ ret' = "disc_close"
    BY <1>24 DEF DisconnectRelays
  <2> QED
    BY <2>1, <2>2
<1>25. CASE CloseSessions
  <2>1. pc = "disc_close" /\ pc' = "exit" /\ UNCHANGED marks
    BY <1>25 DEF CloseSessions
  <2>2. CASE shutoff = "unverified"
    BY <1>25, <2>1, <2>2 DEF CloseSessions
  <2>3. CASE shutoff = "verified"
    <3>1. "enabled" \in marks => out' = "off"
      BY <1>25, <2>1, <2>3 DEF CloseSessions
    <3> QED
      BY <2>1, <3>1
  <2> QED
    BY <2>2, <2>3
<1>26. CASE AtExit
  BY <1>26 DEF AtExit
<1> QED
  BY <1>1, <1>2, <1>3, <1>4, <1>5, <1>6, <1>7, <1>8, <1>9, <1>10, <1>11, <1>12,
     <1>13, <1>14, <1>15, <1>16, <1>17, <1>18, <1>19, <1>20, <1>21, <1>22,
     <1>23, <1>24, <1>25, <1>26 DEF Program

\* EndInv holds initially, and every step keeps it.
LEMMA EndInductive ==
    /\ Init => EndInv
    /\ TypeOK /\ EndInv /\ [Next]_vars => EndInv'
<1>1. Init => EndInv
  BY DEF Init, EndInv, Closing
<1>2. ASSUME TypeOK, EndInv, [Next]_vars PROVE EndInv'
  <2>1. CASE Program
    BY <1>2, <2>1, EndProgram
  <2>2. CASE CtrlC
    BY <1>2, <2>2 DEF CtrlC, EndInv, Closing
  <2>3. CASE Acknowledge
    BY <1>2, <2>3 DEF Acknowledge, Goto, EndInv, Closing, TypeOK
  <2>4. CASE UNCHANGED vars
    BY <1>2, <2>4 DEF vars, EndInv, Closing
  <2> QED
    BY <1>2, <2>1, <2>2, <2>3, <2>4 DEF Next, Ended
<1> QED
  BY <1>1, <1>2

\* The session of an output that this run enabled and that is still on is
\* never given up (hardware_manager.py, step 3 of disconnect_all()).
THEOREM SessionOfLiveOutputIsKept == Spec => []EnergisedSessionKept
<1>1. EndInv => EnergisedSessionKept
  BY DEF EndInv, EnergisedSessionKept
<1> QED
  BY <1>1, EndInductive, TypeCorrect, PTL DEF Spec

\* A run that ends with its output on has shown the operator a SAFETY FAULT
\* screen, whichever exceptions ended it.
THEOREM LiveOutputIsTold == Spec => []EnergisedEndIsTold
<1>1. EndInv => EnergisedEndIsTold
  BY DEF EndInv, EnergisedEndIsTold
<1> QED
  BY <1>1, EndInductive, TypeCorrect, PTL DEF Spec

---------------------------------------------------------------------------
(* The results of the positions *)

\* The results that end the loop over the positions.
Ends == {"CANCELLED", "STATION_FAULT"}

\* Every position before the loop's has a result that let the loop go on, no
\* position after it has one, and the loop is left by itself only with a
\* result that ends it or at the last position.
OrderInv ==
    /\ \A p \in Positions : p < pos => outcome[p] \notin Ends \cup {"none"}
    /\ \A p \in Positions : p > pos => outcome[p] = "none"
    /\ pc = "slot_done" => outcome[pos] # "none"
    /\ pc = "unwind" /\ "escaped" \notin marks =>
         outcome[pos] # "none" /\ (outcome[pos] \in Ends \/ LastPosition)

\* A step that neither moves the loop nor records a result, and does not leave
\* the loop except by an exception.
Quiet ==
    /\ UNCHANGED <<pos, outcome>>
    /\ pc' # "slot_done"
    /\ pc' = "unwind" => "escaped" \in marks'

\* A quiet step keeps OrderInv.
LEMMA QuietKeeps == OrderInv /\ Quiet => OrderInv'
  BY DEF OrderInv, Quiet, LastPosition

\* A step that records a result for the position the loop is at keeps it.
LEMMA RecordKeeps ==
    ASSUME TypeOK, OrderInv, NEW r \in Result,
           outcome' = [outcome EXCEPT ![pos] = r], pos' = pos, pc' = "slot_done"
    PROVE  OrderInv'
  BY GroupRunAssumption DEF OrderInv, TypeOK, Results, Positions, Ends, Result

\* Only the ends of a slot record a result or move the loop.
LEMMA OthersAreQuiet ==
    ASSUME TypeOK, Program
    PROVE  Quiet \/ SlotBegins \/ PrecheckResult \/ Classify \/ SlotEnds
<1> USE DEF Quiet, Goto, Escape, Raise, ShowFault, RollBack
<1>1. CASE SMUConnect
  BY <1>1 DEF SMUConnect
<1>2. CASE SMUStartupOff
  BY <1>2 DEF SMUStartupOff
<1>3. CASE RelayConnect
  BY <1>3 DEF RelayConnect
<1>4. CASE RelayStartupOff
  BY <1>4 DEF RelayStartupOff
<1>5. CASE GroupBegins
  BY <1>5 DEF GroupBegins
<1>6. CASE PrecheckCloses
  BY <1>6 DEF PrecheckCloses
<1>7. CASE PrecheckOpens
  BY <1>7 DEF PrecheckOpens
<1>8. CASE RunCloses
  BY <1>8 DEF RunCloses
<1>9. CASE Arm
  BY <1>9 DEF Arm
<1>10. CASE SamplingEnds
  BY <1>10 DEF SamplingEnds
<1>11. CASE InnerFinally
  BY <1>11 DEF InnerFinally
<1>12. CASE Escalate
  BY <1>12 DEF Escalate
<1>13. CASE RunOpens
  BY <1>13 DEF RunOpens
<1>14. CASE Complete
  BY <1>14 DEF Complete
<1>15. CASE HandlerRecords
  BY <1>15 DEF HandlerRecords
<1>16. CASE StopOutput
  BY <1>16 DEF StopOutput
<1>17. CASE StopRelays
  BY <1>17 DEF StopRelays
<1>18. CASE Unwind
  BY <1>18 DEF Unwind
<1>19. CASE DisconnectOutput
  BY <1>19 DEF DisconnectOutput
<1>20. CASE DisconnectRelays
  BY <1>20 DEF DisconnectRelays
<1>21. CASE CloseSessions
  BY <1>21 DEF CloseSessions
<1>22. CASE AtExit
  BY <1>22 DEF AtExit
<1> QED
  BY <1>1, <1>2, <1>3, <1>4, <1>5, <1>6, <1>7, <1>8, <1>9, <1>10, <1>11, <1>12,
     <1>13, <1>14, <1>15, <1>16, <1>17, <1>18, <1>19, <1>20, <1>21, <1>22 DEF Program

\* Every step of the program keeps OrderInv.
LEMMA OrderProgram ==
    ASSUME TypeOK, OrderInv, Program
    PROVE  OrderInv'
<1>1. CASE Quiet
  BY <1>1, QuietKeeps
<1>2. CASE SlotBegins
  <2>1. \/ Quiet
        \/ /\ outcome' = [outcome EXCEPT ![pos] = "FAIL"]
           /\ pos' = pos /\ pc' = "slot_done"
    BY <1>2 DEF SlotBegins, Quiet, Escape
  <2> QED
    BY <2>1, QuietKeeps, RecordKeeps DEF Result
<1>3. CASE PrecheckResult
  <2>1. \/ Quiet
        \/ \E r \in {"STATION_FAULT", "SKIPPED"} :
             /\ outcome' = [outcome EXCEPT ![pos] = r]
             /\ pos' = pos /\ pc' = "slot_done"
    BY <1>3 DEF PrecheckResult, Quiet, Escape
  <2> QED
    BY <2>1, QuietKeeps, RecordKeeps DEF Result
<1>4. CASE Classify
  <2>1. \/ Quiet
        \/ /\ outcome' = [outcome EXCEPT ![pos] = ResultOf(exc)]
           /\ pos' = pos /\ pc' = "slot_done"
    BY <1>4 DEF Classify, Quiet, Escape
  <2> QED
    BY <2>1, QuietKeeps, RecordKeeps, ResultOfType
<1>5. CASE SlotEnds
  <2>1. pc = "slot_done" /\ UNCHANGED outcome /\ outcome[pos] # "none"
    BY <1>5 DEF SlotEnds, OrderInv
  <2>2. CASE Quiet
    BY <2>2, QuietKeeps
  <2>3. CASE /\ StopsGroup(outcome[pos]) \/ LastPosition
             /\ pc' = "unwind" /\ UNCHANGED pos
    BY <2>1, <2>3 DEF OrderInv, StopsGroup, Ends, LastPosition
  <2>4. CASE ~StopsGroup(outcome[pos]) /\ pc' = "slot" /\ pos' = pos + 1
    BY <2>1, <2>4 DEF OrderInv, StopsGroup, Ends, TypeOK, Positions
  <2> QED
    BY <1>5, <2>2, <2>3, <2>4 DEF SlotEnds, Quiet, Escape, NextPosition
<1> QED
  BY <1>1, <1>2, <1>3, <1>4, <1>5, OthersAreQuiet

\* A cancellation or a station fault ends the group: no later position is
\* attempted; and a loop that no exception left has a result for every
\* position or stopped at one of the two (test.py, the loop over the
\* positions and its two early breaks).
THEOREM FaultsEndTheGroup == Spec => []FaultEndsGroup
<1>1. Init => OrderInv
  BY GroupRunAssumption DEF Init, OrderInv, Positions
<1>2. TypeOK /\ OrderInv /\ [Next]_vars => OrderInv'
  <2> SUFFICES ASSUME TypeOK, OrderInv, [Next]_vars PROVE OrderInv'
    OBVIOUS
  <2>1. CASE Program
    BY <2>1, OrderProgram
  <2>2. CASE CtrlC
    BY <2>2 DEF CtrlC, OrderInv, LastPosition
  <2>3. CASE Acknowledge
    BY <2>3, QuietKeeps DEF Acknowledge, Goto, Quiet, TypeOK
  <2>4. CASE UNCHANGED vars
    BY <2>4 DEF vars, OrderInv, LastPosition
  <2> QED
    BY <2>1, <2>2, <2>3, <2>4 DEF Next, Ended
<1>3. TypeOK /\ OrderInv => FaultEndsGroup
  <2> SUFFICES ASSUME TypeOK, OrderInv PROVE FaultEndsGroup
    OBVIOUS
  <2>1. ASSUME NEW p \in Positions, outcome[p] \in Ends
        PROVE  pos = p /\ \A q \in Positions : q > p => outcome[q] = "none"
    BY <2>1 DEF OrderInv, TypeOK, Positions, Ends
  <2>2. ASSUME pc = "unwind", "escaped" \notin marks, NEW p \in Positions
        PROVE  outcome[p] # "none" \/ outcome[pos] \in Ends
    BY <2>2, GroupRunAssumption DEF OrderInv, TypeOK, Positions, LastPosition
  <2>3. ASSUME NEW p \in Positions PROVE
          /\ outcome[p] \in Ends => pos = p /\ \A q \in Positions : q > p => outcome[q] = "none"
          /\ pc = "unwind" /\ "escaped" \notin marks => outcome[p] # "none" \/ outcome[pos] \in Ends
    BY <2>1, <2>2
  <2> QED
    BY <2>3, Zenon DEF FaultEndsGroup, Ends
<1> QED
  BY <1>1, <1>2, <1>3, TypeCorrect, PTL DEF Spec

=============================================================================

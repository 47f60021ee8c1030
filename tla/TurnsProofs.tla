------------------------------ MODULE TurnsProofs ------------------------------
(***************************************************************************)
(* Theorems about Turns, for any finite set of messages, any number of     *)
(* deliveries, contacts, workers, webhook calls and faults: types, what    *)
(* the queue, the recorder and the balance see of a turn's steps, and the  *)
(* refinement of TurnContract.                                             *)
(***************************************************************************)
EXTENDS Turns, FiniteSetTheorems, TLAPS

-----------------------------------------------------------------------------
(* What a step does to each component.                                     *)

QueueStep ==
  \/ UNCHANGED queueVars
  \/ \E m \in Msgs : Enqueue(m) \/ Throw(m) \/ Stall(m) \/ Forget(m)
  \/ \E t \in Turn : Take(Msg(t), t) \/ Complete(t)

RunStep ==
  \/ UNCHANGED runVars
  \/ \E t \in Turn :
        \/ \E ok \in BOOLEAN : StartRun(t, ok) \/ PartialLands(t, ok)
        \/ BindRun(t) \/ UnbindRun(t) \/ RecordToolCall(t) \/ SavePartial(t) \/ RunAges(t)
        \/ \E status \in {"completed", "failed"} : FinishRun(t, status)
  \/ SweepStaleRuns \/ ForgetRuns

BillStep ==
  \/ UNCHANGED billVars
  \/ \E t \in Turn : WaveThrough(t) \/ Charge(t) \/ ChargeCapture(t)

(* Every step is one of the queue, or none.                                *)
LEMMA StepsOfQueue == ASSUME [Next]_vars PROVE QueueStep
  <1> USE DEF QueueStep, Dies
  <1>1. ASSUME NEW t \in Turn, Open(t) PROVE QueueStep
    BY <1>1 DEF Open
  <1>2. ASSUME NEW t \in Turn, Access(t) PROVE QueueStep
    BY <1>2 DEF Access
  <1>3. ASSUME NEW t \in Turn, FindConversation(t) PROVE QueueStep
    BY <1>3 DEF FindConversation
  <1>4. ASSUME NEW t \in Turn, CreateConversation(t) PROVE QueueStep
    BY <1>4 DEF CreateConversation
  <1>5. ASSUME NEW t \in Turn, SaveUserMessage(t) PROVE QueueStep
    BY <1>5 DEF SaveUserMessage
  <1>6. ASSUME NEW t \in Turn, SendPlaceholder(t) PROVE QueueStep
    BY <1>6 DEF SendPlaceholder
  <1>7. ASSUME NEW t \in Turn, Chat(t) PROVE QueueStep
    BY <1>7 DEF Chat
  <1>8. ASSUME NEW t \in Turn, Reply(t) PROVE QueueStep
    BY <1>8 DEF Reply
  <1>9. ASSUME NEW t \in Turn, Bill(t) PROVE QueueStep
    BY <1>9 DEF Bill
  <1>10. ASSUME NEW t \in Turn, Refuse(t) PROVE QueueStep
    BY <1>10 DEF Refuse
  <1>11. ASSUME NEW t \in Turn, Apologise(t) PROVE QueueStep
    BY <1>11 DEF Apologise
  <1>12. ASSUME NEW t \in Turn, Finish(t) PROVE QueueStep
    BY <1>12 DEF Finish
  <1>13. ASSUME NEW t \in Turn, Settle(t) PROVE QueueStep
    BY <1>13 DEF Settle
  <1>14. ASSUME NEW t \in Turn, Deliver(t) PROVE QueueStep
    BY <1>14 DEF Deliver
  <1>15. ASSUME NEW t \in Turn, BridgeCall(t) PROVE QueueStep
    BY <1>15 DEF BridgeCall
  <1>16. ASSUME NEW t \in Turn, Checkpoint(t) PROVE QueueStep
    BY <1>16 DEF Checkpoint
  <1>17. ASSUME NEW t \in Turn, CheckpointLands(t) PROVE QueueStep
    BY <1>17 DEF CheckpointLands
  <1>18. ASSUME NEW t \in Turn, CaptureEnds(t) PROVE QueueStep
    BY <1>18 DEF CaptureEnds
  <1>19. ASSUME NEW t \in Turn, HalfAnHour(t) PROVE QueueStep
    BY <1>19 DEF HalfAnHour
  <1>20. ASSUME NEW m \in Msgs, Receive(m) PROVE QueueStep
    BY <1>20 DEF Receive
  <1>21. ASSUME NEW m \in Msgs, DeliverUnready(m) PROVE QueueStep
    BY <1>21 DEF DeliverUnready
  <1>22. ASSUME NEW m \in Msgs, LoseLease(m) PROVE QueueStep
    BY <1>22 DEF LoseLease
  <1>23. ASSUME NEW m \in Msgs, ForgetJob(m) PROVE QueueStep
    BY <1>23 DEF ForgetJob
  <1>24. ASSUME Ready PROVE QueueStep
    BY <1>24 DEF Ready
  <1>25. ASSUME Shutdown PROVE QueueStep
    BY <1>25 DEF Shutdown
  <1>26. ASSUME Exit PROVE QueueStep
    BY <1>26 DEF Exit
  <1>27. ASSUME Crash PROVE QueueStep
    BY <1>27 DEF Crash
  <1>28. ASSUME Sweep PROVE QueueStep
    BY <1>28 DEF Sweep
  <1>29. CASE UNCHANGED vars BY <1>29 DEF vars, turnVars
  <1>30. ASSUME NEW t \in Turn, Step(t) PROVE QueueStep
    BY <1>30, <1>1, <1>2, <1>3, <1>4, <1>5, <1>6, <1>7, <1>8, <1>9, <1>10, <1>11, <1>12, <1>13
    DEF Step
  <1>31. ASSUME NEW t \in Turn, BridgeReturns(t) PROVE QueueStep
    BY <1>31 DEF BridgeReturns
  <1> QED BY <1>14, <1>15, <1>16, <1>17, <1>18, <1>19, <1>20, <1>21, <1>22, <1>23, <1>24, <1>25,
       <1>26, <1>27, <1>28, <1>29, <1>30, <1>31
    DEF Next

(* Every step is one of the recorder, or none.                             *)
LEMMA StepsOfRuns == ASSUME [Next]_vars PROVE RunStep
  <1> USE DEF RunStep, Dies, Throws, Ends
  <1>1. ASSUME NEW t \in Turn, Open(t) PROVE RunStep
    BY <1>1 DEF Open
  <1>2. ASSUME NEW t \in Turn, Access(t) PROVE RunStep
    BY <1>2 DEF Access
  <1>3. ASSUME NEW t \in Turn, FindConversation(t) PROVE RunStep
    BY <1>3 DEF FindConversation
  <1>4. ASSUME NEW t \in Turn, CreateConversation(t) PROVE RunStep
    BY <1>4 DEF CreateConversation
  <1>5. ASSUME NEW t \in Turn, SaveUserMessage(t) PROVE RunStep
    BY <1>5 DEF SaveUserMessage
  <1>6. ASSUME NEW t \in Turn, SendPlaceholder(t) PROVE RunStep
    BY <1>6 DEF SendPlaceholder
  <1>7. ASSUME NEW t \in Turn, Chat(t) PROVE RunStep
    BY <1>7 DEF Chat
  <1>8. ASSUME NEW t \in Turn, Reply(t) PROVE RunStep
    BY <1>8 DEF Reply
  <1>9. ASSUME NEW t \in Turn, Bill(t) PROVE RunStep
    BY <1>9 DEF Bill
  <1>10. ASSUME NEW t \in Turn, Refuse(t) PROVE RunStep
    BY <1>10 DEF Refuse
  <1>11. ASSUME NEW t \in Turn, Apologise(t) PROVE RunStep
    BY <1>11 DEF Apologise
  <1>12. ASSUME NEW t \in Turn, Finish(t) PROVE RunStep
    BY <1>12 DEF Finish
  <1>13. ASSUME NEW t \in Turn, Settle(t) PROVE RunStep
    BY <1>13 DEF Settle
  <1>14. ASSUME NEW t \in Turn, Deliver(t) PROVE RunStep
    BY <1>14 DEF Deliver
  <1>15. ASSUME NEW t \in Turn, BridgeCall(t) PROVE RunStep
    BY <1>15 DEF BridgeCall
  <1>16. ASSUME NEW t \in Turn, Checkpoint(t) PROVE RunStep
    BY <1>16 DEF Checkpoint
  <1>17. ASSUME NEW t \in Turn, CheckpointLands(t) PROVE RunStep
    BY <1>17 DEF CheckpointLands
  <1>18. ASSUME NEW t \in Turn, CaptureEnds(t) PROVE RunStep
    BY <1>18 DEF CaptureEnds
  <1>19. ASSUME NEW t \in Turn, HalfAnHour(t) PROVE RunStep
    BY <1>19 DEF HalfAnHour
  <1>20. ASSUME NEW m \in Msgs, Receive(m) PROVE RunStep
    BY <1>20 DEF Receive
  <1>21. ASSUME NEW m \in Msgs, DeliverUnready(m) PROVE RunStep
    BY <1>21 DEF DeliverUnready
  <1>22. ASSUME NEW m \in Msgs, LoseLease(m) PROVE RunStep
    BY <1>22 DEF LoseLease
  <1>23. ASSUME NEW m \in Msgs, ForgetJob(m) PROVE RunStep
    BY <1>23 DEF ForgetJob
  <1>24. ASSUME Ready PROVE RunStep
    BY <1>24 DEF Ready
  <1>25. ASSUME Shutdown PROVE RunStep
    BY <1>25 DEF Shutdown
  <1>26. ASSUME Exit PROVE RunStep
    BY <1>26 DEF Exit
  <1>27. ASSUME Crash PROVE RunStep
    BY <1>27 DEF Crash
  <1>28. ASSUME Sweep PROVE RunStep
    BY <1>28 DEF Sweep
  <1>29. CASE UNCHANGED vars BY <1>29 DEF vars, turnVars
  <1>30. ASSUME NEW t \in Turn, Step(t) PROVE RunStep
    BY <1>30, <1>1, <1>2, <1>3, <1>4, <1>5, <1>6, <1>7, <1>8, <1>9, <1>10, <1>11, <1>12, <1>13
    DEF Step
  <1>31. ASSUME NEW t \in Turn, BridgeReturns(t) PROVE RunStep
    BY <1>31 DEF BridgeReturns
  <1> QED BY <1>14, <1>15, <1>16, <1>17, <1>18, <1>19, <1>20, <1>21, <1>22, <1>23, <1>24, <1>25,
       <1>26, <1>27, <1>28, <1>29, <1>30, <1>31
    DEF Next

(* Every step is one of the balance, or none.                              *)
LEMMA StepsOfBalance == ASSUME [Next]_vars PROVE BillStep
  <1> USE DEF BillStep, Dies
  <1>1. ASSUME NEW t \in Turn, Open(t) PROVE BillStep
    BY <1>1 DEF Open
  <1>2. ASSUME NEW t \in Turn, Access(t) PROVE BillStep
    BY <1>2 DEF Access
  <1>3. ASSUME NEW t \in Turn, FindConversation(t) PROVE BillStep
    BY <1>3 DEF FindConversation
  <1>4. ASSUME NEW t \in Turn, CreateConversation(t) PROVE BillStep
    BY <1>4 DEF CreateConversation
  <1>5. ASSUME NEW t \in Turn, SaveUserMessage(t) PROVE BillStep
    BY <1>5 DEF SaveUserMessage
  <1>6. ASSUME NEW t \in Turn, SendPlaceholder(t) PROVE BillStep
    BY <1>6 DEF SendPlaceholder
  <1>7. ASSUME NEW t \in Turn, Chat(t) PROVE BillStep
    BY <1>7 DEF Chat
  <1>8. ASSUME NEW t \in Turn, Reply(t) PROVE BillStep
    BY <1>8 DEF Reply
  <1>9. ASSUME NEW t \in Turn, Bill(t) PROVE BillStep
    BY <1>9 DEF Bill
  <1>10. ASSUME NEW t \in Turn, Refuse(t) PROVE BillStep
    BY <1>10 DEF Refuse
  <1>11. ASSUME NEW t \in Turn, Apologise(t) PROVE BillStep
    BY <1>11 DEF Apologise
  <1>12. ASSUME NEW t \in Turn, Finish(t) PROVE BillStep
    BY <1>12 DEF Finish
  <1>13. ASSUME NEW t \in Turn, Settle(t) PROVE BillStep
    BY <1>13 DEF Settle
  <1>14. ASSUME NEW t \in Turn, Deliver(t) PROVE BillStep
    BY <1>14 DEF Deliver
  <1>15. ASSUME NEW t \in Turn, BridgeCall(t) PROVE BillStep
    BY <1>15 DEF BridgeCall
  <1>16. ASSUME NEW t \in Turn, Checkpoint(t) PROVE BillStep
    BY <1>16 DEF Checkpoint
  <1>17. ASSUME NEW t \in Turn, CheckpointLands(t) PROVE BillStep
    BY <1>17 DEF CheckpointLands
  <1>18. ASSUME NEW t \in Turn, CaptureEnds(t) PROVE BillStep
    BY <1>18 DEF CaptureEnds
  <1>19. ASSUME NEW t \in Turn, HalfAnHour(t) PROVE BillStep
    BY <1>19 DEF HalfAnHour
  <1>20. ASSUME NEW m \in Msgs, Receive(m) PROVE BillStep
    BY <1>20 DEF Receive
  <1>21. ASSUME NEW m \in Msgs, DeliverUnready(m) PROVE BillStep
    BY <1>21 DEF DeliverUnready
  <1>22. ASSUME NEW m \in Msgs, LoseLease(m) PROVE BillStep
    BY <1>22 DEF LoseLease
  <1>23. ASSUME NEW m \in Msgs, ForgetJob(m) PROVE BillStep
    BY <1>23 DEF ForgetJob
  <1>24. ASSUME Ready PROVE BillStep
    BY <1>24 DEF Ready
  <1>25. ASSUME Shutdown PROVE BillStep
    BY <1>25 DEF Shutdown
  <1>26. ASSUME Exit PROVE BillStep
    BY <1>26 DEF Exit
  <1>27. ASSUME Crash PROVE BillStep
    BY <1>27 DEF Crash
  <1>28. ASSUME Sweep PROVE BillStep
    BY <1>28 DEF Sweep
  <1>29. CASE UNCHANGED vars BY <1>29 DEF vars, turnVars
  <1>30. ASSUME NEW t \in Turn, Step(t) PROVE BillStep
    BY <1>30, <1>1, <1>2, <1>3, <1>4, <1>5, <1>6, <1>7, <1>8, <1>9, <1>10, <1>11, <1>12, <1>13
    DEF Step
  <1>31. ASSUME NEW t \in Turn, BridgeReturns(t) PROVE BillStep
    BY <1>31 DEF BridgeReturns
  <1> QED BY <1>14, <1>15, <1>16, <1>17, <1>18, <1>19, <1>20, <1>21, <1>22, <1>23, <1>24, <1>25,
       <1>26, <1>27, <1>28, <1>29, <1>30, <1>31
    DEF Next

-----------------------------------------------------------------------------
(* Types.                                                                  *)

(* A job that may be tried again has attempts left.                        *)
Retriable == \A m \in Msgs : job[m] \in {"none", "waiting", "active"} => attempts[m] < Attempts

TurnTypeOK ==
  /\ pc \in [Turn -> Places]
  /\ said \in [Turn -> SUBSET {"reply", "refusal", "error"}]
  /\ outcome \in [Turn -> Outcomes]
  /\ capture \in [Turn -> {"none", "running", "over"}]
  /\ phase \in {"boot", "up", "closing"}
  /\ conv \subseteq Contacts
  /\ bridge \subseteq Turn
  /\ crowd \in 1 .. Workers
  /\ updates \in 0 .. MaxUpdates
  /\ faults \in 0 .. MaxFaults

(* A turn is a message and a number.                                       *)
LEMMA TurnFacts ==
  /\ \A t \in Turn : Msg(t) \in Msgs /\ Contact(t) \in Contacts
  /\ NoTurn \notin Turn
  BY QueueConstants, RecorderConstants
     DEF QueueConstants, RecorderConstants, Turn, Msg, Contact

(* Sets of turns are finite.                                               *)
LEMMA Finite ==
  ASSUME NEW S, S \subseteq Turn
  PROVE  IsFiniteSet(S) /\ Cardinality(S) \in Nat
  <1>1. IsFiniteSet(Msgs) /\ IsFiniteSet(1 .. MaxDeliveries)
    BY QueueConstants, FS_Interval DEF QueueConstants
  <1>2. IsFiniteSet(Turn) BY <1>1, FS_Product DEF Turn
  <1> QED BY <1>2, FS_Subset, FS_CardinalityType

(* The queue keeps its types.                                              *)
LEMMA QueueTypes ==
  ASSUME QueueTypeOK, Retriable, QueueStep
  PROVE  QueueTypeOK' /\ Retriable'
  <1> USE QueueConstants DEF QueueConstants, QueueTypeOK, Retriable, MaxStalledCount
  <1>1. ASSUME NEW m \in Msgs, Enqueue(m) PROVE QueueTypeOK' /\ Retriable'
    BY <1>1 DEF Enqueue
  <1>2. ASSUME NEW m \in Msgs, Throw(m) PROVE QueueTypeOK' /\ Retriable'
    BY <1>2 DEF Throw
  <1>3. ASSUME NEW m \in Msgs, Stall(m) PROVE QueueTypeOK' /\ Retriable'
    BY <1>3 DEF Stall
  <1>4. ASSUME NEW m \in Msgs, Forget(m) PROVE QueueTypeOK' /\ Retriable'
    BY <1>4 DEF Forget
  <1>5. ASSUME NEW t \in Turn, Take(Msg(t), t) PROVE QueueTypeOK' /\ Retriable'
    BY <1>5, TurnFacts DEF Take
  <1>6. ASSUME NEW t \in Turn, Complete(t) PROVE QueueTypeOK' /\ Retriable'
    BY <1>6, TurnFacts DEF Complete
  <1>7. CASE UNCHANGED queueVars BY <1>7 DEF queueVars
  <1> QED BY <1>1, <1>2, <1>3, <1>4, <1>5, <1>6, <1>7 DEF QueueStep

(* The recorder keeps its types.                                           *)
LEMMA RunTypes == ASSUME RunTypeOK, RunStep PROVE RunTypeOK'
  <1> USE TurnFacts DEF RunTypeOK
  <1>1. ASSUME NEW t \in Turn, NEW ok \in BOOLEAN, StartRun(t, ok) PROVE RunTypeOK'
    BY <1>1 DEF StartRun
  <1>2. ASSUME NEW t \in Turn, NEW ok \in BOOLEAN, PartialLands(t, ok) PROVE RunTypeOK'
    BY <1>2 DEF PartialLands
  <1>3. ASSUME NEW t \in Turn, BindRun(t) PROVE RunTypeOK'
    BY <1>3 DEF BindRun
  <1>4. ASSUME NEW t \in Turn, UnbindRun(t) PROVE RunTypeOK'
    BY <1>4 DEF UnbindRun
  <1>5. ASSUME NEW t \in Turn, RecordToolCall(t) PROVE RunTypeOK'
    BY <1>5 DEF RecordToolCall
  <1>6. ASSUME NEW t \in Turn, SavePartial(t) PROVE RunTypeOK'
    BY <1>6 DEF SavePartial
  <1>7. ASSUME NEW t \in Turn, RunAges(t) PROVE RunTypeOK'
    BY <1>7 DEF RunAges
  <1>8. ASSUME NEW t \in Turn, NEW status \in {"completed", "failed"}, FinishRun(t, status)
        PROVE  RunTypeOK'
    BY <1>8 DEF FinishRun
  <1>9. CASE SweepStaleRuns BY <1>9 DEF SweepStaleRuns
  <1>10. CASE ForgetRuns BY <1>10 DEF ForgetRuns
  <1>11. CASE UNCHANGED runVars BY <1>11 DEF runVars
  <1> QED BY <1>1, <1>2, <1>3, <1>4, <1>5, <1>6, <1>7, <1>8, <1>9, <1>10, <1>11 DEF RunStep

(* The balance keeps its types.                                            *)
LEMMA BillTypes == ASSUME BillTypeOK, BillStep PROVE BillTypeOK'
  BY DEF BillTypeOK, BillStep, billVars, WaveThrough, Charge, ChargeCapture

(* The turns keep theirs.                                                  *)
LEMMA TurnTypes == ASSUME TurnTypeOK, [Next]_vars PROVE TurnTypeOK'
  <1> USE TurnConstants, TurnFacts
      DEF TurnConstants, TurnTypeOK, Places, Outcomes,
          Throws, Ends, Goes, Elsewhere, Arrives, Bounces, Fault, NoFault, Dies
  <1>1. ASSUME NEW t \in Turn, Open(t) PROVE TurnTypeOK'
    <2>1. /\ pc' = [pc EXCEPT ![t] = "access"]
          /\ faults' \in 0 .. MaxFaults
      BY <1>1 DEF Open, StartRun
    <2>2. UNCHANGED <<said, outcome, capture, phase, conv, bridge, crowd, updates>>
      BY <1>1 DEF Open, StartRun
    <2> QED BY <2>1, <2>2
  <1>2. ASSUME NEW t \in Turn, Access(t) PROVE TurnTypeOK'
    BY <1>2 DEF Access
  <1>3. ASSUME NEW t \in Turn, FindConversation(t) PROVE TurnTypeOK'
    BY <1>3 DEF FindConversation
  <1>4. ASSUME NEW t \in Turn, CreateConversation(t) PROVE TurnTypeOK'
    BY <1>4 DEF CreateConversation
  <1>5. ASSUME NEW t \in Turn, SaveUserMessage(t) PROVE TurnTypeOK'
    BY <1>5 DEF SaveUserMessage
  <1>6. ASSUME NEW t \in Turn, SendPlaceholder(t) PROVE TurnTypeOK'
    BY <1>6 DEF SendPlaceholder
  <1>7. ASSUME NEW t \in Turn, Chat(t) PROVE TurnTypeOK'
    BY <1>7 DEF Chat
  <1>8. ASSUME NEW t \in Turn, Reply(t) PROVE TurnTypeOK'
    BY <1>8 DEF Reply
  <1>9. ASSUME NEW t \in Turn, Bill(t) PROVE TurnTypeOK'
    BY <1>9 DEF Bill
  <1>10. ASSUME NEW t \in Turn, Refuse(t) PROVE TurnTypeOK'
    BY <1>10 DEF Refuse
  <1>11. ASSUME NEW t \in Turn, Apologise(t) PROVE TurnTypeOK'
    BY <1>11 DEF Apologise
  <1>12. ASSUME NEW t \in Turn, Finish(t) PROVE TurnTypeOK'
    BY <1>12 DEF Finish
  <1>13. ASSUME NEW t \in Turn, Settle(t) PROVE TurnTypeOK'
    BY <1>13 DEF Settle
  <1>14. ASSUME NEW t \in Turn, Deliver(t) PROVE TurnTypeOK'
    <2>1. InFlight \subseteq Turn BY DEF InFlight
    <2>2. Cardinality(InFlight) \in Nat BY <2>1, Finite
    <2>3. crowd' \in 1 .. Workers BY <1>14, <2>2 DEF Deliver
    <2> QED BY <1>14, <2>3 DEF Deliver
  <1>15. ASSUME NEW t \in Turn, BridgeCall(t) PROVE TurnTypeOK'
    BY <1>15 DEF BridgeCall
  <1>16. ASSUME NEW t \in Turn, Checkpoint(t) PROVE TurnTypeOK'
    BY <1>16 DEF Checkpoint
  <1>17. ASSUME NEW t \in Turn, CheckpointLands(t) PROVE TurnTypeOK'
    <2>1. faults' \in 0 .. MaxFaults BY <1>17 DEF CheckpointLands, PartialLands
    <2>2. UNCHANGED <<pc, said, outcome, capture, phase, conv, bridge, crowd, updates>>
      BY <1>17 DEF CheckpointLands, PartialLands
    <2> QED BY <2>1, <2>2
  <1>18. ASSUME NEW t \in Turn, CaptureEnds(t) PROVE TurnTypeOK'
    BY <1>18 DEF CaptureEnds
  <1>19. ASSUME NEW t \in Turn, HalfAnHour(t) PROVE TurnTypeOK'
    BY <1>19 DEF HalfAnHour
  <1>20. ASSUME NEW m \in Msgs, Receive(m) PROVE TurnTypeOK'
    BY <1>20 DEF Receive
  <1>21. ASSUME NEW m \in Msgs, DeliverUnready(m) PROVE TurnTypeOK'
    BY <1>21 DEF DeliverUnready
  <1>22. ASSUME NEW m \in Msgs, LoseLease(m) PROVE TurnTypeOK'
    BY <1>22 DEF LoseLease
  <1>23. ASSUME NEW m \in Msgs, ForgetJob(m) PROVE TurnTypeOK'
    BY <1>23 DEF ForgetJob
  <1>24. ASSUME Ready PROVE TurnTypeOK'
    BY <1>24 DEF Ready
  <1>25. ASSUME Shutdown PROVE TurnTypeOK'
    BY <1>25 DEF Shutdown
  <1>26. ASSUME Exit PROVE TurnTypeOK'
    BY <1>26 DEF Exit
  <1>27. ASSUME Crash PROVE TurnTypeOK'
    BY <1>27 DEF Crash
  <1>28. ASSUME Sweep PROVE TurnTypeOK'
    BY <1>28 DEF Sweep
  <1>29. CASE UNCHANGED vars BY <1>29 DEF vars, turnVars
  <1>30. ASSUME NEW t \in Turn, Step(t) PROVE TurnTypeOK'
    BY <1>30, <1>1, <1>2, <1>3, <1>4, <1>5, <1>6, <1>7, <1>8, <1>9, <1>10, <1>11, <1>12, <1>13
    DEF Step
  <1>31. ASSUME NEW t \in Turn, BridgeReturns(t) PROVE TurnTypeOK'
    BY <1>31 DEF BridgeReturns
  <1> QED BY <1>14, <1>15, <1>16, <1>17, <1>18, <1>19, <1>20, <1>21, <1>22, <1>23, <1>24, <1>25,
       <1>26, <1>27, <1>28, <1>29, <1>30, <1>31
    DEF Next

Typed == TypeOK /\ Retriable

(* All of them together.                                                   *)
LEMMA NextTyped == ASSUME Typed, [Next]_vars PROVE Typed'
  <1>1. QueueTypeOK' /\ Retriable' BY StepsOfQueue, QueueTypes DEF Typed, TypeOK
  <1>2. RunTypeOK' BY StepsOfRuns, RunTypes DEF Typed, TypeOK
  <1>3. BillTypeOK' BY StepsOfBalance, BillTypes DEF Typed, TypeOK
  <1>4. TurnTypeOK' BY TurnTypes DEF Typed, TypeOK, TurnTypeOK
  <1> QED BY <1>1, <1>2, <1>3, <1>4 DEF Typed, TypeOK, TurnTypeOK

(* The initial values have their types.                                    *)
LEMMA InitTyped == Init => Typed
  <1> SUFFICES ASSUME Init PROVE Typed OBVIOUS
  <1>1. QueueTypeOK /\ Retriable
    BY QueueConstants
       DEF QueueConstants, Init, QueueInit, QueueTypeOK, Retriable, MaxStalledCount
  <1>2. RunTypeOK BY DEF Init, RunInit, RunTypeOK
  <1>3. BillTypeOK BY BillingConstants DEF BillingConstants, Init, BillInit, BillTypeOK
  <1>4. pc \in [Turn -> Places] /\ outcome \in [Turn -> Outcomes]
    BY DEF Init, Places, Outcomes
  <1>5. said \in [Turn -> SUBSET {"reply", "refusal", "error"}] /\ conv \subseteq Contacts
    BY DEF Init
  <1>6. capture \in [Turn -> {"none", "running", "over"}] /\ phase \in {"boot", "up", "closing"}
    BY DEF Init
  <1>7. /\ bridge \subseteq Turn /\ crowd \in 1 .. Workers
        /\ updates \in 0 .. MaxUpdates /\ faults \in 0 .. MaxFaults
    BY TurnConstants DEF TurnConstants, Init
  <1> QED BY <1>1, <1>2, <1>3, <1>4, <1>5, <1>6, <1>7 DEF Typed, TypeOK

(* The types and what a retry needs, for every behaviour.                  *)
THEOREM AlwaysTyped == Spec => []Typed
  <1>1. Typed /\ [Next]_vars => Typed' BY NextTyped
  <1> QED BY <1>1, InitTyped, PTL DEF Spec

(* Every variable of every component has its type.                         *)
THEOREM TypeCorrect == Spec => []TypeOK
  <1>1. Typed => TypeOK BY DEF Typed
  <1> QED BY <1>1, AlwaysTyped, PTL

-----------------------------------------------------------------------------
(* The contract.                                                           *)

Silent == {"none", "open", "access", "find", "create", "user", "placeholder", "chat",
           "reply", "refuse"}

(* What a turn has said, and what it may still say and charge, by the      *)
(* place where it stands.                                                  *)
Staged == \A t \in Turn :
  /\ pc[t] \in Silent => said[t] = {}
  /\ pc[t] = "bill" => said[t] \subseteq {"reply"}
  /\ pc[t] \in Silent \cup {"bill", "apologise"} => outcome[t] = "open" /\ t \notin charged
  /\ pc[t] = "finish" => outcome[t] \in {"answered", "refused", "dropped", "failed"}
  /\ pc[t] \in {"settle", "over"} => outcome[t] # "open"

(* A turn that was not yet taken has not begun.                            *)
Numbered == \A t \in Turn : t[2] > taken[Msg(t)] => pc[t] = "none"

(* Turns are taken in the order of their numbers.                          *)
LEMMA NextNumbered == ASSUME Typed, Numbered, [Next]_vars PROVE Numbered'
  <1> USE TurnFacts
      DEF Typed, TypeOK, QueueTypeOK, Numbered, InFlight,
          Throws, Ends, Goes, Elsewhere, Dies, queueVars
  <1>1. ASSUME NEW t \in Turn, Open(t) PROVE Numbered'
    BY <1>1 DEF Open
  <1>2. ASSUME NEW t \in Turn, Access(t) PROVE Numbered'
    BY <1>2 DEF Access
  <1>3. ASSUME NEW t \in Turn, FindConversation(t) PROVE Numbered'
    BY <1>3 DEF FindConversation
  <1>4. ASSUME NEW t \in Turn, CreateConversation(t) PROVE Numbered'
    BY <1>4 DEF CreateConversation
  <1>5. ASSUME NEW t \in Turn, SaveUserMessage(t) PROVE Numbered'
    BY <1>5 DEF SaveUserMessage
  <1>6. ASSUME NEW t \in Turn, SendPlaceholder(t) PROVE Numbered'
    BY <1>6 DEF SendPlaceholder
  <1>7. ASSUME NEW t \in Turn, Chat(t) PROVE Numbered'
    BY <1>7 DEF Chat
  <1>8. ASSUME NEW t \in Turn, Reply(t) PROVE Numbered'
    BY <1>8 DEF Reply
  <1>9. ASSUME NEW t \in Turn, Bill(t) PROVE Numbered'
    BY <1>9 DEF Bill
  <1>10. ASSUME NEW t \in Turn, Refuse(t) PROVE Numbered'
    BY <1>10 DEF Refuse
  <1>11. ASSUME NEW t \in Turn, Apologise(t) PROVE Numbered'
    BY <1>11 DEF Apologise
  <1>12. ASSUME NEW t \in Turn, Finish(t) PROVE Numbered'
    BY <1>12 DEF Finish
  <1>13. ASSUME NEW t \in Turn, Settle(t) PROVE Numbered'
    BY <1>13 DEF Settle, Complete
  <1>14. ASSUME NEW t \in Turn, Deliver(t) PROVE Numbered'
    <2>1. t[2] = taken[Msg(t)] + 1 /\ taken' = [taken EXCEPT ![Msg(t)] = @ + 1]
      BY <1>14 DEF Deliver, Take
    <2>2. pc' = [pc EXCEPT ![t] = "open"] BY <1>14 DEF Deliver
    <2>3. \A u \in Turn : taken[Msg(u)] \in Nat /\ u[2] \in Nat BY DEF Turn, Msg
    <2>4. ASSUME NEW u \in Turn, u[2] > taken'[Msg(u)] PROVE pc'[u] = "none"
      <3>1. u[2] > taken[Msg(u)] BY <2>1, <2>3, <2>4
      <3>2. u # t BY <2>1, <2>3, <2>4
      <3> QED BY <2>2, <3>1, <3>2
    <2> QED BY <2>4
  <1>15. ASSUME NEW t \in Turn, BridgeCall(t) PROVE Numbered'
    BY <1>15 DEF BridgeCall
  <1>16. ASSUME NEW t \in Turn, Checkpoint(t) PROVE Numbered'
    BY <1>16 DEF Checkpoint
  <1>17. ASSUME NEW t \in Turn, CheckpointLands(t) PROVE Numbered'
    BY <1>17 DEF CheckpointLands
  <1>18. ASSUME NEW t \in Turn, CaptureEnds(t) PROVE Numbered'
    BY <1>18 DEF CaptureEnds
  <1>19. ASSUME NEW t \in Turn, HalfAnHour(t) PROVE Numbered'
    BY <1>19 DEF HalfAnHour
  <1>20. ASSUME NEW m \in Msgs, Receive(m) PROVE Numbered'
    BY <1>20 DEF Receive, Enqueue
  <1>21. ASSUME NEW m \in Msgs, DeliverUnready(m) PROVE Numbered'
    BY <1>21 DEF DeliverUnready, Throw
  <1>22. ASSUME NEW m \in Msgs, LoseLease(m) PROVE Numbered'
    BY <1>22 DEF LoseLease, Stall
  <1>23. ASSUME NEW m \in Msgs, ForgetJob(m) PROVE Numbered'
    BY <1>23 DEF ForgetJob, Forget
  <1>24. ASSUME Ready PROVE Numbered'
    BY <1>24 DEF Ready
  <1>25. ASSUME Shutdown PROVE Numbered'
    BY <1>25 DEF Shutdown
  <1>26. ASSUME Exit PROVE Numbered'
    BY <1>26 DEF Exit
  <1>27. ASSUME Crash PROVE Numbered'
    BY <1>27 DEF Crash
  <1>28. ASSUME Sweep PROVE Numbered'
    BY <1>28 DEF Sweep
  <1>29. CASE UNCHANGED vars BY <1>29 DEF vars, turnVars
  <1>30. ASSUME NEW t \in Turn, Step(t) PROVE Numbered'
    BY <1>30, <1>1, <1>2, <1>3, <1>4, <1>5, <1>6, <1>7, <1>8, <1>9, <1>10, <1>11, <1>12, <1>13
    DEF Step
  <1>31. ASSUME NEW t \in Turn, BridgeReturns(t) PROVE Numbered'
    BY <1>31 DEF BridgeReturns
  <1> QED BY <1>14, <1>15, <1>16, <1>17, <1>18, <1>19, <1>20, <1>21, <1>22, <1>23, <1>24, <1>25,
       <1>26, <1>27, <1>28, <1>29, <1>30, <1>31
    DEF Next

(* So it is in every behaviour.                                            *)
THEOREM AlwaysNumbered == Spec => []Numbered
  <1>1. Init => Numbered BY DEF Init, Numbered
  <1>2. Typed /\ Numbered /\ [Next]_vars => Numbered' BY NextNumbered
  <1> QED BY <1>1, <1>2, AlwaysTyped, PTL DEF Spec

(* Each step moves its turn from one stage to another.                     *)
LEMMA NextStaged == ASSUME Typed, Numbered, Staged, [Next]_vars PROVE Staged'
  <1> USE TurnFacts
      DEF Typed, TypeOK, BillTypeOK, Places, Staged, Silent, InFlight,
          Throws, Ends, Goes, Elsewhere, Arrives, Bounces, NoFault, Dies, billVars
  <1>1. ASSUME NEW t \in Turn, Open(t) PROVE Staged'
    BY <1>1 DEF Open, StartRun
  <1>2. ASSUME NEW t \in Turn, Access(t) PROVE Staged'
    BY <1>2 DEF Access, WaveThrough
  <1>3. ASSUME NEW t \in Turn, FindConversation(t) PROVE Staged'
    BY <1>3 DEF FindConversation
  <1>4. ASSUME NEW t \in Turn, CreateConversation(t) PROVE Staged'
    BY <1>4 DEF CreateConversation
  <1>5. ASSUME NEW t \in Turn, SaveUserMessage(t) PROVE Staged'
    BY <1>5 DEF SaveUserMessage
  <1>6. ASSUME NEW t \in Turn, SendPlaceholder(t) PROVE Staged'
    BY <1>6 DEF SendPlaceholder
  <1>7. ASSUME NEW t \in Turn, Chat(t) PROVE Staged'
    BY <1>7 DEF Chat
  <1>8. ASSUME NEW t \in Turn, Reply(t) PROVE Staged'
    BY <1>8 DEF Reply
  <1>9. ASSUME NEW t \in Turn, Bill(t) PROVE Staged'
    BY <1>9 DEF Bill, Charge
  <1>10. ASSUME NEW t \in Turn, Refuse(t) PROVE Staged'
    BY <1>10 DEF Refuse
  <1>11. ASSUME NEW t \in Turn, Apologise(t) PROVE Staged'
    BY <1>11 DEF Apologise
  <1>12. ASSUME NEW t \in Turn, Finish(t) PROVE Staged'
    BY <1>12 DEF Finish
  <1>13. ASSUME NEW t \in Turn, Settle(t) PROVE Staged'
    BY <1>13 DEF Settle
  <1>14. ASSUME NEW t \in Turn, Deliver(t) PROVE Staged'
    <2>1. t[2] = taken[Msg(t)] + 1 BY <1>14 DEF Deliver, Take
    <2>2. taken[Msg(t)] \in Nat BY DEF QueueTypeOK
    <2>3. pc[t] = "none" BY <2>1, <2>2 DEF Numbered
    <2> QED BY <1>14, <2>3 DEF Deliver
  <1>15. ASSUME NEW t \in Turn, BridgeCall(t) PROVE Staged'
    BY <1>15 DEF BridgeCall
  <1>16. ASSUME NEW t \in Turn, Checkpoint(t) PROVE Staged'
    BY <1>16 DEF Checkpoint
  <1>17. ASSUME NEW t \in Turn, CheckpointLands(t) PROVE Staged'
    BY <1>17 DEF CheckpointLands, PartialLands
  <1>18. ASSUME NEW t \in Turn, CaptureEnds(t) PROVE Staged'
    BY <1>18 DEF CaptureEnds, ChargeCapture
  <1>19. ASSUME NEW t \in Turn, HalfAnHour(t) PROVE Staged'
    BY <1>19 DEF HalfAnHour
  <1>20. ASSUME NEW m \in Msgs, Receive(m) PROVE Staged'
    BY <1>20 DEF Receive
  <1>21. ASSUME NEW m \in Msgs, DeliverUnready(m) PROVE Staged'
    BY <1>21 DEF DeliverUnready
  <1>22. ASSUME NEW m \in Msgs, LoseLease(m) PROVE Staged'
    BY <1>22 DEF LoseLease
  <1>23. ASSUME NEW m \in Msgs, ForgetJob(m) PROVE Staged'
    BY <1>23 DEF ForgetJob
  <1>24. ASSUME Ready PROVE Staged'
    BY <1>24 DEF Ready
  <1>25. ASSUME Shutdown PROVE Staged'
    BY <1>25 DEF Shutdown
  <1>26. ASSUME Exit PROVE Staged'
    BY <1>26 DEF Exit
  <1>27. ASSUME Crash PROVE Staged'
    BY <1>27 DEF Crash
  <1>28. ASSUME Sweep PROVE Staged'
    BY <1>28 DEF Sweep
  <1>29. CASE UNCHANGED vars BY <1>29 DEF vars, turnVars
  <1>30. ASSUME NEW t \in Turn, Step(t) PROVE Staged'
    BY <1>30, <1>1, <1>2, <1>3, <1>4, <1>5, <1>6, <1>7, <1>8, <1>9, <1>10, <1>11, <1>12, <1>13
    DEF Step
  <1>31. ASSUME NEW t \in Turn, BridgeReturns(t) PROVE Staged'
    BY <1>31 DEF BridgeReturns
  <1> QED BY <1>14, <1>15, <1>16, <1>17, <1>18, <1>19, <1>20, <1>21, <1>22, <1>23, <1>24, <1>25,
       <1>26, <1>27, <1>28, <1>29, <1>30, <1>31
    DEF Next

(* A step of the code is a step of the contract, or none.                  *)
LEMMA StepKept ==
  ASSUME Typed, Staged, [Next]_vars
  PROVE  [Contract!Next]_(Contract!contractVars)
  <1> DEFINE Kept == [Contract!Next]_(Contract!contractVars)
  <1> USE TurnFacts
      DEF Typed, TypeOK, BillTypeOK, Staged, Silent, Places, InFlight,
          Throws, Ends, Goes, Elsewhere, Arrives, Bounces, NoFault, Dies, billVars,
          Contract!Next, Contract!contractVars
  <1>1. ASSUME NEW t \in Turn, Open(t) PROVE Kept
    BY <1>1 DEF Open, StartRun
  <1>2. ASSUME NEW t \in Turn, Access(t) PROVE Kept
    BY <1>2 DEF Access, WaveThrough
  <1>3. ASSUME NEW t \in Turn, FindConversation(t) PROVE Kept
    BY <1>3 DEF FindConversation
  <1>4. ASSUME NEW t \in Turn, CreateConversation(t) PROVE Kept
    BY <1>4 DEF CreateConversation
  <1>5. ASSUME NEW t \in Turn, SaveUserMessage(t) PROVE Kept
    BY <1>5 DEF SaveUserMessage, Contract!Drop
  <1>6. ASSUME NEW t \in Turn, SendPlaceholder(t) PROVE Kept
    BY <1>6 DEF SendPlaceholder
  <1>7. ASSUME NEW t \in Turn, Chat(t) PROVE Kept
    BY <1>7 DEF Chat
  <1>8. ASSUME NEW t \in Turn, Reply(t) PROVE Kept
    BY <1>8 DEF Reply, Contract!Reply
  <1>9. ASSUME NEW t \in Turn, Bill(t) PROVE Kept
    BY <1>9 DEF Bill, Charge, Contract!Settle
  <1>10. ASSUME NEW t \in Turn, Refuse(t) PROVE Kept
    BY <1>10 DEF Refuse, Contract!Refuse
  <1>11. ASSUME NEW t \in Turn, Apologise(t) PROVE Kept
    <2>1. \E word \in {{}, {"error"}} : said' = [said EXCEPT ![t] = @ \cup word]
      <3>1. CASE said' = said
        <4>1. said' = [said EXCEPT ![t] = @ \cup {}] BY <3>1
        <4> QED BY <4>1
      <3>2. CASE said' = [said EXCEPT ![t] = @ \cup {"error"}] BY <3>2
      <3> QED BY <1>11, <3>1, <3>2 DEF Apologise
    <2>2. outcome[t] = "open" /\ outcome' = [outcome EXCEPT ![t] = "failed"]
      BY <1>11 DEF Apologise
    <2>3. charged' = charged BY <1>11 DEF Apologise
    <2>4. Contract!Fail(t) BY <2>1, <2>2, <2>3 DEF Contract!Fail
    <2> QED BY <2>4
  <1>12. ASSUME NEW t \in Turn, Finish(t) PROVE Kept
    BY <1>12 DEF Finish
  <1>13. ASSUME NEW t \in Turn, Settle(t) PROVE Kept
    BY <1>13 DEF Settle
  <1>14. ASSUME NEW t \in Turn, Deliver(t) PROVE Kept
    BY <1>14 DEF Deliver
  <1>15. ASSUME NEW t \in Turn, BridgeCall(t) PROVE Kept
    BY <1>15 DEF BridgeCall
  <1>16. ASSUME NEW t \in Turn, Checkpoint(t) PROVE Kept
    BY <1>16 DEF Checkpoint
  <1>17. ASSUME NEW t \in Turn, CheckpointLands(t) PROVE Kept
    BY <1>17 DEF CheckpointLands, PartialLands
  <1>18. ASSUME NEW t \in Turn, CaptureEnds(t) PROVE Kept
    BY <1>18 DEF CaptureEnds, ChargeCapture
  <1>19. ASSUME NEW t \in Turn, HalfAnHour(t) PROVE Kept
    BY <1>19 DEF HalfAnHour
  <1>20. ASSUME NEW m \in Msgs, Receive(m) PROVE Kept
    BY <1>20 DEF Receive
  <1>21. ASSUME NEW m \in Msgs, DeliverUnready(m) PROVE Kept
    BY <1>21 DEF DeliverUnready
  <1>22. ASSUME NEW m \in Msgs, LoseLease(m) PROVE Kept
    BY <1>22 DEF LoseLease
  <1>23. ASSUME NEW m \in Msgs, ForgetJob(m) PROVE Kept
    BY <1>23 DEF ForgetJob
  <1>24. ASSUME Ready PROVE Kept
    BY <1>24 DEF Ready
  <1>25. ASSUME Shutdown PROVE Kept
    BY <1>25 DEF Shutdown
  <1>26. ASSUME Exit PROVE Kept
    BY <1>26 DEF Exit, Contract!Lose
  <1>27. ASSUME Crash PROVE Kept
    <2> DEFINE gone == {u \in Turn : u \in InFlight /\ outcome[u] = "open"}
    <2>1. gone \in SUBSET {u \in Turn : outcome[u] = "open"} OBVIOUS
    <2>2. outcome' = [u \in Turn |-> IF u \in gone THEN "lost" ELSE outcome[u]]
      BY <1>27 DEF Crash
    <2>3. said' = said /\ charged' = charged BY <1>27 DEF Crash
    <2> HIDE DEF gone
    <2>4. Contract!Lose BY <2>1, <2>2, <2>3 DEF Contract!Lose
    <2> QED BY <2>4
  <1>28. ASSUME Sweep PROVE Kept
    BY <1>28 DEF Sweep
  <1>29. CASE UNCHANGED vars BY <1>29 DEF vars, turnVars
  <1>30. ASSUME NEW t \in Turn, Step(t) PROVE Kept
    BY <1>30, <1>1, <1>2, <1>3, <1>4, <1>5, <1>6, <1>7, <1>8, <1>9, <1>10, <1>11, <1>12, <1>13
    DEF Step
  <1>31. ASSUME NEW t \in Turn, BridgeReturns(t) PROVE Kept
    BY <1>31 DEF BridgeReturns
  <1> QED BY <1>14, <1>15, <1>16, <1>17, <1>18, <1>19, <1>20, <1>21, <1>22, <1>23, <1>24, <1>25,
       <1>26, <1>27, <1>28, <1>29, <1>30, <1>31
    DEF Next

(* Turns implements TurnContract.                                          *)
THEOREM Keeping == Spec => KeepsContract
  <1>1. Init => Staged BY DEF Init, BillInit, Staged, Silent
  <1>2. Typed /\ Numbered /\ Staged /\ [Next]_vars => Staged' BY NextStaged
  <1>3. Init => Contract!Init BY DEF Init, BillInit, Contract!Init
  <1>4. Typed /\ Staged /\ [Next]_vars => [Contract!Next]_(Contract!contractVars)
    BY StepKept
  <1> QED BY <1>1, <1>2, <1>3, <1>4, AlwaysTyped, AlwaysNumbered, PTL
     DEF Spec, KeepsContract, Contract!Spec

-----------------------------------------------------------------------------
(* What a turn says, what it costs and how it ends.                        *)

(* What the contact is told agrees with how the turn ended and with what   *)
(* it cost: a refusal and an error are free, whoever is told of an error   *)
(* was not charged even if the reply had come through before, a message    *)
(* that was dropped got no word, and no turn that is paid for failed.      *)
WordsMatchResults == \A t \in Turn :
  /\ t \in charged <=> outcome[t] = "answered"
  /\ "error" \in said[t] => outcome[t] = "failed"
  /\ "refusal" \in said[t] <=> outcome[t] = "refused"
  /\ outcome[t] \in {"open", "answered", "lost"} => said[t] \subseteq {"reply"}
  /\ outcome[t] = "refused" => said[t] = {"refusal"}
  /\ outcome[t] = "dropped" => said[t] = {}

(* A turn that is over says nothing more, costs nothing more and is not    *)
(* decided anew, whatever becomes of its lease, its row or the process.    *)
OverIsOver ==
  [][\A t \in Turn : outcome[t] # "open" =>
       /\ outcome'[t] = outcome[t]
       /\ said'[t] = said[t]
       /\ t \in charged' <=> t \in charged]_vars

(* It follows from the contract, whose steps all need an open turn.        *)
LEMMA NextWords ==
  ASSUME TypeOK, WordsMatchResults, [Contract!Next]_(Contract!contractVars)
  PROVE  WordsMatchResults'
  <1> USE DEF TypeOK, WordsMatchResults
  <1>1. ASSUME NEW t \in Turn, Contract!Reply(t) PROVE WordsMatchResults'
    BY <1>1 DEF Contract!Reply
  <1>2. ASSUME NEW t \in Turn, Contract!Settle(t) PROVE WordsMatchResults'
    BY <1>2 DEF Contract!Settle
  <1>3. ASSUME NEW t \in Turn, Contract!Refuse(t) PROVE WordsMatchResults'
    BY <1>3 DEF Contract!Refuse
  <1>4. ASSUME NEW t \in Turn, Contract!Drop(t) PROVE WordsMatchResults'
    BY <1>4 DEF Contract!Drop
  <1>5. ASSUME NEW t \in Turn, Contract!Fail(t) PROVE WordsMatchResults'
    BY <1>5 DEF Contract!Fail
  <1>6. CASE Contract!Lose
    BY <1>6 DEF Contract!Lose
  <1>7. CASE UNCHANGED Contract!contractVars
    BY <1>7 DEF Contract!contractVars
  <1> QED BY <1>1, <1>2, <1>3, <1>4, <1>5, <1>6, <1>7 DEF Contract!Next

(* Words, results and charges agree in every behaviour.                    *)
THEOREM WordsAgree == Spec => []WordsMatchResults
  <1>1. Contract!Init => WordsMatchResults BY DEF Contract!Init, WordsMatchResults
  <1>2. TypeOK /\ WordsMatchResults /\ [Contract!Next]_(Contract!contractVars)
          => WordsMatchResults'
    BY NextWords
  <1> QED BY <1>1, <1>2, TypeCorrect, Keeping, PTL DEF KeepsContract, Contract!Spec

(* A turn that is over stays as it is.                                     *)
THEOREM OverStays == Spec => OverIsOver
  <1> DEFINE Stays == \A t \in Turn : outcome[t] # "open" =>
                        /\ outcome'[t] = outcome[t]
                        /\ said'[t] = said[t]
                        /\ t \in charged' <=> t \in charged
  <1>1. ASSUME TypeOK, [Contract!Next]_(Contract!contractVars) PROVE Stays
    BY <1>1 DEF TypeOK, Contract!Next, Contract!contractVars, Contract!Reply, Contract!Settle,
                Contract!Refuse, Contract!Drop, Contract!Fail, Contract!Lose
  <1>2. TypeOK /\ [Contract!Next]_(Contract!contractVars) => [Stays]_vars BY <1>1
  <1>3. OverIsOver <=> [][Stays]_vars BY DEF OverIsOver
  <1> HIDE DEF Stays
  <1> QED BY <1>2, <1>3, TypeCorrect, Keeping, PTL DEF KeepsContract, Contract!Spec

==============================================================================

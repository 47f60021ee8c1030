--------------------------- MODULE TurnsSafetyProofs ---------------------------
(***************************************************************************)
(* Theorems about Turns that go beyond one turn: which run a tool call is  *)
(* added to, that a message has one turn at a time, which turns fail, what *)
(* the rows of agent_runs say, and how far a balance is overdrawn.         *)
(***************************************************************************)
EXTENDS TurnsProofs

-----------------------------------------------------------------------------
(* The bridge.                                                             *)

(* Only a turn that is past the conversation has joined it, a turn that is *)
(* past it has, and so has a turn whose tools were called.                 *)
Joining == \A t \in Turn :
  /\ pc[t] \in {"none", "open", "access", "find", "create"} => t \notin joined
  /\ pc[t] \in {"user", "placeholder", "chat", "reply", "bill"} => t \in joined
  /\ t \in bridge => t \in joined

(* The run that is bound is an open one of the conversation; a run that    *)
(* had the conversation for itself is the one that is bound.               *)
Binding ==
  /\ \A c \in Contacts : bound[c] # NoTurn =>
        /\ bound[c] \in joined
        /\ Contact(bound[c]) = c
        /\ outcome[bound[c]] = "open"
  /\ \A t \in joined :
        outcome[t] = "open" /\ (\A u \in joined : Contact(u) = Contact(t) => u = t)
          => bound[Contact(t)] = t

Stable == Typed /\ Numbered /\ Staged

(* What the first module proved.                                           *)
LEMMA AlwaysStable == Spec => []Stable
  <1>1. Init => Staged BY DEF Init, BillInit, Staged, Silent
  <1>2. Typed /\ Numbered /\ Staged /\ [Next]_vars => Staged' BY NextStaged
  <1> QED BY <1>1, <1>2, AlwaysTyped, AlwaysNumbered, PTL DEF Spec, Stable

(* A turn joins where it finds or makes its conversation.                  *)
LEMMA NextJoining == ASSUME Stable, Joining, [Next]_vars PROVE Joining'
  <1> USE TurnFacts
      DEF Stable, Typed, TypeOK, RunTypeOK, Joining, InFlight,
          Throws, Ends, Goes, Elsewhere, Dies, UnbindRun, ForgetRuns, runVars
  <1>1. ASSUME NEW t \in Turn, Open(t) PROVE Joining'
    BY <1>1 DEF Open, StartRun
  <1>2. ASSUME NEW t \in Turn, Access(t) PROVE Joining'
    BY <1>2 DEF Access
  <1>3. ASSUME NEW t \in Turn, FindConversation(t) PROVE Joining'
    BY <1>3 DEF FindConversation, BindRun
  <1>4. ASSUME NEW t \in Turn, CreateConversation(t) PROVE Joining'
    BY <1>4 DEF CreateConversation, BindRun
  <1>5. ASSUME NEW t \in Turn, SaveUserMessage(t) PROVE Joining'
    BY <1>5 DEF SaveUserMessage
  <1>6. ASSUME NEW t \in Turn, SendPlaceholder(t) PROVE Joining'
    BY <1>6 DEF SendPlaceholder
  <1>7. ASSUME NEW t \in Turn, Chat(t) PROVE Joining'
    BY <1>7 DEF Chat
  <1>8. ASSUME NEW t \in Turn, Reply(t) PROVE Joining'
    BY <1>8 DEF Reply
  <1>9. ASSUME NEW t \in Turn, Bill(t) PROVE Joining'
    BY <1>9 DEF Bill
  <1>10. ASSUME NEW t \in Turn, Refuse(t) PROVE Joining'
    BY <1>10 DEF Refuse
  <1>11. ASSUME NEW t \in Turn, Apologise(t) PROVE Joining'
    BY <1>11 DEF Apologise
  <1>12. ASSUME NEW t \in Turn, Finish(t) PROVE Joining'
    BY <1>12 DEF Finish, FinishRun
  <1>13. ASSUME NEW t \in Turn, Settle(t) PROVE Joining'
    BY <1>13 DEF Settle
  <1>14. ASSUME NEW t \in Turn, Deliver(t) PROVE Joining'
    <2>1. pc[t] = "none"
      BY <1>14 DEF Deliver, Take, Numbered, QueueTypeOK
    <2> QED BY <1>14, <2>1 DEF Deliver
  <1>15. ASSUME NEW t \in Turn, BridgeCall(t) PROVE Joining'
    BY <1>15 DEF BridgeCall
  <1>16. ASSUME NEW t \in Turn, Checkpoint(t) PROVE Joining'
    BY <1>16 DEF Checkpoint, SavePartial
  <1>17. ASSUME NEW t \in Turn, CheckpointLands(t) PROVE Joining'
    BY <1>17 DEF CheckpointLands, PartialLands
  <1>18. ASSUME NEW t \in Turn, CaptureEnds(t) PROVE Joining'
    BY <1>18 DEF CaptureEnds
  <1>19. ASSUME NEW t \in Turn, HalfAnHour(t) PROVE Joining'
    BY <1>19 DEF HalfAnHour, RunAges
  <1>20. ASSUME NEW m \in Msgs, Receive(m) PROVE Joining'
    BY <1>20 DEF Receive
  <1>21. ASSUME NEW m \in Msgs, DeliverUnready(m) PROVE Joining'
    BY <1>21 DEF DeliverUnready
  <1>22. ASSUME NEW m \in Msgs, LoseLease(m) PROVE Joining'
    BY <1>22 DEF LoseLease
  <1>23. ASSUME NEW m \in Msgs, ForgetJob(m) PROVE Joining'
    BY <1>23 DEF ForgetJob
  <1>24. ASSUME Ready PROVE Joining'
    BY <1>24 DEF Ready
  <1>25. ASSUME Shutdown PROVE Joining'
    BY <1>25 DEF Shutdown
  <1>26. ASSUME Exit PROVE Joining'
    BY <1>26 DEF Exit
  <1>27. ASSUME Crash PROVE Joining'
    BY <1>27 DEF Crash
  <1>28. ASSUME Sweep PROVE Joining'
    BY <1>28 DEF Sweep, SweepStaleRuns
  <1>29. CASE UNCHANGED vars BY <1>29 DEF vars, turnVars
  <1>30. ASSUME NEW t \in Turn, Step(t) PROVE Joining'
    BY <1>30, <1>1, <1>2, <1>3, <1>4, <1>5, <1>6, <1>7, <1>8, <1>9, <1>10, <1>11, <1>12, <1>13
    DEF Step
  <1>31. ASSUME NEW t \in Turn, BridgeReturns(t) PROVE Joining'
    BY <1>31 DEF BridgeReturns, RecordToolCall
  <1> QED BY <1>14, <1>15, <1>16, <1>17, <1>18, <1>19, <1>20, <1>21, <1>22, <1>23, <1>24, <1>25,
       <1>26, <1>27, <1>28, <1>29, <1>30, <1>31
    DEF Next

(* The map follows its runs.                                               *)
LEMMA NextBinding == ASSUME Stable, Joining, Binding, [Next]_vars PROVE Binding'
  <1> USE TurnFacts
      DEF Stable, Typed, TypeOK, RunTypeOK, Places, Joining, Binding, Staged, Silent, InFlight,
          Throws, Ends, Goes, Elsewhere, Dies, UnbindRun, ForgetRuns, runVars
  <1>1. ASSUME NEW t \in Turn, Open(t) PROVE Binding'
    BY <1>1 DEF Open, StartRun
  <1>2. ASSUME NEW t \in Turn, Access(t) PROVE Binding'
    BY <1>2 DEF Access
  <1>3. ASSUME NEW t \in Turn, FindConversation(t) PROVE Binding'
    BY <1>3 DEF FindConversation, BindRun
  <1>4. ASSUME NEW t \in Turn, CreateConversation(t) PROVE Binding'
    BY <1>4 DEF CreateConversation, BindRun
  <1>5. ASSUME NEW t \in Turn, SaveUserMessage(t) PROVE Binding'
    BY <1>5 DEF SaveUserMessage
  <1>6. ASSUME NEW t \in Turn, SendPlaceholder(t) PROVE Binding'
    BY <1>6 DEF SendPlaceholder
  <1>7. ASSUME NEW t \in Turn, Chat(t) PROVE Binding'
    BY <1>7 DEF Chat
  <1>8. ASSUME NEW t \in Turn, Reply(t) PROVE Binding'
    BY <1>8 DEF Reply
  <1>9. ASSUME NEW t \in Turn, Bill(t) PROVE Binding'
    BY <1>9 DEF Bill
  <1>10. ASSUME NEW t \in Turn, Refuse(t) PROVE Binding'
    BY <1>10 DEF Refuse
  <1>11. ASSUME NEW t \in Turn, Apologise(t) PROVE Binding'
    BY <1>11 DEF Apologise
  <1>12. ASSUME NEW t \in Turn, Finish(t) PROVE Binding'
    BY <1>12 DEF Finish, FinishRun
  <1>13. ASSUME NEW t \in Turn, Settle(t) PROVE Binding'
    BY <1>13 DEF Settle
  <1>14. ASSUME NEW t \in Turn, Deliver(t) PROVE Binding'
    BY <1>14 DEF Deliver
  <1>15. ASSUME NEW t \in Turn, BridgeCall(t) PROVE Binding'
    BY <1>15 DEF BridgeCall
  <1>16. ASSUME NEW t \in Turn, Checkpoint(t) PROVE Binding'
    BY <1>16 DEF Checkpoint, SavePartial
  <1>17. ASSUME NEW t \in Turn, CheckpointLands(t) PROVE Binding'
    BY <1>17 DEF CheckpointLands, PartialLands
  <1>18. ASSUME NEW t \in Turn, CaptureEnds(t) PROVE Binding'
    BY <1>18 DEF CaptureEnds
  <1>19. ASSUME NEW t \in Turn, HalfAnHour(t) PROVE Binding'
    BY <1>19 DEF HalfAnHour, RunAges
  <1>20. ASSUME NEW m \in Msgs, Receive(m) PROVE Binding'
    BY <1>20 DEF Receive
  <1>21. ASSUME NEW m \in Msgs, DeliverUnready(m) PROVE Binding'
    BY <1>21 DEF DeliverUnready
  <1>22. ASSUME NEW m \in Msgs, LoseLease(m) PROVE Binding'
    BY <1>22 DEF LoseLease
  <1>23. ASSUME NEW m \in Msgs, ForgetJob(m) PROVE Binding'
    BY <1>23 DEF ForgetJob
  <1>24. ASSUME Ready PROVE Binding'
    BY <1>24 DEF Ready
  <1>25. ASSUME Shutdown PROVE Binding'
    BY <1>25 DEF Shutdown
  <1>26. ASSUME Exit PROVE Binding'
    BY <1>26 DEF Exit
  <1>27. ASSUME Crash PROVE Binding'
    BY <1>27 DEF Crash
  <1>28. ASSUME Sweep PROVE Binding'
    BY <1>28 DEF Sweep, SweepStaleRuns
  <1>29. CASE UNCHANGED vars BY <1>29 DEF vars, turnVars
  <1>30. ASSUME NEW t \in Turn, Step(t) PROVE Binding'
    BY <1>30, <1>1, <1>2, <1>3, <1>4, <1>5, <1>6, <1>7, <1>8, <1>9, <1>10, <1>11, <1>12, <1>13
    DEF Step
  <1>31. ASSUME NEW t \in Turn, BridgeReturns(t) PROVE Binding'
    BY <1>31 DEF BridgeReturns, RecordToolCall
  <1> QED BY <1>14, <1>15, <1>16, <1>17, <1>18, <1>19, <1>20, <1>21, <1>22, <1>23, <1>24, <1>25,
       <1>26, <1>27, <1>28, <1>29, <1>30, <1>31
    DEF Next

(* So it is in every behaviour.                                            *)
THEOREM AlwaysBinding == Spec => [](Joining /\ Binding)
  <1>1. Init => Joining /\ Binding BY TurnFacts DEF Init, RunInit, Joining, Binding
  <1>2. Stable /\ Joining /\ Binding /\ [Next]_vars => Joining' /\ Binding'
    BY NextJoining, NextBinding
  <1> QED BY <1>1, <1>2, AlwaysStable, PTL DEF Spec

(* Nothing else adds a call.                                               *)
LEMMA StepsAddNoCall ==
  ASSUME [Next]_vars PROVE credit' = credit \/ \E c \in Turn : BridgeReturns(c)
  <1> DEFINE Quiet == credit' = credit \/ \E c \in Turn : BridgeReturns(c)
  <1> USE DEF Throws, Ends, Goes, Elsewhere, Dies, UnbindRun, ForgetRuns, runVars
  <1>1. ASSUME NEW t \in Turn, Open(t) PROVE Quiet
    BY <1>1 DEF Open, StartRun
  <1>2. ASSUME NEW t \in Turn, Access(t) PROVE Quiet
    BY <1>2 DEF Access
  <1>3. ASSUME NEW t \in Turn, FindConversation(t) PROVE Quiet
    BY <1>3 DEF FindConversation, BindRun
  <1>4. ASSUME NEW t \in Turn, CreateConversation(t) PROVE Quiet
    BY <1>4 DEF CreateConversation, BindRun
  <1>5. ASSUME NEW t \in Turn, SaveUserMessage(t) PROVE Quiet
    BY <1>5 DEF SaveUserMessage
  <1>6. ASSUME NEW t \in Turn, SendPlaceholder(t) PROVE Quiet
    BY <1>6 DEF SendPlaceholder
  <1>7. ASSUME NEW t \in Turn, Chat(t) PROVE Quiet
    BY <1>7 DEF Chat
  <1>8. ASSUME NEW t \in Turn, Reply(t) PROVE Quiet
    BY <1>8 DEF Reply
  <1>9. ASSUME NEW t \in Turn, Bill(t) PROVE Quiet
    BY <1>9 DEF Bill
  <1>10. ASSUME NEW t \in Turn, Refuse(t) PROVE Quiet
    BY <1>10 DEF Refuse
  <1>11. ASSUME NEW t \in Turn, Apologise(t) PROVE Quiet
    BY <1>11 DEF Apologise
  <1>12. ASSUME NEW t \in Turn, Finish(t) PROVE Quiet
    BY <1>12 DEF Finish, FinishRun
  <1>13. ASSUME NEW t \in Turn, Settle(t) PROVE Quiet
    BY <1>13 DEF Settle
  <1>14. ASSUME NEW t \in Turn, Deliver(t) PROVE Quiet
    BY <1>14 DEF Deliver
  <1>15. ASSUME NEW t \in Turn, BridgeCall(t) PROVE Quiet
    BY <1>15 DEF BridgeCall
  <1>16. ASSUME NEW t \in Turn, Checkpoint(t) PROVE Quiet
    BY <1>16 DEF Checkpoint, SavePartial
  <1>17. ASSUME NEW t \in Turn, CheckpointLands(t) PROVE Quiet
    BY <1>17 DEF CheckpointLands, PartialLands
  <1>18. ASSUME NEW t \in Turn, CaptureEnds(t) PROVE Quiet
    BY <1>18 DEF CaptureEnds
  <1>19. ASSUME NEW t \in Turn, HalfAnHour(t) PROVE Quiet
    BY <1>19 DEF HalfAnHour, RunAges
  <1>20. ASSUME NEW m \in Msgs, Receive(m) PROVE Quiet
    BY <1>20 DEF Receive
  <1>21. ASSUME NEW m \in Msgs, DeliverUnready(m) PROVE Quiet
    BY <1>21 DEF DeliverUnready
  <1>22. ASSUME NEW m \in Msgs, LoseLease(m) PROVE Quiet
    BY <1>22 DEF LoseLease
  <1>23. ASSUME NEW m \in Msgs, ForgetJob(m) PROVE Quiet
    BY <1>23 DEF ForgetJob
  <1>24. ASSUME Ready PROVE Quiet
    BY <1>24 DEF Ready
  <1>25. ASSUME Shutdown PROVE Quiet
    BY <1>25 DEF Shutdown
  <1>26. ASSUME Exit PROVE Quiet
    BY <1>26 DEF Exit
  <1>27. ASSUME Crash PROVE Quiet
    BY <1>27 DEF Crash
  <1>28. ASSUME Sweep PROVE Quiet
    BY <1>28 DEF Sweep, SweepStaleRuns
  <1>29. CASE UNCHANGED vars BY <1>29 DEF vars, turnVars
  <1>30. ASSUME NEW t \in Turn, Step(t) PROVE Quiet
    BY <1>30, <1>1, <1>2, <1>3, <1>4, <1>5, <1>6, <1>7, <1>8, <1>9, <1>10, <1>11, <1>12, <1>13
    DEF Step
  <1>31. ASSUME NEW t \in Turn, BridgeReturns(t) PROVE Quiet
    BY <1>31
  <1> QED BY <1>14, <1>15, <1>16, <1>17, <1>18, <1>19, <1>20, <1>21, <1>22, <1>23, <1>24, <1>25,
       <1>26, <1>27, <1>28, <1>29, <1>30, <1>31
    DEF Next

(* A call is added when its tool has returned, to the run that is bound.   *)
LEMMA CallsAdded ==
  ASSUME Joining, Binding, [Next]_vars,
         NEW t \in Turn, NEW u \in Turn \cup {NoTurn}, <<t, u>> \in credit' \ credit
  PROVE  /\ u # NoTurn => Contact(u) = Contact(t) /\ outcome[u] = "open"
         /\ \/ u = t
            \/ outcome[t] # "open"
            \/ \E x \in joined \ {t} : Contact(x) = Contact(t)
  <1>1. PICK c \in Turn : BridgeReturns(c)
    <2>1. credit' # credit OBVIOUS
    <2> QED BY <2>1, StepsAddNoCall
  <1>2. t = c /\ u = bound[Contact(t)]
    BY <1>1, TurnFacts DEF BridgeReturns, RecordToolCall
  <1>3. Contact(t) \in Contacts /\ t \in joined
    BY <1>1, <1>2, TurnFacts DEF BridgeReturns, Joining
  <1> QED BY <1>2, <1>3 DEF Binding

(* A tool call stays in its conversation, however late it returns.         *)
THEOREM Threading == Spec => ToolCallsStayInTheThread
  <1> DEFINE Stays ==
        \A t \in Turn, u \in Turn \cup {NoTurn} :
          <<t, u>> \in credit' \ credit =>
            /\ u # NoTurn => Contact(u) = Contact(t) /\ outcome[u] = "open"
            /\ \/ u = t
               \/ outcome[t] # "open"
               \/ \E x \in joined \ {t} : Contact(x) = Contact(t)
  <1>1. Joining /\ Binding /\ [Next]_vars => [Stays]_vars BY CallsAdded
  <1>2. ToolCallsStayInTheThread <=> [][Stays]_vars BY DEF ToolCallsStayInTheThread
  <1> HIDE DEF Stays
  <1> QED BY <1>1, <1>2, AlwaysBinding, PTL DEF Spec

-----------------------------------------------------------------------------
(* The queue's lease.                                                      *)

(* As long as nothing failed, a turn in flight holds the lease of its      *)
(* message, and the process is not closing.                                *)
Leased ==
  /\ \A m \in Msgs : lease[m] # NoTurn => job[m] = "active"
  /\ faults = 0 => \A t \in InFlight : lease[Msg(t)] = t
  /\ faults = 0 => phase # "closing"

(* A turn begins with the lease and ends with it, unless something failed. *)
LEMMA NextLeased == ASSUME Stable, Leased, [Next]_vars PROVE Leased'
  <1> USE TurnFacts, TurnConstants
      DEF TurnConstants, Stable, Typed, TypeOK, QueueTypeOK, Places, Leased, InFlight,
          Fault, NoFault, Arrives, Bounces,
          Throws, Ends, Goes, Elsewhere, Dies, queueVars
  <1>1. ASSUME NEW t \in Turn, Open(t) PROVE Leased'
    BY <1>1 DEF Open, StartRun
  <1>2. ASSUME NEW t \in Turn, Access(t) PROVE Leased'
    BY <1>2 DEF Access
  <1>3. ASSUME NEW t \in Turn, FindConversation(t) PROVE Leased'
    BY <1>3 DEF FindConversation
  <1>4. ASSUME NEW t \in Turn, CreateConversation(t) PROVE Leased'
    BY <1>4 DEF CreateConversation
  <1>5. ASSUME NEW t \in Turn, SaveUserMessage(t) PROVE Leased'
    BY <1>5 DEF SaveUserMessage
  <1>6. ASSUME NEW t \in Turn, SendPlaceholder(t) PROVE Leased'
    BY <1>6 DEF SendPlaceholder
  <1>7. ASSUME NEW t \in Turn, Chat(t) PROVE Leased'
    BY <1>7 DEF Chat
  <1>8. ASSUME NEW t \in Turn, Reply(t) PROVE Leased'
    BY <1>8 DEF Reply
  <1>9. ASSUME NEW t \in Turn, Bill(t) PROVE Leased'
    BY <1>9 DEF Bill
  <1>10. ASSUME NEW t \in Turn, Refuse(t) PROVE Leased'
    BY <1>10 DEF Refuse
  <1>11. ASSUME NEW t \in Turn, Apologise(t) PROVE Leased'
    BY <1>11 DEF Apologise
  <1>12. ASSUME NEW t \in Turn, Finish(t) PROVE Leased'
    BY <1>12 DEF Finish
  <1>13. ASSUME NEW t \in Turn, Settle(t) PROVE Leased'
    BY <1>13 DEF Settle, Complete
  <1>14. ASSUME NEW t \in Turn, Deliver(t) PROVE Leased'
    BY <1>14 DEF Deliver, Take
  <1>15. ASSUME NEW t \in Turn, BridgeCall(t) PROVE Leased'
    BY <1>15 DEF BridgeCall
  <1>16. ASSUME NEW t \in Turn, Checkpoint(t) PROVE Leased'
    BY <1>16 DEF Checkpoint
  <1>17. ASSUME NEW t \in Turn, CheckpointLands(t) PROVE Leased'
    BY <1>17 DEF CheckpointLands, PartialLands
  <1>18. ASSUME NEW t \in Turn, CaptureEnds(t) PROVE Leased'
    BY <1>18 DEF CaptureEnds
  <1>19. ASSUME NEW t \in Turn, HalfAnHour(t) PROVE Leased'
    BY <1>19 DEF HalfAnHour
  <1>20. ASSUME NEW m \in Msgs, Receive(m) PROVE Leased'
    BY <1>20 DEF Receive, Enqueue
  <1>21. ASSUME NEW m \in Msgs, DeliverUnready(m) PROVE Leased'
    BY <1>21 DEF DeliverUnready, Throw
  <1>22. ASSUME NEW m \in Msgs, LoseLease(m) PROVE Leased'
    BY <1>22 DEF LoseLease, Stall
  <1>23. ASSUME NEW m \in Msgs, ForgetJob(m) PROVE Leased'
    BY <1>23 DEF ForgetJob, Forget
  <1>24. ASSUME Ready PROVE Leased'
    BY <1>24 DEF Ready
  <1>25. ASSUME Shutdown PROVE Leased'
    BY <1>25 DEF Shutdown
  <1>26. ASSUME Exit PROVE Leased'
    BY <1>26 DEF Exit
  <1>27. ASSUME Crash PROVE Leased'
    BY <1>27 DEF Crash
  <1>28. ASSUME Sweep PROVE Leased'
    BY <1>28 DEF Sweep
  <1>29. CASE UNCHANGED vars BY <1>29 DEF vars, turnVars
  <1>30. ASSUME NEW t \in Turn, Step(t) PROVE Leased'
    BY <1>30, <1>1, <1>2, <1>3, <1>4, <1>5, <1>6, <1>7, <1>8, <1>9, <1>10, <1>11, <1>12, <1>13
    DEF Step
  <1>31. ASSUME NEW t \in Turn, BridgeReturns(t) PROVE Leased'
    BY <1>31 DEF BridgeReturns
  <1> QED BY <1>14, <1>15, <1>16, <1>17, <1>18, <1>19, <1>20, <1>21, <1>22, <1>23, <1>24, <1>25,
       <1>26, <1>27, <1>28, <1>29, <1>30, <1>31
    DEF Next

(* So it is in every behaviour.                                            *)
THEOREM AlwaysLeased == Spec => []Leased
  <1>1. Init => Leased BY DEF Init, QueueInit, Leased, InFlight
  <1>2. Stable /\ Leased /\ [Next]_vars => Leased' BY NextLeased
  <1> QED BY <1>1, <1>2, AlwaysStable, PTL DEF Spec

(* One turn of a message at a time, for any number of webhook calls.       *)
THEOREM Twinless == Spec => []NoTwins
  <1>1. Leased => NoTwins
    <2> SUFFICES ASSUME Leased, faults = 0, NEW t \in InFlight, NEW u \in InFlight,
                        Msg(t) = Msg(u)
                 PROVE  t = u
      BY DEF NoTwins
    <2> QED BY DEF Leased
  <1> QED BY <1>1, AlwaysLeased, PTL

-----------------------------------------------------------------------------
(* The turns that fail.                                                    *)

Rival(t) == \E u \in joined \ {t} : Contact(u) = Contact(t)

(* As long as nothing failed, a turn throws only where it lost the race    *)
(* for its conversation, and it is told.                                   *)
Racing ==
  /\ conv \subseteq {Contact(u) : u \in joined}
  /\ faults = 0 => \A t \in Turn :
       /\ pc[t] = "apologise" => t \notin joined /\ Rival(t) /\ said[t] = {}
       /\ outcome[t] = "failed" => t \notin joined /\ Rival(t) /\ said[t] = {"error"}

(* Each step keeps it.                                                     *)
LEMMA NextRacing == ASSUME Stable, Joining, Leased, Racing, [Next]_vars PROVE Racing'
  <1> USE TurnFacts, TurnConstants
      DEF TurnConstants, Stable, Typed, TypeOK, RunTypeOK, Places, Racing, Rival, Joining,
          Staged, Silent, Leased, InFlight, Fault, NoFault, Arrives, Bounces,
          Throws, Ends, Goes, Elsewhere, Dies, UnbindRun, ForgetRuns, runVars
  <1>1. ASSUME NEW t \in Turn, Open(t) PROVE Racing'
    BY <1>1 DEF Open, StartRun
  <1>2. ASSUME NEW t \in Turn, Access(t) PROVE Racing'
    BY <1>2 DEF Access
  <1>3. ASSUME NEW t \in Turn, FindConversation(t) PROVE Racing'
    BY <1>3 DEF FindConversation, BindRun
  <1>4. ASSUME NEW t \in Turn, CreateConversation(t) PROVE Racing'
    BY <1>4 DEF CreateConversation, BindRun
  <1>5. ASSUME NEW t \in Turn, SaveUserMessage(t) PROVE Racing'
    BY <1>5 DEF SaveUserMessage
  <1>6. ASSUME NEW t \in Turn, SendPlaceholder(t) PROVE Racing'
    BY <1>6 DEF SendPlaceholder
  <1>7. ASSUME NEW t \in Turn, Chat(t) PROVE Racing'
    BY <1>7 DEF Chat
  <1>8. ASSUME NEW t \in Turn, Reply(t) PROVE Racing'
    BY <1>8 DEF Reply
  <1>9. ASSUME NEW t \in Turn, Bill(t) PROVE Racing'
    BY <1>9 DEF Bill
  <1>10. ASSUME NEW t \in Turn, Refuse(t) PROVE Racing'
    BY <1>10 DEF Refuse
  <1>11. ASSUME NEW t \in Turn, Apologise(t) PROVE Racing'
    BY <1>11 DEF Apologise
  <1>12. ASSUME NEW t \in Turn, Finish(t) PROVE Racing'
    BY <1>12 DEF Finish, FinishRun
  <1>13. ASSUME NEW t \in Turn, Settle(t) PROVE Racing'
    BY <1>13 DEF Settle
  <1>14. ASSUME NEW t \in Turn, Deliver(t) PROVE Racing'
    BY <1>14 DEF Deliver
  <1>15. ASSUME NEW t \in Turn, BridgeCall(t) PROVE Racing'
    BY <1>15 DEF BridgeCall
  <1>16. ASSUME NEW t \in Turn, Checkpoint(t) PROVE Racing'
    BY <1>16 DEF Checkpoint, SavePartial
  <1>17. ASSUME NEW t \in Turn, CheckpointLands(t) PROVE Racing'
    BY <1>17 DEF CheckpointLands, PartialLands
  <1>18. ASSUME NEW t \in Turn, CaptureEnds(t) PROVE Racing'
    BY <1>18 DEF CaptureEnds
  <1>19. ASSUME NEW t \in Turn, HalfAnHour(t) PROVE Racing'
    BY <1>19 DEF HalfAnHour, RunAges
  <1>20. ASSUME NEW m \in Msgs, Receive(m) PROVE Racing'
    BY <1>20 DEF Receive
  <1>21. ASSUME NEW m \in Msgs, DeliverUnready(m) PROVE Racing'
    BY <1>21 DEF DeliverUnready
  <1>22. ASSUME NEW m \in Msgs, LoseLease(m) PROVE Racing'
    BY <1>22 DEF LoseLease
  <1>23. ASSUME NEW m \in Msgs, ForgetJob(m) PROVE Racing'
    BY <1>23 DEF ForgetJob
  <1>24. ASSUME Ready PROVE Racing'
    BY <1>24 DEF Ready
  <1>25. ASSUME Shutdown PROVE Racing'
    BY <1>25 DEF Shutdown
  <1>26. ASSUME Exit PROVE Racing'
    BY <1>26 DEF Exit
  <1>27. ASSUME Crash PROVE Racing'
    BY <1>27 DEF Crash
  <1>28. ASSUME Sweep PROVE Racing'
    BY <1>28 DEF Sweep, SweepStaleRuns
  <1>29. CASE UNCHANGED vars BY <1>29 DEF vars, turnVars
  <1>30. ASSUME NEW t \in Turn, Step(t) PROVE Racing'
    BY <1>30, <1>1, <1>2, <1>3, <1>4, <1>5, <1>6, <1>7, <1>8, <1>9, <1>10, <1>11, <1>12, <1>13
    DEF Step
  <1>31. ASSUME NEW t \in Turn, BridgeReturns(t) PROVE Racing'
    BY <1>31 DEF BridgeReturns, RecordToolCall
  <1> QED BY <1>14, <1>15, <1>16, <1>17, <1>18, <1>19, <1>20, <1>21, <1>22, <1>23, <1>24, <1>25,
       <1>26, <1>27, <1>28, <1>29, <1>30, <1>31
    DEF Next

(* Unless something failed, only the losers of a race do.                  *)
THEOREM Failing == Spec => []OnlyRacersFail
  <1>1. Init => Racing BY DEF Init, Racing
  <1>2. Stable /\ Joining /\ Leased /\ Racing /\ [Next]_vars => Racing' BY NextRacing
  <1>3. Racing => OnlyRacersFail BY DEF Racing, Rival, OnlyRacersFail
  <1>4. Joining /\ Binding => Joining OBVIOUS
  <1> QED BY <1>1, <1>2, <1>3, <1>4, AlwaysStable, AlwaysBinding, AlwaysLeased, PTL DEF Spec

-----------------------------------------------------------------------------
(* The rows.                                                               *)

(* A row is open until its turn has finished it, but for the sweep of an   *)
(* old one.                                                                *)
Recorded == \A t \in Turn :
  /\ pc[t] \in {"none", "open"} => row[t] = "none"
  /\ row[t] = "completed" => /\ pc[t] \in {"settle", "over"}
                             /\ outcome[t] \in {"answered", "refused", "dropped"}
  /\ row[t] = "failed" /\ outcome[t] # "failed" => t \in old
  /\ row[t] \in {"running", "failed"} /\ pc[t] \in {"settle", "over"} /\ faults = 0
       => outcome[t] = "failed" /\ row[t] = "failed"

(* Each step keeps it.                                                     *)
LEMMA NextRecorded == ASSUME Stable, Leased, Recorded, [Next]_vars PROVE Recorded'
  <1> USE TurnFacts, TurnConstants
      DEF TurnConstants, Stable, Typed, TypeOK, RunTypeOK, Places, Recorded, Leased,
          Staged, Silent, InFlight, Fault, NoFault, Arrives, Bounces,
          Throws, Ends, Goes, Elsewhere, Dies, UnbindRun, ForgetRuns, runVars
  <1>1. ASSUME NEW t \in Turn, Open(t) PROVE Recorded'
    BY <1>1 DEF Open, StartRun
  <1>2. ASSUME NEW t \in Turn, Access(t) PROVE Recorded'
    BY <1>2 DEF Access
  <1>3. ASSUME NEW t \in Turn, FindConversation(t) PROVE Recorded'
    BY <1>3 DEF FindConversation, BindRun
  <1>4. ASSUME NEW t \in Turn, CreateConversation(t) PROVE Recorded'
    BY <1>4 DEF CreateConversation, BindRun
  <1>5. ASSUME NEW t \in Turn, SaveUserMessage(t) PROVE Recorded'
    BY <1>5 DEF SaveUserMessage
  <1>6. ASSUME NEW t \in Turn, SendPlaceholder(t) PROVE Recorded'
    BY <1>6 DEF SendPlaceholder
  <1>7. ASSUME NEW t \in Turn, Chat(t) PROVE Recorded'
    BY <1>7 DEF Chat
  <1>8. ASSUME NEW t \in Turn, Reply(t) PROVE Recorded'
    BY <1>8 DEF Reply
  <1>9. ASSUME NEW t \in Turn, Bill(t) PROVE Recorded'
    BY <1>9 DEF Bill
  <1>10. ASSUME NEW t \in Turn, Refuse(t) PROVE Recorded'
    BY <1>10 DEF Refuse
  <1>11. ASSUME NEW t \in Turn, Apologise(t) PROVE Recorded'
    BY <1>11 DEF Apologise
  <1>12. ASSUME NEW t \in Turn, Finish(t) PROVE Recorded'
    BY <1>12 DEF Finish, FinishRun
  <1>13. ASSUME NEW t \in Turn, Settle(t) PROVE Recorded'
    BY <1>13 DEF Settle
  <1>14. ASSUME NEW t \in Turn, Deliver(t) PROVE Recorded'
    <2>1. pc[t] = "none"
      BY <1>14 DEF Deliver, Take, Numbered, QueueTypeOK
    <2> QED BY <1>14, <2>1 DEF Deliver
  <1>15. ASSUME NEW t \in Turn, BridgeCall(t) PROVE Recorded'
    BY <1>15 DEF BridgeCall
  <1>16. ASSUME NEW t \in Turn, Checkpoint(t) PROVE Recorded'
    BY <1>16 DEF Checkpoint, SavePartial
  <1>17. ASSUME NEW t \in Turn, CheckpointLands(t) PROVE Recorded'
    BY <1>17 DEF CheckpointLands, PartialLands
  <1>18. ASSUME NEW t \in Turn, CaptureEnds(t) PROVE Recorded'
    BY <1>18 DEF CaptureEnds
  <1>19. ASSUME NEW t \in Turn, HalfAnHour(t) PROVE Recorded'
    BY <1>19 DEF HalfAnHour, RunAges
  <1>20. ASSUME NEW m \in Msgs, Receive(m) PROVE Recorded'
    BY <1>20 DEF Receive
  <1>21. ASSUME NEW m \in Msgs, DeliverUnready(m) PROVE Recorded'
    BY <1>21 DEF DeliverUnready
  <1>22. ASSUME NEW m \in Msgs, LoseLease(m) PROVE Recorded'
    BY <1>22 DEF LoseLease
  <1>23. ASSUME NEW m \in Msgs, ForgetJob(m) PROVE Recorded'
    BY <1>23 DEF ForgetJob
  <1>24. ASSUME Ready PROVE Recorded'
    BY <1>24 DEF Ready
  <1>25. ASSUME Shutdown PROVE Recorded'
    BY <1>25 DEF Shutdown
  <1>26. ASSUME Exit PROVE Recorded'
    BY <1>26 DEF Exit
  <1>27. ASSUME Crash PROVE Recorded'
    BY <1>27 DEF Crash
  <1>28. ASSUME Sweep PROVE Recorded'
    BY <1>28 DEF Sweep, SweepStaleRuns
  <1>29. CASE UNCHANGED vars BY <1>29 DEF vars, turnVars
  <1>30. ASSUME NEW t \in Turn, Step(t) PROVE Recorded'
    BY <1>30, <1>1, <1>2, <1>3, <1>4, <1>5, <1>6, <1>7, <1>8, <1>9, <1>10, <1>11, <1>12, <1>13
    DEF Step
  <1>31. ASSUME NEW t \in Turn, BridgeReturns(t) PROVE Recorded'
    BY <1>31 DEF BridgeReturns, RecordToolCall
  <1> QED BY <1>14, <1>15, <1>16, <1>17, <1>18, <1>19, <1>20, <1>21, <1>22, <1>23, <1>24, <1>25,
       <1>26, <1>27, <1>28, <1>29, <1>30, <1>31
    DEF Next

(* The rows tell the truth about their turns.                              *)
THEOREM Recording == Spec => []RowsTellTheTruth
  <1>1. Init => Recorded BY DEF Init, RunInit, Recorded
  <1>2. Stable /\ Leased /\ Recorded /\ [Next]_vars => Recorded' BY NextRecorded
  <1>3. Recorded => RowsTellTheTruth BY DEF Recorded, RowsTellTheTruth
  <1> QED BY <1>1, <1>2, <1>3, AlwaysStable, AlwaysLeased, PTL DEF Spec

-----------------------------------------------------------------------------
(* The balance.                                                            *)

(* Turns that were let through and may still be charged.                   *)
Owing == {t \in Turn :
            pc[t] \in {"find", "create", "user", "placeholder", "chat", "reply", "bill"}}

(* The high-water mark counts every turn in flight.                        *)
Crowd == Cardinality(InFlight) <= crowd

(* The check of a turn is behind it once it was waved through; a turn has  *)
(* one capture, after its reply, and it is charged at its end.             *)
Metering == \A t \in Turn :
  /\ pc[t] \in {"none", "open", "access"} => t \notin waved
  /\ pc[t] \in Silent => capture[t] = "none"
  /\ t \in captured => capture[t] = "over"

(* What is left of the balance covers what is owing, but for as many turns *)
(* as were ever in flight together: so many can have read one balance.     *)
Covered == Metered =>
  balance + Cardinality(captured) + Cardinality(waved) >= 1 - crowd + Cardinality(Owing)

(* One more turn is one more, or none.                                     *)
LEMMA OneMore ==
  ASSUME NEW S, S \subseteq Turn, NEW t \in Turn
  PROVE  /\ t \notin S => Cardinality(S \cup {t}) = Cardinality(S) + 1
         /\ t \in S => Cardinality(S \ {t}) = Cardinality(S) - 1
         /\ Cardinality(S \cup {t}) <= Cardinality(S) + 1
  <1>1. IsFiniteSet(S) /\ Cardinality(S) \in Nat BY Finite
  <1>2. Cardinality(S \cup {t}) = IF t \in S THEN Cardinality(S) ELSE Cardinality(S) + 1
    BY <1>1, FS_AddElement
  <1>3. Cardinality(S \ {t}) = IF t \in S THEN Cardinality(S) - 1 ELSE Cardinality(S)
    BY <1>1, FS_RemoveElement
  <1> QED BY <1>1, <1>2, <1>3

(* A delivery puts a turn in flight, and moves the mark.                   *)
CrowdGrows == crowd' = IF Cardinality(InFlight) < crowd THEN crowd ELSE Cardinality(InFlight) + 1

(* Nothing else does.                                                      *)
LEMMA InFlightMoves ==
  ASSUME Typed, [Next]_vars
  PROVE  \/ InFlight' \subseteq InFlight /\ crowd' = crowd
         \/ CrowdGrows /\ \E t \in Turn : InFlight' = InFlight \cup {t}
  <1> DEFINE Moves == \/ InFlight' \subseteq InFlight /\ crowd' = crowd
                      \/ CrowdGrows /\ \E t \in Turn : InFlight' = InFlight \cup {t}
  <1> USE DEF Typed, TypeOK, Places, InFlight, Throws, Ends, Goes, Elsewhere, Dies
  <1>1. ASSUME NEW t \in Turn, Open(t) PROVE Moves
    BY <1>1 DEF Open
  <1>2. ASSUME NEW t \in Turn, Access(t) PROVE Moves
    BY <1>2 DEF Access
  <1>3. ASSUME NEW t \in Turn, FindConversation(t) PROVE Moves
    BY <1>3 DEF FindConversation
  <1>4. ASSUME NEW t \in Turn, CreateConversation(t) PROVE Moves
    BY <1>4 DEF CreateConversation
  <1>5. ASSUME NEW t \in Turn, SaveUserMessage(t) PROVE Moves
    BY <1>5 DEF SaveUserMessage
  <1>6. ASSUME NEW t \in Turn, SendPlaceholder(t) PROVE Moves
    BY <1>6 DEF SendPlaceholder
  <1>7. ASSUME NEW t \in Turn, Chat(t) PROVE Moves
    BY <1>7 DEF Chat
  <1>8. ASSUME NEW t \in Turn, Reply(t) PROVE Moves
    BY <1>8 DEF Reply
  <1>9. ASSUME NEW t \in Turn, Bill(t) PROVE Moves
    BY <1>9 DEF Bill
  <1>10. ASSUME NEW t \in Turn, Refuse(t) PROVE Moves
    BY <1>10 DEF Refuse
  <1>11. ASSUME NEW t \in Turn, Apologise(t) PROVE Moves
    BY <1>11 DEF Apologise
  <1>12. ASSUME NEW t \in Turn, Finish(t) PROVE Moves
    BY <1>12 DEF Finish
  <1>13. ASSUME NEW t \in Turn, Settle(t) PROVE Moves
    BY <1>13 DEF Settle
  <1>14. ASSUME NEW t \in Turn, Deliver(t) PROVE Moves
    <2>1. InFlight' = InFlight \cup {t} BY <1>14 DEF Deliver
    <2>2. CrowdGrows BY <1>14 DEF Deliver, CrowdGrows
    <2> QED BY <2>1, <2>2
  <1>15. ASSUME NEW t \in Turn, BridgeCall(t) PROVE Moves
    BY <1>15 DEF BridgeCall
  <1>16. ASSUME NEW t \in Turn, Checkpoint(t) PROVE Moves
    BY <1>16 DEF Checkpoint
  <1>17. ASSUME NEW t \in Turn, CheckpointLands(t) PROVE Moves
    BY <1>17 DEF CheckpointLands
  <1>18. ASSUME NEW t \in Turn, CaptureEnds(t) PROVE Moves
    BY <1>18 DEF CaptureEnds
  <1>19. ASSUME NEW t \in Turn, HalfAnHour(t) PROVE Moves
    BY <1>19 DEF HalfAnHour
  <1>20. ASSUME NEW m \in Msgs, Receive(m) PROVE Moves
    BY <1>20 DEF Receive
  <1>21. ASSUME NEW m \in Msgs, DeliverUnready(m) PROVE Moves
    BY <1>21 DEF DeliverUnready
  <1>22. ASSUME NEW m \in Msgs, LoseLease(m) PROVE Moves
    BY <1>22 DEF LoseLease
  <1>23. ASSUME NEW m \in Msgs, ForgetJob(m) PROVE Moves
    BY <1>23 DEF ForgetJob
  <1>24. ASSUME Ready PROVE Moves
    BY <1>24 DEF Ready
  <1>25. ASSUME Shutdown PROVE Moves
    BY <1>25 DEF Shutdown
  <1>26. ASSUME Exit PROVE Moves
    BY <1>26 DEF Exit
  <1>27. ASSUME Crash PROVE Moves
    BY <1>27 DEF Crash
  <1>28. ASSUME Sweep PROVE Moves
    BY <1>28 DEF Sweep
  <1>29. CASE UNCHANGED vars BY <1>29 DEF vars, turnVars
  <1>30. ASSUME NEW t \in Turn, Step(t) PROVE Moves
    BY <1>30, <1>1, <1>2, <1>3, <1>4, <1>5, <1>6, <1>7, <1>8, <1>9, <1>10, <1>11, <1>12, <1>13
    DEF Step
  <1>31. ASSUME NEW t \in Turn, BridgeReturns(t) PROVE Moves
    BY <1>31 DEF BridgeReturns
  <1> QED BY <1>14, <1>15, <1>16, <1>17, <1>18, <1>19, <1>20, <1>21, <1>22, <1>23, <1>24, <1>25,
       <1>26, <1>27, <1>28, <1>29, <1>30, <1>31
    DEF Next

(* The mark never falls behind the turns in flight.                        *)
LEMMA NextCrowd ==
  ASSUME Typed, Crowd, [Next]_vars
  PROVE  Crowd' /\ crowd <= crowd' /\ crowd \in Nat /\ crowd' \in Nat
  <1>0. \/ InFlight' \subseteq InFlight /\ crowd' = crowd
        \/ CrowdGrows /\ \E t \in Turn : InFlight' = InFlight \cup {t}
    BY InFlightMoves
  <1>1. InFlight \subseteq Turn /\ InFlight' \subseteq Turn BY DEF InFlight
  <1>2. Cardinality(InFlight) \in Nat /\ Cardinality(InFlight') \in Nat /\ crowd \in Nat
    BY <1>1, Finite, TurnConstants DEF TurnConstants, Typed, TypeOK
  <1>3. CASE InFlight' \subseteq InFlight /\ crowd' = crowd
    <2>1. Cardinality(InFlight') <= Cardinality(InFlight)
      BY <1>1, <1>3, Finite, FS_Subset
    <2> QED BY <1>2, <1>3, <2>1 DEF Crowd
  <1>4. ASSUME CrowdGrows, NEW t \in Turn, InFlight' = InFlight \cup {t}
        PROVE  Crowd' /\ crowd <= crowd' /\ crowd' \in Nat
    <2>1. Cardinality(InFlight') <= Cardinality(InFlight) + 1
      BY <1>1, <1>4, OneMore
    <2> QED BY <1>2, <1>4, <2>1 DEF Crowd, CrowdGrows
  <1> QED BY <1>0, <1>2, <1>3, <1>4

(* Each step keeps the bookkeeping of the checks and the captures.         *)
LEMMA NextMetering == ASSUME Stable, Metering, [Next]_vars PROVE Metering'
  <1> USE TurnFacts
      DEF Stable, Typed, TypeOK, BillTypeOK, Places, Metering, Silent, InFlight,
          Throws, Ends, Goes, Elsewhere, Dies, billVars
  <1>1. ASSUME NEW t \in Turn, Open(t) PROVE Metering'
    BY <1>1 DEF Open, StartRun
  <1>2. ASSUME NEW t \in Turn, Access(t) PROVE Metering'
    BY <1>2 DEF Access, WaveThrough
  <1>3. ASSUME NEW t \in Turn, FindConversation(t) PROVE Metering'
    BY <1>3 DEF FindConversation
  <1>4. ASSUME NEW t \in Turn, CreateConversation(t) PROVE Metering'
    BY <1>4 DEF CreateConversation
  <1>5. ASSUME NEW t \in Turn, SaveUserMessage(t) PROVE Metering'
    BY <1>5 DEF SaveUserMessage
  <1>6. ASSUME NEW t \in Turn, SendPlaceholder(t) PROVE Metering'
    BY <1>6 DEF SendPlaceholder
  <1>7. ASSUME NEW t \in Turn, Chat(t) PROVE Metering'
    BY <1>7 DEF Chat
  <1>8. ASSUME NEW t \in Turn, Reply(t) PROVE Metering'
    BY <1>8 DEF Reply
  <1>9. ASSUME NEW t \in Turn, Bill(t) PROVE Metering'
    BY <1>9 DEF Bill, Charge
  <1>10. ASSUME NEW t \in Turn, Refuse(t) PROVE Metering'
    BY <1>10 DEF Refuse
  <1>11. ASSUME NEW t \in Turn, Apologise(t) PROVE Metering'
    BY <1>11 DEF Apologise
  <1>12. ASSUME NEW t \in Turn, Finish(t) PROVE Metering'
    BY <1>12 DEF Finish
  <1>13. ASSUME NEW t \in Turn, Settle(t) PROVE Metering'
    BY <1>13 DEF Settle
  <1>14. ASSUME NEW t \in Turn, Deliver(t) PROVE Metering'
    <2>1. pc[t] = "none"
      BY <1>14 DEF Deliver, Take, Numbered, QueueTypeOK
    <2> QED BY <1>14, <2>1 DEF Deliver
  <1>15. ASSUME NEW t \in Turn, BridgeCall(t) PROVE Metering'
    BY <1>15 DEF BridgeCall
  <1>16. ASSUME NEW t \in Turn, Checkpoint(t) PROVE Metering'
    BY <1>16 DEF Checkpoint
  <1>17. ASSUME NEW t \in Turn, CheckpointLands(t) PROVE Metering'
    BY <1>17 DEF CheckpointLands, PartialLands
  <1>18. ASSUME NEW t \in Turn, CaptureEnds(t) PROVE Metering'
    BY <1>18 DEF CaptureEnds, ChargeCapture
  <1>19. ASSUME NEW t \in Turn, HalfAnHour(t) PROVE Metering'
    BY <1>19 DEF HalfAnHour
  <1>20. ASSUME NEW m \in Msgs, Receive(m) PROVE Metering'
    BY <1>20 DEF Receive
  <1>21. ASSUME NEW m \in Msgs, DeliverUnready(m) PROVE Metering'
    BY <1>21 DEF DeliverUnready
  <1>22. ASSUME NEW m \in Msgs, LoseLease(m) PROVE Metering'
    BY <1>22 DEF LoseLease
  <1>23. ASSUME NEW m \in Msgs, ForgetJob(m) PROVE Metering'
    BY <1>23 DEF ForgetJob
  <1>24. ASSUME Ready PROVE Metering'
    BY <1>24 DEF Ready
  <1>25. ASSUME Shutdown PROVE Metering'
    BY <1>25 DEF Shutdown
  <1>26. ASSUME Exit PROVE Metering'
    BY <1>26 DEF Exit
  <1>27. ASSUME Crash PROVE Metering'
    BY <1>27 DEF Crash
  <1>28. ASSUME Sweep PROVE Metering'
    BY <1>28 DEF Sweep
  <1>29. CASE UNCHANGED vars BY <1>29 DEF vars, turnVars
  <1>30. ASSUME NEW t \in Turn, Step(t) PROVE Metering'
    BY <1>30, <1>1, <1>2, <1>3, <1>4, <1>5, <1>6, <1>7, <1>8, <1>9, <1>10, <1>11, <1>12, <1>13
    DEF Step
  <1>31. ASSUME NEW t \in Turn, BridgeReturns(t) PROVE Metering'
    BY <1>31 DEF BridgeReturns
  <1> QED BY <1>14, <1>15, <1>16, <1>17, <1>18, <1>19, <1>20, <1>21, <1>22, <1>23, <1>24, <1>25,
       <1>26, <1>27, <1>28, <1>29, <1>30, <1>31
    DEF Next

(* What a step does to what is owing.                                      *)
OwingStep ==
  \/ Owing' \subseteq Owing /\ UNCHANGED billVars
  \/ \E t \in Turn :
       \/ Owing' = Owing \cup {t} /\ HasCredit /\ UNCHANGED billVars
       \/ Owing' = Owing \cup {t} /\ t \notin waved /\ WaveThrough(t)
       \/ Owing' = Owing \ {t} /\ t \in Owing /\ Charge(t)
       \/ Owing' \subseteq Owing /\ t \notin captured /\ ChargeCapture(t)

(* Every step is one of these.                                             *)
LEMMA StepsOfOwing == ASSUME Typed, Metering, [Next]_vars PROVE OwingStep
  <1> USE DEF OwingStep, Typed, TypeOK, BillTypeOK, Places, Metering, Silent, InFlight, Owing,
              Throws, Ends, Goes, Elsewhere, Dies
  <1>1. ASSUME NEW t \in Turn, Open(t) PROVE OwingStep
    BY <1>1 DEF Open, StartRun
  <1>2. ASSUME NEW t \in Turn, Access(t) PROVE OwingStep
    BY <1>2 DEF Access
  <1>3. ASSUME NEW t \in Turn, FindConversation(t) PROVE OwingStep
    BY <1>3 DEF FindConversation
  <1>4. ASSUME NEW t \in Turn, CreateConversation(t) PROVE OwingStep
    BY <1>4 DEF CreateConversation
  <1>5. ASSUME NEW t \in Turn, SaveUserMessage(t) PROVE OwingStep
    BY <1>5 DEF SaveUserMessage
  <1>6. ASSUME NEW t \in Turn, SendPlaceholder(t) PROVE OwingStep
    BY <1>6 DEF SendPlaceholder
  <1>7. ASSUME NEW t \in Turn, Chat(t) PROVE OwingStep
    BY <1>7 DEF Chat
  <1>8. ASSUME NEW t \in Turn, Reply(t) PROVE OwingStep
    BY <1>8 DEF Reply
  <1>9. ASSUME NEW t \in Turn, Bill(t) PROVE OwingStep
    BY <1>9 DEF Bill
  <1>10. ASSUME NEW t \in Turn, Refuse(t) PROVE OwingStep
    BY <1>10 DEF Refuse
  <1>11. ASSUME NEW t \in Turn, Apologise(t) PROVE OwingStep
    BY <1>11 DEF Apologise
  <1>12. ASSUME NEW t \in Turn, Finish(t) PROVE OwingStep
    BY <1>12 DEF Finish
  <1>13. ASSUME NEW t \in Turn, Settle(t) PROVE OwingStep
    BY <1>13 DEF Settle
  <1>14. ASSUME NEW t \in Turn, Deliver(t) PROVE OwingStep
    BY <1>14 DEF Deliver
  <1>15. ASSUME NEW t \in Turn, BridgeCall(t) PROVE OwingStep
    BY <1>15 DEF BridgeCall
  <1>16. ASSUME NEW t \in Turn, Checkpoint(t) PROVE OwingStep
    BY <1>16 DEF Checkpoint
  <1>17. ASSUME NEW t \in Turn, CheckpointLands(t) PROVE OwingStep
    BY <1>17 DEF CheckpointLands, PartialLands
  <1>18. ASSUME NEW t \in Turn, CaptureEnds(t) PROVE OwingStep
    BY <1>18 DEF CaptureEnds
  <1>19. ASSUME NEW t \in Turn, HalfAnHour(t) PROVE OwingStep
    BY <1>19 DEF HalfAnHour
  <1>20. ASSUME NEW m \in Msgs, Receive(m) PROVE OwingStep
    BY <1>20 DEF Receive
  <1>21. ASSUME NEW m \in Msgs, DeliverUnready(m) PROVE OwingStep
    BY <1>21 DEF DeliverUnready
  <1>22. ASSUME NEW m \in Msgs, LoseLease(m) PROVE OwingStep
    BY <1>22 DEF LoseLease
  <1>23. ASSUME NEW m \in Msgs, ForgetJob(m) PROVE OwingStep
    BY <1>23 DEF ForgetJob
  <1>24. ASSUME Ready PROVE OwingStep
    BY <1>24 DEF Ready
  <1>25. ASSUME Shutdown PROVE OwingStep
    BY <1>25 DEF Shutdown
  <1>26. ASSUME Exit PROVE OwingStep
    BY <1>26 DEF Exit
  <1>27. ASSUME Crash PROVE OwingStep
    BY <1>27 DEF Crash
  <1>28. ASSUME Sweep PROVE OwingStep
    BY <1>28 DEF Sweep
  <1>29. CASE UNCHANGED vars BY <1>29 DEF vars, turnVars
  <1>30. ASSUME NEW t \in Turn, Step(t) PROVE OwingStep
    BY <1>30, <1>1, <1>2, <1>3, <1>4, <1>5, <1>6, <1>7, <1>8, <1>9, <1>10, <1>11, <1>12, <1>13
    DEF Step
  <1>31. ASSUME NEW t \in Turn, BridgeReturns(t) PROVE OwingStep
    BY <1>31 DEF BridgeReturns
  <1> QED BY <1>14, <1>15, <1>16, <1>17, <1>18, <1>19, <1>20, <1>21, <1>22, <1>23, <1>24, <1>25,
       <1>26, <1>27, <1>28, <1>29, <1>30, <1>31
    DEF Next

(* The turns that are let through by the check are in flight together;     *)
(* each charge takes one from both sides.                                  *)
LEMMA NextCovered == ASSUME Typed, Crowd, Metering, Covered, [Next]_vars PROVE Covered'
  <1> SUFFICES ASSUME Metered PROVE Covered' BY DEF Covered
  <1>1. /\ Owing \subseteq Turn /\ Owing' \subseteq Turn
        /\ InFlight' \subseteq Turn /\ Owing' \subseteq InFlight'
        /\ captured \subseteq Turn /\ waved \subseteq Turn
    BY DEF Owing, InFlight, Typed, TypeOK, BillTypeOK
  <1>2. /\ Cardinality(Owing) \in Nat /\ Cardinality(Owing') \in Nat
        /\ Cardinality(captured) \in Nat /\ Cardinality(waved) \in Nat
        /\ crowd \in Nat /\ crowd' \in Nat /\ crowd <= crowd' /\ balance \in Int
    BY <1>1, Finite, NextCrowd DEF Typed, TypeOK, BillTypeOK
  <1>3. CASE Owing' \subseteq Owing /\ UNCHANGED billVars
    <2>1. Cardinality(Owing') <= Cardinality(Owing) BY <1>1, <1>3, Finite, FS_Subset
    <2> QED BY <1>2, <1>3, <2>1 DEF Covered, billVars
  <1>4. ASSUME NEW t \in Turn, HasCredit, UNCHANGED billVars PROVE Covered'
    <2>1. Cardinality(Owing') <= Cardinality(InFlight') BY <1>1, Finite, FS_Subset
    <2>2. Cardinality(InFlight') \in Nat BY <1>1, Finite
    <2>3. Cardinality(Owing') <= crowd' BY <1>2, <2>1, <2>2, NextCrowd DEF Crowd
    <2>4. balance > 0 BY <1>4 DEF HasCredit
    <2> QED BY <1>2, <1>4, <2>3, <2>4 DEF Covered, billVars
  <1>5. ASSUME NEW t \in Turn, Owing' = Owing \cup {t}, t \notin waved, WaveThrough(t)
        PROVE  Covered'
    <2>1. Cardinality(waved') = Cardinality(waved) + 1
      BY <1>1, <1>5, OneMore DEF WaveThrough
    <2>2. Cardinality(Owing') <= Cardinality(Owing) + 1
      BY <1>1, <1>5, OneMore
    <2> QED BY <1>2, <1>5, <2>1, <2>2 DEF Covered, WaveThrough
  <1>6. ASSUME NEW t \in Turn, Owing' = Owing \ {t}, t \in Owing, Charge(t)
        PROVE  Covered'
    <2>1. Cardinality(Owing') = Cardinality(Owing) - 1
      BY <1>1, <1>6, OneMore
    <2> QED BY <1>2, <1>6, <2>1 DEF Covered, Charge
  <1>7. ASSUME NEW t \in Turn, Owing' \subseteq Owing, t \notin captured, ChargeCapture(t)
        PROVE  Covered'
    <2>1. Cardinality(captured') = Cardinality(captured) + 1
      BY <1>1, <1>7, OneMore DEF ChargeCapture
    <2>2. Cardinality(Owing') <= Cardinality(Owing)
      BY <1>1, <1>7, Finite, FS_Subset
    <2> QED BY <1>2, <1>7, <2>1, <2>2 DEF Covered, ChargeCapture
  <1> QED BY <1>3, <1>4, <1>5, <1>6, <1>7, StepsOfOwing DEF OwingStep

(* The turns overdraw the balance by less than were ever in flight         *)
(* together, not counting captures and checks that broke.                  *)
THEOREM Overdrawing == Spec => []OverdraftIsBounded
  <1>1. Init => Crowd /\ Metering /\ Covered
    <2> SUFFICES ASSUME Init PROVE Crowd /\ Metering /\ Covered OBVIOUS
    <2>1. InFlight = {} /\ Owing = {} /\ captured = {} /\ waved = {} /\ balance = StartBalance /\ crowd = 1
      BY DEF Init, BillInit, InFlight, Owing
    <2>2. Cardinality({}) = 0 BY FS_EmptySet
    <2>3. Crowd BY <2>1, <2>2 DEF Crowd
    <2>4. Metering BY <2>1 DEF Init, Metering
    <2>5. Covered
      BY <2>1, <2>2, BillingConstants DEF BillingConstants, Covered
    <2> QED BY <2>3, <2>4, <2>5
  <1>2. Stable /\ Crowd /\ Metering /\ Covered /\ [Next]_vars
          => Crowd' /\ Metering' /\ Covered'
    BY NextCrowd, NextMetering, NextCovered DEF Stable
  <1>3. Stable /\ Covered => OverdraftIsBounded
    <2> SUFFICES ASSUME Stable, Covered, Metered
                 PROVE  balance + Cardinality(captured) > -(crowd + Cardinality(waved))
      BY DEF OverdraftIsBounded
    <2>1. Owing \subseteq Turn /\ captured \subseteq Turn /\ waved \subseteq Turn
      BY DEF Owing, Stable, Typed, TypeOK, BillTypeOK
    <2>2. /\ Cardinality(Owing) \in Nat /\ Cardinality(captured) \in Nat
          /\ Cardinality(waved) \in Nat /\ crowd \in Nat /\ balance \in Int
      BY <2>1, Finite, TurnConstants DEF TurnConstants, Stable, Typed, TypeOK, BillTypeOK
    <2> QED BY <2>2 DEF Covered
  <1> QED BY <1>1, <1>2, <1>3, AlwaysStable, PTL DEF Spec

-----------------------------------------------------------------------------
(* The ledger.                                                             *)

(* The balance is what the tenant began with, less one price for every     *)
(* turn and every memory capture that has its record: nothing is charged   *)
(* without a record or recorded without a charge, and nothing is charged   *)
(* twice, however many turns of the same message ran, failed or were lost. *)
LedgerIsExact ==
  balance = StartBalance - Cardinality(charged) - Cardinality(captured)

(* Each transaction takes one from the balance and makes one new record.   *)
LEMMA NextLedger ==
  ASSUME Stable, Metering, LedgerIsExact, [Next]_vars
  PROVE  LedgerIsExact'
  <1>1. charged \subseteq Turn /\ captured \subseteq Turn
    BY DEF Stable, Typed, TypeOK, BillTypeOK
  <1>2. /\ Cardinality(charged) \in Nat /\ Cardinality(captured) \in Nat
        /\ StartBalance \in Nat
    BY <1>1, Finite, BillingConstants DEF BillingConstants
  <1>3. ASSUME NEW t \in Turn, t \in Owing, Charge(t) PROVE LedgerIsExact'
    <2>1. t \notin charged
      BY <1>3 DEF Owing, Silent, Stable, Staged
    <2>2. Cardinality(charged') = Cardinality(charged) + 1
      BY <1>1, <1>3, <2>1, OneMore DEF Charge
    <2> QED BY <1>2, <1>3, <2>2 DEF LedgerIsExact, Charge
  <1>4. ASSUME NEW t \in Turn, t \notin captured, ChargeCapture(t) PROVE LedgerIsExact'
    <2>1. Cardinality(captured') = Cardinality(captured) + 1
      BY <1>1, <1>4, OneMore DEF ChargeCapture
    <2> QED BY <1>2, <1>4, <2>1 DEF LedgerIsExact, ChargeCapture
  <1>5. ASSUME NEW t \in Turn, UNCHANGED billVars \/ WaveThrough(t) PROVE LedgerIsExact'
    BY <1>5 DEF LedgerIsExact, WaveThrough, billVars
  <1>6. CASE UNCHANGED billVars
    BY <1>6 DEF LedgerIsExact, billVars
  <1>7. OwingStep
    BY StepsOfOwing DEF Stable
  <1> QED BY <1>3, <1>4, <1>5, <1>6, <1>7 DEF OwingStep

(* The ledger is exact in every behaviour.                                 *)
THEOREM ExactLedger == Spec => []LedgerIsExact
  <1>1. Init => Metering /\ LedgerIsExact
    <2> SUFFICES ASSUME Init PROVE Metering /\ LedgerIsExact OBVIOUS
    <2>1. charged = {} /\ captured = {} /\ waved = {} /\ balance = StartBalance
      BY DEF Init, BillInit
    <2>2. Metering BY <2>1 DEF Init, Metering
    <2>3. LedgerIsExact
      BY <2>1, FS_EmptySet, BillingConstants DEF BillingConstants, LedgerIsExact
    <2> QED BY <2>2, <2>3
  <1>2. Stable /\ Metering /\ LedgerIsExact /\ [Next]_vars => Metering' /\ LedgerIsExact'
    BY NextMetering, NextLedger
  <1> QED BY <1>1, <1>2, AlwaysStable, PTL DEF Spec

-----------------------------------------------------------------------------
(* What passes for done.                                                   *)

Done == {"answered", "refused", "dropped", "failed"}

(* A job is completed only if its last delivery ran to its end: a turn     *)
(* whose lease was lost, an earlier turn of the message that is still      *)
(* going, or the end of the process cannot make BullMQ drop a message      *)
(* that nobody dealt with.                                                 *)
NothingPassesForDone ==
  \A m \in Msgs : job[m] = "completed" =>
     \E t \in Turn : t = <<m, taken[m]>> /\ outcome[t] \in Done

(* The lease is held by the last delivery; a turn that settles has ended.  *)
Ending ==
  /\ \A m \in Msgs : lease[m] # NoTurn => lease[m] = <<m, taken[m]>>
  /\ \A t \in Turn : pc[t] = "settle" => outcome[t] \in Done
  /\ NothingPassesForDone

(* Only the holder of the lease completes the job, where it has ended.     *)
LEMMA NextEnding == ASSUME Stable, Leased, Ending, [Next]_vars PROVE Ending'
  <1> USE TurnFacts, QueueConstants
      DEF QueueConstants, Stable, Typed, TypeOK, QueueTypeOK, Places, Staged, Silent, Leased,
          Ending, Done, NothingPassesForDone, InFlight,
          Throws, Ends, Goes, Elsewhere, Dies, queueVars
  <1>1. ASSUME NEW t \in Turn, Open(t) PROVE Ending'
    BY <1>1 DEF Open
  <1>2. ASSUME NEW t \in Turn, Access(t) PROVE Ending'
    BY <1>2 DEF Access
  <1>3. ASSUME NEW t \in Turn, FindConversation(t) PROVE Ending'
    BY <1>3 DEF FindConversation
  <1>4. ASSUME NEW t \in Turn, CreateConversation(t) PROVE Ending'
    BY <1>4 DEF CreateConversation
  <1>5. ASSUME NEW t \in Turn, SaveUserMessage(t) PROVE Ending'
    BY <1>5 DEF SaveUserMessage
  <1>6. ASSUME NEW t \in Turn, SendPlaceholder(t) PROVE Ending'
    BY <1>6 DEF SendPlaceholder
  <1>7. ASSUME NEW t \in Turn, Chat(t) PROVE Ending'
    BY <1>7 DEF Chat
  <1>8. ASSUME NEW t \in Turn, Reply(t) PROVE Ending'
    BY <1>8 DEF Reply
  <1>9. ASSUME NEW t \in Turn, Bill(t) PROVE Ending'
    BY <1>9 DEF Bill
  <1>10. ASSUME NEW t \in Turn, Refuse(t) PROVE Ending'
    BY <1>10 DEF Refuse
  <1>11. ASSUME NEW t \in Turn, Apologise(t) PROVE Ending'
    BY <1>11 DEF Apologise
  <1>12. ASSUME NEW t \in Turn, Finish(t) PROVE Ending'
    BY <1>12 DEF Finish
  <1>13. ASSUME NEW t \in Turn, Settle(t) PROVE Ending'
    <2>1. /\ pc[t] = "settle" /\ pc' = [pc EXCEPT ![t] = "over"]
          /\ UNCHANGED <<outcome, taken>>
      BY <1>13 DEF Settle, Complete
    <2>2. /\ \A m \in Msgs : lease'[m] # NoTurn => lease'[m] = lease[m]
          /\ \A m \in Msgs : job'[m] = "completed" =>
                job[m] = "completed" \/ (m = Msg(t) /\ lease[m] = t)
      BY <1>13 DEF Settle, Complete
    <2>3. ASSUME NEW m \in Msgs, m = Msg(t), lease[m] = t
          PROVE  t = <<m, taken[m]>> /\ outcome[t] \in Done
      <3>1. lease[m] # NoTurn BY <2>3
      <3>2. lease[m] = <<m, taken[m]>> BY <3>1
      <3> QED BY <2>1, <2>3, <3>2
    <2>4. \A u \in Turn : pc'[u] = "settle" => pc[u] = "settle" BY <2>1
    <2>5. NothingPassesForDone' BY <2>1, <2>2, <2>3
    <2> QED BY <2>1, <2>2, <2>4, <2>5
  <1>14. ASSUME NEW t \in Turn, Deliver(t) PROVE Ending'
    BY <1>14 DEF Deliver, Take, Turn, Msg
  <1>15. ASSUME NEW t \in Turn, BridgeCall(t) PROVE Ending'
    BY <1>15 DEF BridgeCall
  <1>16. ASSUME NEW t \in Turn, Checkpoint(t) PROVE Ending'
    BY <1>16 DEF Checkpoint
  <1>17. ASSUME NEW t \in Turn, CheckpointLands(t) PROVE Ending'
    BY <1>17 DEF CheckpointLands
  <1>18. ASSUME NEW t \in Turn, CaptureEnds(t) PROVE Ending'
    BY <1>18 DEF CaptureEnds
  <1>19. ASSUME NEW t \in Turn, HalfAnHour(t) PROVE Ending'
    BY <1>19 DEF HalfAnHour
  <1>20. ASSUME NEW m \in Msgs, Receive(m) PROVE Ending'
    BY <1>20 DEF Receive, Enqueue
  <1>21. ASSUME NEW m \in Msgs, DeliverUnready(m) PROVE Ending'
    BY <1>21 DEF DeliverUnready, Throw
  <1>22. ASSUME NEW m \in Msgs, LoseLease(m) PROVE Ending'
    BY <1>22 DEF LoseLease, Stall
  <1>23. ASSUME NEW m \in Msgs, ForgetJob(m) PROVE Ending'
    BY <1>23 DEF ForgetJob, Forget
  <1>24. ASSUME Ready PROVE Ending'
    BY <1>24 DEF Ready
  <1>25. ASSUME Shutdown PROVE Ending'
    BY <1>25 DEF Shutdown
  <1>26. ASSUME Exit PROVE Ending'
    BY <1>26 DEF Exit
  <1>27. ASSUME Crash PROVE Ending'
    BY <1>27 DEF Crash
  <1>28. ASSUME Sweep PROVE Ending'
    BY <1>28 DEF Sweep
  <1>29. CASE UNCHANGED vars BY <1>29 DEF vars, turnVars
  <1>30. ASSUME NEW t \in Turn, Step(t) PROVE Ending'
    BY <1>30, <1>1, <1>2, <1>3, <1>4, <1>5, <1>6, <1>7, <1>8, <1>9, <1>10, <1>11, <1>12, <1>13
    DEF Step
  <1>31. ASSUME NEW t \in Turn, BridgeReturns(t) PROVE Ending'
    BY <1>31 DEF BridgeReturns
  <1> QED BY <1>14, <1>15, <1>16, <1>17, <1>18, <1>19, <1>20, <1>21, <1>22, <1>23, <1>24, <1>25,
       <1>26, <1>27, <1>28, <1>29, <1>30, <1>31
    DEF Next

(* Nothing passes for done that is not.                                    *)
THEOREM DoneIsDone == Spec => []NothingPassesForDone
  <1>1. Init => Ending
    BY DEF Init, QueueInit, Ending, NothingPassesForDone
  <1>2. Stable /\ Leased /\ Ending /\ [Next]_vars => Ending' BY NextEnding
  <1>3. Ending => NothingPassesForDone BY DEF Ending
  <1> QED BY <1>1, <1>2, <1>3, AlwaysStable, AlwaysLeased, PTL DEF Spec

==============================================================================

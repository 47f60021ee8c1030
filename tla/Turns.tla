-------------------------------- MODULE Turns --------------------------------
(***************************************************************************)
(* A message's way from the queue to the reply: the worker                 *)
(* (src/pulse/src/queue/worker.ts) and AgentRuntime.processMessage         *)
(* (src/pulse/src/agent/runtime.ts), with the queue, the run recorder and  *)
(* the tenant's balance they work on.  pc[t] names the await at which turn *)
(* t stands; each action is what runs from there to the next await.        *)
(***************************************************************************)
EXTENDS TenantBilling

CONSTANTS
    Bridged,     \* messages whose agent calls tools through the operator bridge
    Streamed,    \* messages whose answer is streamed into a placeholder
    Memory,      \* BOOLEAN: auto-memory is on
    Workers,     \* concurrency of the worker
    MaxUpdates,  \* bound on the webhook calls
    MaxFaults    \* bound on failed calls and ends of the process

ASSUME TurnConstants ==
    /\ Bridged \subseteq Msgs
    /\ Streamed \subseteq Msgs
    /\ Memory \in BOOLEAN
    /\ Workers \in Nat \ {0}
    /\ MaxUpdates \in Nat
    /\ MaxFaults \in Nat

VARIABLES
    pc,       \* where each turn stands
    said,     \* what the turn got through to its contact
    outcome,  \* how it ended, "open" until then
    capture,  \* its memory capture, in the background of the turn
    phase,    \* of the process: "boot", "up" or "closing"
    conv,     \* contacts with a row in conversations
    bridge,   \* turns whose tool calls may still come in through the operator bridge
    crowd,    \* the most turns that were in flight at a time so far, at least 1
    updates,  \* webhook calls so far
    faults    \* faults so far

turnVars == <<pc, said, outcome, capture, phase, conv, bridge, crowd, updates, faults>>
vars == <<queueVars, runVars, billVars, turnVars>>

Places ==
    {"none", "open", "access", "find", "create", "user", "placeholder", "chat",
     "reply", "bill", "refuse", "apologise", "finish", "settle", "over"}
Outcomes == {"open", "answered", "refused", "dropped", "failed", "lost"}

TypeOK ==
    /\ QueueTypeOK /\ RunTypeOK /\ BillTypeOK
    /\ pc \in [Turn -> Places]
    /\ said \in [Turn -> SUBSET {"reply", "refusal", "error"}]
    /\ outcome \in [Turn -> Outcomes]
    /\ capture \in [Turn -> {"none", "running", "over"}]
    /\ phase \in {"boot", "up", "closing"}
    /\ conv \subseteq Contacts
    /\ bridge \subseteq Turn
    /\ crowd \in 1 .. Workers
    /\ updates \in 0 .. MaxUpdates
    /\ faults \in 0 .. MaxFaults

Init ==
    /\ QueueInit /\ RunInit /\ BillInit
    /\ pc = [t \in Turn |-> "none"]
    /\ said = [t \in Turn |-> {}]
    /\ outcome = [t \in Turn |-> "open"]
    /\ capture = [t \in Turn |-> "none"]
    /\ phase = "boot"
    /\ conv = {}
    /\ bridge = {}
    /\ crowd = 1
    /\ updates = 0
    /\ faults = 0

InFlight == {t \in Turn : pc[t] \notin {"none", "over"}}

\* A call that fails, of those that may.
Fault == faults < MaxFaults /\ faults' = faults + 1
NoFault == UNCHANGED faults

\* The rest of the turn's variables, for actions of one turn.
Elsewhere == UNCHANGED <<updates, phase, bridge, crowd>>

-----------------------------------------------------------------------------
(***************************************************************************)
(* The catch and finally blocks.  catch sets the error on the handle;      *)
(* finally unbinds the run in the step of the last await before it.        *)
(***************************************************************************)
Throws(t) ==
    /\ pc' = [pc EXCEPT ![t] = "apologise"]
    /\ UNCHANGED <<runVars, said, outcome>>

Ends(t, how) ==
    /\ pc' = [pc EXCEPT ![t] = "finish"]
    /\ outcome' = [outcome EXCEPT ![t] = how]
    /\ UnbindRun(t)

Goes(t, place) ==
    /\ pc' = [pc EXCEPT ![t] = place]
    /\ UNCHANGED <<said, outcome>>

\* Whether a message that is sent arrives.  While the process closes, the
\* adapters are shut down already and every send throws.
Arrives == phase = "up" /\ NoFault
Bounces == (phase = "closing" /\ NoFault) \/ (phase # "closing" /\ Fault)

-----------------------------------------------------------------------------
\* A webhook call for m: dispatchMessage enqueues it.  A failed add is tried
\* once more by the fallback, with the same id, and then given up.
Receive(m) ==
    /\ phase = "up"
    /\ updates < MaxUpdates
    /\ updates' = updates + 1
    /\ \/ Enqueue(m) /\ NoFault
       \/ UNCHANGED queueVars /\ Fault
    /\ UNCHANGED <<runVars, billVars, pc, said, outcome, capture, phase, conv, bridge, crowd>>

\* The worker takes a job while it has a place, and processMessage begins.
Deliver(t) ==
    /\ phase \in {"up", "closing"}
    /\ Cardinality(InFlight) < Workers
    /\ Take(Msg(t), t)
    /\ Goes(t, "open")
    /\ crowd' = IF Cardinality(InFlight) < crowd THEN crowd ELSE Cardinality(InFlight) + 1
    /\ NoFault
    /\ UNCHANGED <<runVars, billVars, capture, conv, updates, phase, bridge>>

\* Before the channel adapters are in their map the worker's processor throws.
DeliverUnready(m) ==
    /\ phase = "boot"
    /\ Throw(m)
    /\ Elsewhere /\ NoFault
    /\ UNCHANGED <<runVars, billVars, pc, said, outcome, capture, conv>>

Open(t) ==
    /\ pc[t] = "open"
    /\ \/ StartRun(t, TRUE) /\ NoFault
       \/ StartRun(t, FALSE) /\ Fault
    /\ Goes(t, "access")
    /\ Elsewhere
    /\ UNCHANGED <<queueVars, billVars, capture, conv>>

\* Mutant: the balance is not looked at.
Access_Unchecked(t) ==
    /\ pc[t] = "access"
    /\ Goes(t, "find") /\ UNCHANGED runVars
    /\ NoFault /\ Elsewhere
    /\ UNCHANGED <<queueVars, billVars, capture, conv>>

\* Mutant: a turn without credit returns and says nothing.
Access_Silent(t) ==
    /\ pc[t] = "access"
    /\ \/ HasCredit /\ Goes(t, "find") /\ UNCHANGED runVars
       \/ ~HasCredit /\ Ends(t, "refused") /\ UNCHANGED said
    /\ NoFault /\ Elsewhere
    /\ UNCHANGED <<queueVars, billVars, capture, conv>>

\* The tenant's row and checkTenantAccess.
Access(t) ==
    /\ pc[t] = "access"
    /\ \/ /\ Goes(t, IF HasCredit THEN "find" ELSE "refuse")
          /\ NoFault
          /\ UNCHANGED <<billVars, runVars>>
       \/ Goes(t, "find") /\ WaveThrough(t) /\ Fault /\ UNCHANGED runVars
       \/ Throws(t) /\ Fault /\ UNCHANGED billVars
    /\ Elsewhere
    /\ UNCHANGED <<queueVars, capture, conv>>

FindConversation(t) ==
    /\ pc[t] = "find"
    /\ \/ Contact(t) \in conv /\ Goes(t, "user") /\ BindRun(t) /\ NoFault
       \/ Contact(t) \notin conv /\ Goes(t, "create") /\ NoFault /\ UNCHANGED runVars
       \/ Throws(t) /\ Fault
    /\ Elsewhere
    /\ UNCHANGED <<queueVars, billVars, capture, conv>>

\* A contact has one conversation (idx_unique_conversation): the insert of a
\* turn that lost the race throws.
CreateConversation(t) ==
    /\ pc[t] = "create"
    /\ \/ /\ Contact(t) \notin conv
          /\ conv' = conv \cup {Contact(t)}
          /\ Goes(t, "user") /\ BindRun(t) /\ NoFault
       \/ Contact(t) \in conv /\ Throws(t) /\ NoFault /\ UNCHANGED conv
       \/ Throws(t) /\ Fault /\ UNCHANGED conv
    /\ Elsewhere
    /\ UNCHANGED <<queueVars, billVars, capture>>

\* The contact's message is stored, the agent chosen, the person's access and
\* the provider's key looked up.
SaveUserMessage(t) ==
    /\ pc[t] = "user"
    /\ \/ /\ Goes(t, IF Msg(t) \in Streamed THEN "placeholder" ELSE "chat")
          /\ NoFault /\ UNCHANGED runVars
       \/ Goes(t, "refuse") /\ NoFault /\ UNCHANGED runVars
       \/ Ends(t, "dropped") /\ NoFault /\ UNCHANGED said
       \/ Throws(t) /\ Fault
    /\ Elsewhere
    /\ UNCHANGED <<queueVars, billVars, capture, conv>>

SendPlaceholder(t) ==
    /\ pc[t] = "placeholder"
    /\ \/ Arrives /\ Goes(t, "chat") /\ UNCHANGED runVars
       \/ Bounces /\ Throws(t)
    /\ Elsewhere
    /\ UNCHANGED <<queueVars, billVars, capture, conv>>

\* While the model answers it calls tools through the operator bridge, whose HTTP
\* handlers end on their own: the watchdog, the absolute maximum or the end of the
\* Codex process end the turn's wait and not the tool.
BridgeCall(t) ==
    /\ pc[t] = "chat"
    /\ Msg(t) \in Bridged
    /\ bridge' = bridge \cup {t}
    /\ NoFault
    /\ UNCHANGED <<queueVars, runVars, billVars, pc, said, outcome, capture, conv,
                   updates, phase, crowd>>

\* A tool has returned or thrown, and its handler records the call.  A turn may
\* have more calls under way.
BridgeReturns(t) ==
    /\ t \in bridge
    /\ RecordToolCall(t)
    /\ Elsewhere /\ NoFault
    /\ UNCHANGED <<queueVars, billVars, pc, said, outcome, capture, conv>>

\* While the model answers: a checkpoint of what it has written so far.
Checkpoint(t) ==
    /\ pc[t] = "chat"
    /\ Msg(t) \in Streamed
    /\ SavePartial(t)
    /\ Elsewhere /\ NoFault
    /\ UNCHANGED <<queueVars, billVars, pc, said, outcome, capture, conv>>

CheckpointLands(t) ==
    /\ \/ PartialLands(t, TRUE) /\ NoFault
       \/ PartialLands(t, FALSE) /\ Fault
    /\ Elsewhere
    /\ UNCHANGED <<queueVars, billVars, pc, said, outcome, capture, conv>>

\* Mutant: a turn that used up its tool calls throws.
Chat_CapThrows(t) ==
    /\ pc[t] = "chat"
    /\ \/ Goes(t, "reply") /\ UNCHANGED runVars
       \/ Throws(t)
    /\ NoFault /\ Elsewhere
    /\ UNCHANGED <<queueVars, billVars, capture, conv>>

\* The model and its tool loop are done; an answer may be the silent token.
Chat(t) ==
    /\ pc[t] = "chat"
    /\ \/ Goes(t, "reply") /\ NoFault /\ UNCHANGED runVars
       \/ Goes(t, "bill") /\ NoFault /\ UNCHANGED runVars
       \/ Throws(t) /\ Fault
    /\ Elsewhere
    /\ UNCHANGED <<queueVars, billVars, capture, conv>>

\* The reply goes out first: a message that may throw, or the last edit of the
\* placeholder, whose errors are caught.  Its bookkeeping catches all errors and
\* ends in the start of the memory capture.
Reply(t) ==
    /\ pc[t] = "reply"
    /\ \/ /\ Arrives
          /\ said' = [said EXCEPT ![t] = @ \cup {"reply"}]
          /\ pc' = [pc EXCEPT ![t] = "bill"]
          /\ UNCHANGED <<runVars, outcome>>
       \/ Bounces /\ Msg(t) \in Streamed /\ Goes(t, "bill") /\ UNCHANGED runVars
       \/ Bounces /\ Msg(t) \notin Streamed /\ Throws(t)
    /\ capture' = [capture EXCEPT
                     ![t] = IF Memory /\ pc'[t] = "bill" THEN "running" ELSE @]
    /\ Elsewhere
    /\ UNCHANGED <<queueVars, billVars, conv>>

\* Mutant: the statements without a transaction: the last one fails.
Bill_NotAtomic(t) ==
    /\ pc[t] = "bill"
    /\ \/ Charge(t) /\ Ends(t, "answered") /\ NoFault /\ UNCHANGED said
       \/ Charge(t) /\ Throws(t) /\ Fault
    /\ Elsewhere
    /\ UNCHANGED <<queueVars, capture, conv>>

\* Usage, balance and ledger in one transaction, outside any try of its own: if
\* it fails, the contact is told of an error after the reply.
Bill(t) ==
    /\ pc[t] = "bill"
    /\ \/ Charge(t) /\ Ends(t, "answered") /\ NoFault /\ UNCHANGED said
       \/ Throws(t) /\ Fault /\ UNCHANGED billVars
    /\ Elsewhere
    /\ UNCHANGED <<queueVars, capture, conv>>

\* A turn that may not go on says so and returns; a send that throws is an error
\* like any other.
Refuse(t) ==
    /\ pc[t] = "refuse"
    /\ \/ /\ Arrives
          /\ said' = [said EXCEPT ![t] = @ \cup {"refusal"}]
          /\ Ends(t, "refused")
       \/ Bounces /\ Throws(t)
    /\ Elsewhere
    /\ UNCHANGED <<queueVars, billVars, capture, conv>>

\* The catch block's message; its own failure is swallowed.
Apologise(t) ==
    /\ pc[t] = "apologise"
    /\ \/ Arrives /\ said' = [said EXCEPT ![t] = @ \cup {"error"}]
       \/ Bounces /\ UNCHANGED said
    /\ Ends(t, "failed")
    /\ Elsewhere
    /\ UNCHANGED <<queueVars, billVars, capture, conv>>

Finish(t) ==
    /\ pc[t] = "finish"
    /\ \/ FinishRun(t, IF outcome[t] = "failed" THEN "failed" ELSE "completed") /\ NoFault
       \/ UNCHANGED runVars /\ Fault
    /\ Goes(t, "settle")
    /\ Elsewhere
    /\ UNCHANGED <<queueVars, billVars, capture, conv>>

\* processMessage has returned, whatever happened in it, and so does the job.
Settle(t) ==
    /\ pc[t] = "settle"
    /\ Complete(t)
    /\ Goes(t, "over")
    /\ Elsewhere /\ NoFault
    /\ UNCHANGED <<runVars, billVars, capture, conv>>

\* The capture's own model call and its own transaction; errors are logged, and
\* a capture that used no tokens is free.
CaptureEnds(t) ==
    /\ capture[t] = "running"
    /\ capture' = [capture EXCEPT ![t] = "over"]
    /\ ChargeCapture(t) \/ UNCHANGED billVars
    /\ Elsewhere /\ NoFault
    /\ UNCHANGED <<queueVars, runVars, pc, said, outcome, conv>>

-----------------------------------------------------------------------------
(* The process. *)

\* The adapters are in their map; the first sweep and the server follow.
Ready ==
    /\ phase = "boot"
    /\ phase' = "up"
    /\ UNCHANGED <<queueVars, runVars, billVars, pc, said, outcome, capture, conv,
                   bridge, crowd, updates, faults>>

\* shutdown() closes the adapters, then waits for the worker.
Shutdown ==
    /\ phase = "up"
    /\ Fault
    /\ phase' = "closing"
    /\ UNCHANGED <<queueVars, runVars, billVars, pc, said, outcome, capture, conv,
                   bridge, crowd, updates>>

\* The process ends and another boots: turns, their tools and captures are lost.
Dies ==
    /\ phase' = "boot"
    /\ ForgetRuns
    /\ pc' = [t \in Turn |-> IF t \in InFlight THEN "over" ELSE pc[t]]
    /\ outcome' = [t \in Turn |->
                     IF t \in InFlight /\ outcome[t] = "open" THEN "lost" ELSE outcome[t]]
    /\ capture' = [t \in Turn |-> IF capture[t] = "running" THEN "over" ELSE capture[t]]
    /\ bridge' = {}
    /\ UNCHANGED <<queueVars, billVars, said, conv, crowd, updates>>

Exit == phase = "closing" /\ InFlight = {} /\ Dies /\ NoFault

Crash == Dies /\ Fault

\* A lease runs out.  Of a turn that is still going this takes an outage.
LoseLease(m) ==
    /\ Stall(m)
    /\ IF lease[m] \in InFlight THEN Fault ELSE NoFault
    /\ UNCHANGED <<runVars, billVars, pc, said, outcome, capture, conv>>
    /\ Elsewhere

\* Of the completed jobs Redis keeps the last hundred, for an hour: a job may be
\* gone while a turn of it that lost its lease still goes on.
ForgetJob(m) ==
    /\ Forget(m)
    /\ Elsewhere /\ NoFault
    /\ UNCHANGED <<runVars, billVars, pc, said, outcome, capture, conv>>

Sweep ==
    /\ phase \in {"up", "closing"}
    /\ SweepStaleRuns
    /\ Elsewhere /\ NoFault
    /\ UNCHANGED <<queueVars, billVars, pc, said, outcome, capture, conv>>

\* Of a turn's awaits only the model with its tools may take so long: an
\* approval may be waited for.
HalfAnHour(t) ==
    /\ pc[t] \in {"chat", "over"}
    /\ RunAges(t)
    /\ Elsewhere /\ NoFault
    /\ UNCHANGED <<queueVars, billVars, pc, said, outcome, capture, conv>>

-----------------------------------------------------------------------------
\* A step of the turn's own code.
Step(t) ==
    \/ Open(t) \/ Access(t) \/ FindConversation(t) \/ CreateConversation(t)
    \/ SaveUserMessage(t) \/ SendPlaceholder(t) \/ Chat(t) \/ Reply(t) \/ Bill(t)
    \/ Refuse(t) \/ Apologise(t) \/ Finish(t) \/ Settle(t)

Next ==
    \/ \E m \in Msgs : Receive(m) \/ DeliverUnready(m) \/ LoseLease(m) \/ ForgetJob(m)
    \/ \E t \in Turn :
         \/ Deliver(t) \/ Step(t) \/ BridgeCall(t) \/ BridgeReturns(t) \/ Checkpoint(t)
         \/ CheckpointLands(t) \/ CaptureEnds(t) \/ HalfAnHour(t)
    \/ Ready \/ Shutdown \/ Exit \/ Crash \/ Sweep

Spec == Init /\ [][Next]_vars

\* What goes on without being asked: the turns' own steps, a model that answers
\* or breaks, BullMQ's polling and its search for lost leases, the clock, and
\* the process's boot, end and sweeps.
Fairness ==
    /\ \A t \in Turn : WF_vars(Step(t)) /\ WF_vars(HalfAnHour(t))
    /\ \A t \in Turn : WF_vars(Deliver(t))
    /\ \A m \in Msgs : WF_vars(LoseLease(m) /\ lease[m] \notin InFlight)
    /\ WF_vars(Ready) /\ WF_vars(Exit) /\ WF_vars(Sweep)

FairSpec == Spec /\ Fairness

-----------------------------------------------------------------------------
(* Properties *)

\* The turns of a metered tenant overdraw its balance by less than were ever in
\* flight together (which the worker's concurrency bounds), not counting turns let
\* through because the check broke, and the captures, which nothing checks: the
\* balance is read before a turn and charged after it, and turns in flight together
\* may all read it in between.  Turns that come one after the other overdraw
\* nothing.
OverdraftIsBounded ==
    Metered => balance + Cardinality(captured) > -(crowd + Cardinality(waved))

\* However often a webhook delivers a message, two turns never work on it at the
\* same time, unless something failed.
NoTwins ==
    faults = 0 => \A t, u \in InFlight : Msg(t) = Msg(u) => t = u

\* A completed row belongs to a turn that ended without an error, and a turn that
\* ended well is recorded as failed only by the sweep of an old row, and only
\* until finishRun comes, which overrules the sweep.
RowsTellTheTruth ==
    \A t \in Turn :
        /\ row[t] = "completed" => outcome[t] \in {"answered", "refused", "dropped"}
        /\ row[t] = "failed" /\ outcome[t] # "failed" => t \in old
        /\ row[t] \in {"running", "failed"} /\ pc[t] \in {"settle", "over"} /\ faults = 0
             => outcome[t] = "failed" /\ row[t] = "failed"

\* As long as nothing breaks, the only turn that ends in an error is a contact's
\* message that raced another first message of that contact for the
\* conversation, and the contact is told.
OnlyRacersFail ==
    \A t \in Turn :
        faults = 0 /\ outcome[t] = "failed"
            => /\ t \notin joined
               /\ \E u \in joined \ {t} : Contact(u) = Contact(t)
               /\ said[t] = {"error"}

\* A tool call that comes in through the bridge, however late, is added to no run
\* but one of the same conversation that is still open; and it misses its own run
\* only if that has ended or if another run had the conversation as well.
ToolCallsStayInTheThread ==
    [][\A t \in Turn, u \in Turn \cup {NoTurn} :
         <<t, u>> \in credit' \ credit =>
            /\ u # NoTurn => Contact(u) = Contact(t) /\ outcome[u] = "open"
            /\ \/ u = t
               \/ outcome[t] # "open"
               \/ \E x \in joined \ {t} : Contact(x) = Contact(t)]_vars

\* Every turn keeps the promises of TurnContract: it is charged if and only if it
\* was answered, and a turn that failed, was refused or was lost is free.
Contract == INSTANCE TurnContract WITH Turns <- Turn, told <- said, result <- outcome

KeepsContract == Contract!Spec

\* Every run is closed in the end: by finishRun, or by the sweep if that failed or
\* the process died.
EveryRunCloses == \A t \in Turn : row[t] = "running" ~> row[t] # "running"

\* A message in the queue is heard: unless something fails, its next turn gets an
\* answer, a refusal or an error through to its contact, or is silent or dropped
\* on purpose.
EveryMessageIsHeard ==
    \A t \in Turn :
        job[Msg(t)] = "waiting" /\ taken[Msg(t)] + 1 = t[2]
          ~> \/ faults > 0
             \/ said[t] # {}
             \/ outcome[t] \in {"answered", "dropped"}

=============================================================================

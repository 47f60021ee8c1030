------------------------------ MODULE Delegation ------------------------------
(***************************************************************************)
(* One agent hands a task to another and waits for its answer:             *)
(*   src/pulse/src/agent/orchestration/agent-delegation.ts                 *)
(*   src/pulse/src/agent/orchestration/agent-registry.ts                   *)
(*   src/pulse/src/agent/tools/built-in/delegate.ts, route-to-channel.ts   *)
(*                                                                         *)
(* A call of delegateTask() runs the target agent; that sub-run may call   *)
(* delegateTask() again, several times at once, because the tool calls of  *)
(* a model's answer run in parallel.  All the calls of a tree share the    *)
(* budget of its root conversation, an object of the gateway's memory that *)
(* is looked up, awaited, checked, and counted on only after one more      *)
(* await.  An idle sweep forgets budgets.                                  *)
(***************************************************************************)
EXTENDS Naturals, FiniteSets

CONSTANTS Call,      \* calls of delegateTask
          Agent,
          Root,      \* conversations of people
          RootAgent, \* Root -> Agent: who answers there
          NoCall,
          Channels,  \* Agent -> the channels it belongs to
          MayDelegate, Accepts, \* canDelegate and acceptsDelegation
          DelegateTo, \* Agent -> its restricted targets, {} = all
          MaxDepth,  \* Agent -> Nat
          Caps,      \* Agent -> its budget, 0 = no limit
          Window,    \* MAX_DELEGATIONS_PER_WINDOW
          MaxUse,    \* bound: tokens a sub-run reports
          FanOut,    \* bound: calls of a root between their start and their
                     \*   sub-run
          MaxFaults  \* bound: failed database calls and broken turns

Budget == [hops : Nat, conc : Nat, tokens : Nat]

ASSUME ConstantsOK == /\ Root # {}
                      /\ NoCall \notin Call
                      /\ IsFiniteSet(Call)
                      /\ RootAgent \in [Root -> Agent]
                      /\ DOMAIN Channels = Agent
                      /\ MayDelegate \subseteq Agent /\ Accepts \subseteq Agent
                      /\ DelegateTo \in [Agent -> SUBSET Agent]
                      /\ MaxDepth \in [Agent -> Nat]
                      /\ Caps \in [Agent -> Budget]
                      /\ Window \in Nat \ {0}
                      /\ MaxUse \in Nat
                      /\ FanOut \in Nat \ {0}
                      /\ MaxFaults \in Nat

VARIABLES
  pc,      \* the await at which each call is
  job,     \* its arguments
  held,    \* the call that created the budget object it holds
  budget,  \* that object, per call that created one
  entry,   \* rootBudgets: the creator of a root's current object
  window,  \* delegationCounters; 0 = no entry, or one that has expired
  row,     \* agent_delegations
  faults

vars == <<pc, job, held, budget, entry, window, row, faults>>

(* Top-level conversations, and those of sub-runs: one per delegating      *)
(* agent, since their contact is `delegation-${sourceAgentId}`.            *)
Conversation == Root \cup Agent

Job == [src : Agent, dst : Agent, up : Call \cup {NoCall}, root : Root]

NoLimit == [hops |-> 0, conc |-> 0, tokens |-> 0]
Fresh == [hops |-> 0, inFlight |-> 0, tokens |-> 0, limits |-> NoLimit,
          lookup |-> "asked"]

Starting == {"policy", "profile", "limits", "insert"}
Running  == {"running", "billing"}
Spawned  == Running \cup {"record", "rescue", "completed", "failed", "lost"}
Ended    == {"refused", "threw", "completed", "failed", "lost"}

AnyJob == CHOOSE j \in Job : j.up = NoCall

-----------------------------------------------------------------------------
Goto(c, place) == pc' = [pc EXCEPT ![c] = place]

starting(r) == {c \in Call : pc[c] \in Starting /\ job[c].root = r}
active(c)   == {d \in Call : /\ pc[d] \notin Ended \cup {"idle"}
                              /\ job[d].up = c}

conversation(j) == IF j.up = NoCall THEN j.root ELSE job[j.up].src

Fault == faults < MaxFaults /\ faults' = faults + 1

Init == /\ pc = [c \in Call |-> "idle"]
        /\ job = [c \in Call |-> AnyJob]
        /\ held = [c \in Call |-> NoCall]
        /\ budget = [c \in Call |-> Fresh]
        /\ entry = [r \in Root |-> NoCall]
        /\ window = [v \in Conversation |-> 0]
        /\ row = [c \in Call |-> "none"]
        /\ faults = 0

-----------------------------------------------------------------------------
(* The arguments of a call: the agent that answers a person delegates, or  *)
(* the agent of a sub-run does, which then passes its root on.             *)
topLevel == {[src |-> RootAgent[r], dst |-> t, up |-> NoCall, root |-> r] :
               r \in Root, t \in Agent}
nested(p) == {[src |-> job[p].dst, dst |-> t, up |-> p, root |-> job[p].root] :
                t \in Agent}
offered == topLevel \cup UNION {nested(p) : p \in {d \in Call : pc[d] = "running"}}

(* Mutant: one more than the window allows.                                *)
hasRoom_OffByOne(v) == window[v] <= Window

(* bumpDelegationCounter()                                                 *)
hasRoom(v) == window[v] < Window

(* delegateTask() up to its first await.  delegate_to_agent has its policy *)
(* checked, route_to_channel goes by the channels.                         *)
Delegate(c, j, first) ==
  LET v == conversation(j)
  IN /\ pc[c] = "idle"
     /\ Cardinality(starting(j.root)) < FanOut
     /\ job' = [job EXCEPT ![c] = j]
     /\ \/ /\ hasRoom(v)
           /\ window' = [window EXCEPT ![v] = @ + 1]
           /\ Goto(c, first)
        \/ /\ ~hasRoom(v)
           /\ Goto(c, "refused")
           /\ UNCHANGED window
     /\ UNCHANGED <<held, budget, entry, row, faults>>

shareChannel(a, b) == Channels[a] \cap Channels[b] # {}

canDelegateTo(a, b) == \/ shareChannel(a, b)
                       \/ /\ a \in MayDelegate
                          /\ b \in Accepts
                          /\ DelegateTo[a] = {} \/ b \in DelegateTo[a]

CheckPolicy(c) ==
  /\ pc[c] = "policy"
  /\ Goto(c, IF canDelegateTo(job[c].src, job[c].dst)
             THEN "profile" ELSE "refused")
  /\ UNCHANGED <<job, held, budget, entry, window, row, faults>>

(* Both tools pass 0 for the depth.                                        *)
currentDepth == 0

TooDeep(c) == /\ pc[c] = "profile"
              /\ currentDepth >= MaxDepth[job[c].dst]
              /\ Goto(c, "refused")
              /\ UNCHANGED <<job, held, budget, entry, window, row, faults>>

(* Mutant: every racer builds its own budget.                              *)
theirBudget_Unshared(c, r) == c
theirBudget(c, r) == IF entry[r] = NoCall THEN c ELSE entry[r]

(* The target's profile is read; then, with no await in between, the       *)
(* root's budget is looked up or created, and its creator asks for the     *)
(* limits.                                                                 *)
GetRootBudget(c) ==
  LET r == job[c].root
      o == theirBudget(c, r)
  IN /\ pc[c] = "profile"
     /\ currentDepth < MaxDepth[job[c].dst]
     /\ held' = [held EXCEPT ![c] = o]
     /\ entry' = [entry EXCEPT ![r] = o]
     /\ Goto(c, "limits")
     /\ UNCHANGED <<job, budget, window, row, faults>>

(* limitsPromise: the caps of the agent that created the budget.           *)
LimitsArrive(o) ==
  /\ held[o] = o
  /\ budget[o].lookup = "asked"
  /\ budget' = [budget EXCEPT ![o].lookup = "known",
                              ![o].limits = Caps[job[o].src]]
  /\ UNCHANGED <<pc, job, held, entry, window, row, faults>>

(* A rejected promise stays with the budget, and rejects every later call. *)
LimitsFail(o) ==
  /\ held[o] = o
  /\ budget[o].lookup = "asked"
  /\ Fault
  /\ budget' = [budget EXCEPT ![o].lookup = "failed"]
  /\ UNCHANGED <<pc, job, held, entry, window, row>>

(* Mutant: a full budget lets one more through.                            *)
reached_OffByOne(limit, n) == limit > 0 /\ n > limit
reached(limit, n) == limit > 0 /\ n >= limit

spent(b) == \/ reached(b.limits.hops, b.hops)
            \/ reached(b.limits.tokens, b.tokens)
            \/ reached(b.limits.conc, b.inFlight)

(* Mutant: only the creator of a budget waits for its limits.              *)
resolved_Unawaited(b) == b.lookup # "failed"
(* What an await of limitsPromise waits for.                               *)
resolved(b) == b.lookup = "known"

Admit(c) ==
  LET b == budget[held[c]]
  IN /\ pc[c] = "limits"
     /\ \/ resolved(b) /\ ~spent(b) /\ Goto(c, "insert")
        \/ resolved(b) /\ spent(b) /\ Goto(c, "refused")
        \/ b.lookup = "failed" /\ Goto(c, "threw")
     /\ UNCHANGED <<job, held, budget, entry, window, row, faults>>

(* The row is there; the sub-run is counted and starts.                    *)
Spawn(c) == /\ pc[c] = "insert"
            /\ row' = [row EXCEPT ![c] = "running"]
            /\ budget' = [budget EXCEPT ![held[c]].hops = @ + 1,
                                        ![held[c]].inFlight = @ + 1]
            /\ Goto(c, "running")
            /\ UNCHANGED <<job, held, entry, window, faults>>

(* The sub-run's turn is over and reports its tokens, to whatever budget   *)
(* the root has by now.                                                    *)
AddDelegatedTokens(c, n) ==
  LET o == entry[job[c].root]
  IN /\ pc[c] = "running"
     /\ active(c) = {}
     /\ budget' = IF o = NoCall THEN budget
                  ELSE [budget EXCEPT ![o].tokens = @ + n]
     /\ Goto(c, "billing")
     /\ UNCHANGED <<job, held, entry, window, row, faults>>

(* Mutant: an ended sub-run keeps its place.                               *)
leave_Forgotten(c) == budget
leave(c) == [budget EXCEPT ![held[c]].inFlight = @ - 1]

TurnEnds(c) == /\ pc[c] = "billing"
               /\ budget' = leave(c)
               /\ Goto(c, "record")
               /\ UNCHANGED <<job, held, entry, window, row, faults>>

(* An error ends the turn: no tokens are reported, and delegations it had  *)
(* begun go on without it.                                                 *)
TurnBreaks(c) == /\ pc[c] = "running"
                 /\ Fault
                 /\ budget' = leave(c)
                 /\ Goto(c, "record")
                 /\ UNCHANGED <<job, held, entry, window, row>>

RecordCompleted(c) == /\ pc[c] = "record"
                      /\ row' = [row EXCEPT ![c] = "completed"]
                      /\ Goto(c, "completed")
                      /\ UNCHANGED <<job, held, budget, entry, window, faults>>

RecordFailed(c) == /\ pc[c] = "rescue"
                   /\ row' = [row EXCEPT ![c] = "failed"]
                   /\ Goto(c, "failed")
                   /\ UNCHANGED <<job, held, budget, entry, window, faults>>

(* A statement fails.  Before the sub-run, delegateTask() throws; after it *)
(* the handler writes the row again, and throws if that fails, too.        *)
QueryFails(c) ==
  /\ Fault
  /\ \/ pc[c] \in {"policy", "profile", "insert"} /\ Goto(c, "threw")
     \/ pc[c] = "record" /\ Goto(c, "rescue")
     \/ pc[c] = "rescue" /\ Goto(c, "lost")
  /\ UNCHANGED <<job, held, budget, entry, window, row>>

-----------------------------------------------------------------------------
WindowElapses(v) == /\ window[v] > 0
                    /\ window' = [window EXCEPT ![v] = 0]
                    /\ UNCHANGED <<pc, job, held, budget, entry, row, faults>>

(* A budget nobody touched for half an hour.  Statements do not take that  *)
(* long; sub-runs may.                                                     *)
Sweep(r) == /\ entry[r] # NoCall
            /\ \A c \in Call : held[c] = entry[r] =>
                                 pc[c] \notin {"limits", "insert"}
            /\ entry' = [entry EXCEPT ![r] = NoCall]
            /\ UNCHANGED <<pc, job, held, budget, window, row, faults>>

Next == \/ \E c \in Call, j \in offered, first \in {"policy", "profile"} :
             Delegate(c, j, first)
        \/ \E c \in Call : \/ CheckPolicy(c)
                            \/ TooDeep(c)
                            \/ GetRootBudget(c)
                            \/ LimitsArrive(c)
                            \/ LimitsFail(c)
                            \/ Admit(c)
                            \/ Spawn(c)
                            \/ \E n \in 0..MaxUse : AddDelegatedTokens(c, n)
                            \/ TurnEnds(c)
                            \/ TurnBreaks(c)
                            \/ RecordCompleted(c)
                            \/ RecordFailed(c)
                            \/ QueryFails(c)
        \/ \E v \in Conversation : WindowElapses(v)
        \/ \E r \in Root : Sweep(r)

Spec == Init /\ [][Next]_vars

-----------------------------------------------------------------------------
(* Everything a variable may hold.                                         *)
TypeOK ==
  /\ pc \in [Call -> {"idle"} \cup Starting \cup Spawned \cup Ended]
  /\ job \in [Call -> Job]
  /\ held \in [Call -> Call \cup {NoCall}]
  /\ budget \in [Call -> [hops : Nat, inFlight : Nat, tokens : Nat,
                         limits : Budget,
                         lookup : {"asked", "known", "failed"}]]
  /\ entry \in [Root -> Call \cup {NoCall}]
  /\ window \in [Conversation -> 0..Window]
  /\ row \in [Call -> {"none", "running", "completed", "failed"}]
  /\ faults \in 0..MaxFaults

holders(o, places) == {c \in Call : held[c] = o /\ pc[c] \in places}

(* Whatever fails and whatever is swept, a budget's counters are the       *)
(* sub-runs that run and that ever ran on it: no early failure leaks a     *)
(* hop, no sub-run keeps its place when it has ended (agent-delegation.ts  *)
(* 163-164 and 209-219).                                                   *)
BudgetIsExact == \A o \in Call :
  /\ budget[o].hops = Cardinality(holders(o, Spawned))
  /\ budget[o].inFlight = Cardinality(holders(o, Running))

(* Calls of one root that are still to be counted hold one budget, so the  *)
(* counts of one are seen by the other (55-60).                            *)
OneBudgetPerRoot == \A c, d \in Call :
  /\ pc[c] \in {"limits", "insert"}
  /\ pc[d] \in {"limits", "insert"}
  /\ job[c].root = job[d].root
  => held[c] = held[d]

(* Nobody is let through on the unlimited caps a budget has at first: all  *)
(* racers wait for the same lookup (71-75).                                *)
SameLimits == \A c \in Call :
  pc[c] \in {"insert"} \cup Spawned =>
     budget[held[c]].limits = Caps[job[held[c]].src]

(* The caps are checked before the row is written and counted after it, so *)
(* a fan-out passes them together; this is how far it gets: it fills the   *)
(* last place FanOut times.  Delegations begun one at a time never exceed  *)
(* a cap (150-164 and 213-214).                                            *)
UpTo(limit, n) == limit > 0 => n <= limit - 1 + FanOut
CapsUpToFanOut == \A o \in Call :
  /\ UpTo(budget[o].limits.hops, budget[o].hops)
  /\ UpTo(budget[o].limits.conc, budget[o].inFlight)
================================================================================

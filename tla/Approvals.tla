------------------------------ MODULE Approvals ------------------------------
(***************************************************************************)
(* The human-approval workflow of the gateway:                             *)
(*   src/pulse/src/channels/approval-service.ts     rows, cards, verdicts  *)
(*   src/pulse/src/agent/tools/approval-gate.ts     gated tool calls       *)
(*   src/pulse/src/channels/telegram/adapter.ts     gated messages, taps   *)
(*   src/pulse/src/servers/tools.ts                 gated commands         *)
(*                                                                         *)
(* An approval is one gated action.  Its caller inserts a row, sends every *)
(* approver a card and then either ends its turn (a tool call, executed by *)
(* whoever approves it) or blocks on an in-memory promise (a command, a    *)
(* message).  Approvers, dashboard admins, the caller's timer and the      *)
(* minute sweep race to finalize the row; each of them is a thread of      *)
(* `fin'.  Between two awaits a handler runs alone, so a step of the model *)
(* is the code between two awaits.                                         *)
(***************************************************************************)
EXTENDS Naturals, FiniteSets

CONSTANTS Approval,    \* the gated actions of a run
          People,      \* who is an approver when the run starts
          Dashboard,   \* admins deciding from the dashboard
          Subject,     \* what standing allowances are about
          Kind,        \* Approval -> ApprovalKind
          SubjectOf,   \* Approval -> Subject
          Sweep,       \* the minute sweep
          MaxFaults    \* bound: restarts, database and network errors

ApprovalKind == {"user_request", "command", "tool_call"}
Action       == {"allow", "deny", "allowall"}
Decided      == {"approved", "denied", "expired"}
Status       == {"none", "pending"} \union Decided
Actor        == People \union Dashboard
Finalizer    == Actor \union Approval \union {Sweep}   \* Approval: timers

ASSUME ConstantsOK == /\ Approval # {}
                      /\ Kind \in [Approval -> ApprovalKind]
                      /\ SubjectOf \in [Approval -> Subject]
                      /\ MaxFaults \in Nat
                      /\ Actor \intersect Approval = {}
                      /\ Sweep \notin Actor \union Approval
                      /\ People \intersect Dashboard = {}

Blocking(a) == Kind[a] # "tool_call"

VARIABLES
  (* Postgres *)
  status,     \* pending_approvals.status ("none": no row)
  ttl,        \* rows whose expires_at has passed
  stored,     \* pending_approvals.approval_message_ids: whose card is known
  allow,      \* number of active approval_allowances rows of each subject
  approver,   \* people.is_approver
  (* Telegram *)
  card,       \* the text of each approver's card
  alerted,    \* expired tool calls the approvers were alerted about
  (* the gateway's memory *)
  caller,     \* where the caller of the gate stands
  toPost,     \* approvers a card is still to be sent to
  outcome,    \* what the caller's promise resolved with
  resolver,   \* ids present in the resolvers map
  timer,      \* ids whose entry has an armed timeout
  fin,        \* the finalizing threads
  todo,       \* rows the sweep read and has not handled yet
  (* ghosts *)
  ran,        \* how many times the action was carried out
  faults      \* faults so far

db   == <<status, ttl, stored, allow, approver>>
mem  == <<caller, toPost, outcome, resolver, timer, fin, todo>>
vars == <<status, ttl, stored, allow, approver, card, alerted,
          caller, toPost, outcome, resolver, timer, fin, todo, ran, faults>>

CallerPc == {"idle", "insert", "list", "post", "await", "waiting",
             "waived", "queued", "returned", "failed", "lost"}
Ended    == {"idle", "waived", "queued", "returned", "failed", "lost"}
FinPc    == {"idle", "authorize", "update", "settle", "edit", "check",
             "grant", "execute", "report", "regret", "alert"}
CardText == {"none", "open", "orphaned", "done", "failed"} \union Decided

Thread == [pc : FinPc, a : Approval, verdict : Decided,
           all : BOOLEAN, note : BOOLEAN,
           read : SUBSET People,    \* approvalMessageIds when decide() read it
           ids : SUBSET People]     \* and as the UPDATE returned it

(* Everything a variable may hold.                                         *)
TypeOK == /\ status \in [Approval -> Status]
          /\ ttl \subseteq Approval
          /\ stored \in [Approval -> SUBSET People]
          /\ allow \in [Subject -> Nat]
          /\ approver \subseteq People
          /\ card \in [Approval -> [People -> CardText]]
          /\ alerted \subseteq Approval
          /\ caller \in [Approval -> CallerPc]
          /\ toPost \in [Approval -> SUBSET People]
          /\ outcome \in [Approval -> {"none"} \union Decided]
          /\ resolver \subseteq Approval
          /\ timer \subseteq Approval
          /\ fin \in [Finalizer -> Thread]
          /\ todo \subseteq Approval
          /\ ran \in [Approval -> Nat]
          /\ faults \in Nat

(* A thread that is doing nothing; its other fields are immaterial.        *)
Idle == [pc |-> "idle", a |-> CHOOSE a \in Approval : TRUE,
         verdict |-> "expired", all |-> FALSE, note |-> FALSE,
         read |-> {}, ids |-> {}]

Init == /\ status = [a \in Approval |-> "none"]
        /\ ttl = {}
        /\ stored = [a \in Approval |-> {}]
        /\ allow = [s \in Subject |-> 0]
        /\ approver = People
        /\ card = [a \in Approval |-> [p \in People |-> "none"]]
        /\ alerted = {}
        /\ caller = [a \in Approval |-> "idle"]
        /\ toPost = [a \in Approval |-> {}]
        /\ outcome = [a \in Approval |-> "none"]
        /\ resolver = {}
        /\ timer = {}
        /\ fin = [f \in Finalizer |-> Idle]
        /\ todo = {}
        /\ ran = [a \in Approval |-> 0]
        /\ faults = 0

Fault   == faults < MaxFaults /\ faults' = faults + 1
NoFault == UNCHANGED faults

-----------------------------------------------------------------------------
(* The caller: the gate, createApproval and awaitDecision.                 *)

goto(a, pc) == caller' = [caller EXCEPT ![a] = pc]

perform(a) == ran' = [ran EXCEPT ![a] = @ + 1]

(* A standing allowance lets the action run inline.                        *)
Waive(a) == /\ caller[a] = "idle"
            /\ allow[SubjectOf[a]] > 0
            /\ goto(a, "waived")
            /\ perform(a)
            /\ UNCHANGED <<db, card, alerted, toPost, outcome, resolver, timer,
                           fin, todo, faults>>

(* No allowance, or its lookup failed: a tool call or a command then asks, *)
(* a message fails closed.  createApproval registers the resolver first.   *)
Ask(a) == /\ caller[a] = "idle"
          /\ \/ /\ allow[SubjectOf[a]] = 0
                /\ NoFault
             \/ /\ Kind[a] # "user_request"
                /\ Fault
          /\ goto(a, "insert")
          /\ resolver' = resolver \union {a}
          /\ UNCHANGED <<db, card, alerted, toPost, outcome, timer, fin, todo,
                         ran>>

InsertRow(a) == /\ caller[a] = "insert"
                /\ goto(a, "list")
                /\ status' = [status EXCEPT ![a] = "pending"]
                /\ UNCHANGED <<ttl, stored, allow, approver, card, alerted,
                               toPost, outcome, resolver, timer, fin, todo,
                               ran, faults>>

ListApprovers(a) == /\ caller[a] = "list"
                    /\ goto(a, "post")
                    /\ toPost' = [toPost EXCEPT ![a] = approver]
                    /\ UNCHANGED <<db, card, alerted, outcome, resolver, timer,
                                   fin, todo, ran, faults>>

(* One card at a time; a failed send is logged and skipped.                *)
PostCard(a, p) ==
  /\ caller[a] = "post"
  /\ p \in toPost[a]
  /\ toPost' = [toPost EXCEPT ![a] = @ \ {p}]
  /\ \/ /\ card' = [card EXCEPT ![a][p] = "open"]
        /\ NoFault
     \/ /\ UNCHANGED card
        /\ Fault
  /\ UNCHANGED <<db, alerted, caller, outcome, resolver, timer, fin, todo, ran>>

(* The ids of the cards that were delivered are written to the row.        *)
StoreIds(a) ==
  /\ caller[a] = "post"
  /\ toPost[a] = {}
  /\ stored' = [stored EXCEPT ![a] = {p \in People : card[a][p] # "none"}]
  /\ goto(a, IF Blocking(a) THEN "await" ELSE "queued")
  /\ UNCHANGED <<status, ttl, allow, approver, card, alerted, toPost, outcome,
                 resolver, timer, fin, todo, ran, faults>>

(* awaitDecision takes the entry of the map, or registers a new one, and   *)
(* arms its timeout.                                                       *)
AwaitDecision(a) == /\ caller[a] = "await"
                    /\ goto(a, "waiting")
                    /\ resolver' = resolver \union {a}
                    /\ timer' = timer \union {a}
                    /\ UNCHANGED <<db, card, alerted, toPost, outcome, fin,
                                   todo, ran, faults>>

(* The promise resolved: an approved action runs, any other is blocked.    *)
Resume(a) == /\ caller[a] = "waiting"
             /\ outcome[a] # "none"
             /\ goto(a, "returned")
             /\ IF outcome[a] = "approved" THEN perform(a) ELSE UNCHANGED ran
             /\ UNCHANGED <<db, card, alerted, toPost, outcome, resolver, timer,
                            fin, todo, faults>>

(* A database error in the gate: the caller fails closed; what it already  *)
(* did (the resolver, the row, the cards) stays.                           *)
CallerFails(a) ==
  /\ \/ caller[a] = "idle" /\ Kind[a] = "user_request"
     \/ caller[a] \in {"insert", "list"}
     \/ caller[a] = "post" /\ toPost[a] = {} /\ \E p \in People : card[a][p] # "none"
  /\ Fault
  /\ goto(a, "failed")
  /\ UNCHANGED <<db, card, alerted, toPost, outcome, resolver, timer, fin,
                 todo, ran>>

-----------------------------------------------------------------------------
(* The finalizers: decide, decideFromDashboard, the timer and the sweep.   *)

at(f, pc)  == fin[f].pc = pc
step(f, pc) == fin' = [fin EXCEPT ![f].pc = pc]
stop(f)     == fin' = [fin EXCEPT ![f] = Idle]

begin(f, a, pc, verdict, all, note) ==
  fin' = [fin EXCEPT ![f] = [pc |-> pc, a |-> a, verdict |-> verdict, all |-> all,
                             note |-> note, read |-> stored[a], ids |-> {}]]

(* Mutant: the action itself is stored as the status.                      *)
verdictOf_Raw(act) == act

verdictOf(act) == IF act = "deny" THEN "denied" ELSE "approved"

(* Mutants: the lost waiter is overlooked; every waiter passes for lost.    *)
orphaned_Overlooked(a, verdict) == FALSE
orphaned_Always(a, verdict) == verdict = "approved" /\ Blocking(a)

(* No waiter in memory for an approved action that needs one.              *)
orphaned(a, verdict) == /\ verdict = "approved"
                        /\ Blocking(a)
                        /\ a \notin resolver

(* decide() reads a pending row; a card is needed to tap one.              *)
Tap(p, a, act) == /\ at(p, "idle")
                  /\ card[a][p] = "open"
                  /\ status[a] = "pending"
                  /\ begin(p, a, "authorize", verdictOf(act), act = "allowall", FALSE)
                  /\ UNCHANGED <<db, card, alerted, caller, toPost, outcome,
                                 resolver, timer, todo, ran, faults>>

(* Only an approver goes on; whether a waiter is left is looked up here.   *)
Authorize(p) ==
  /\ at(p, "authorize")
  /\ IF p \in approver
     THEN fin' = [fin EXCEPT ![p].pc = "update",
                             ![p].note = orphaned(fin[p].a, fin[p].verdict)]
     ELSE stop(p)
  /\ UNCHANGED <<db, card, alerted, caller, toPost, outcome, resolver, timer,
                 todo, ran, faults>>

(* decideFromDashboard(): authorized by its tenant alone.                  *)
Click(d, a, act) ==
  /\ at(d, "idle")
  /\ status[a] = "pending"
  /\ begin(d, a, "update", verdictOf(act), act = "allowall",
           orphaned(a, verdictOf(act)))
  /\ UNCHANGED <<db, card, alerted, caller, toPost, outcome, resolver, timer,
                 todo, ran, faults>>

TimerFires(a) == /\ a \in timer \intersect ttl
                 /\ at(a, "idle")
                 /\ timer' = timer \ {a}
                 /\ begin(a, a, "update", "expired", FALSE, FALSE)
                 /\ UNCHANGED <<db, card, alerted, caller, toPost, outcome,
                                resolver, todo, ran, faults>>

(* Mutant: the sweep leaves blocking approvals to their timers.            *)
stale_ToolCallsOnly == {a \in ttl : status[a] = "pending" /\ ~Blocking(a)}

stale == {a \in ttl : status[a] = "pending"}

(* The sweep reads the stale rows once, then finalizes them one by one.    *)
SweepReads == /\ at(Sweep, "idle")
              /\ todo = {}
              /\ todo' = stale
              /\ todo' # {}
              /\ UNCHANGED <<db, card, alerted, caller, toPost, outcome,
                             resolver, timer, fin, ran, faults>>

SweepTakes(a) == /\ at(Sweep, "idle")
                 /\ a \in todo
                 /\ todo' = todo \ {a}
                 /\ begin(Sweep, a, "update", "expired", FALSE, FALSE)
                 /\ UNCHANGED <<db, card, alerted, caller, toPost, outcome,
                                resolver, timer, ran, faults>>

(* Mutant: an UPDATE without its condition on the status.                  *)
stillPending_Unchecked(a) == TRUE

stillPending(a) == status[a] = "pending"

(* Mutant: cards that were sent are taken for cards that were stored.      *)
knownCards_Sent(a) == {p \in People : card[a][p] # "none"}

knownCards(a) == stored[a]

(* The conditional UPDATE of finalizeApproval: the row is still pending,   *)
(* or somebody else was first.                                             *)
Finalize(f) ==
  LET a == fin[f].a
  IN  /\ at(f, "update")
      /\ IF stillPending(a)
         THEN /\ status' = [status EXCEPT ![a] = fin[f].verdict]
              /\ fin' = [fin EXCEPT ![f].pc = "settle", ![f].ids = knownCards(a)]
         ELSE /\ stop(f)
              /\ UNCHANGED status
      /\ UNCHANGED <<ttl, stored, allow, approver, card, alerted, caller,
                     toPost, outcome, resolver, timer, todo, ran, faults>>

(* The winner clears the timeout, resolves the promise (which only a       *)
(* caller that already awaits it can see) and forgets the entry.           *)
Settle(f) ==
  LET a == fin[f].a
  IN  /\ at(f, "settle")
      /\ outcome' = IF caller[a] = "waiting" /\ a \in resolver
                    THEN [outcome EXCEPT ![a] = fin[f].verdict]
                    ELSE outcome
      /\ timer' = IF a \in resolver THEN timer \ {a} ELSE timer
      /\ resolver' = resolver \ {a}
      /\ step(f, "edit")
      /\ UNCHANGED <<db, card, alerted, caller, toPost, todo, ran, faults>>

(* Editing cards is best effort.                                           *)
editCards(a, ps, text) ==
  \E done \in SUBSET ps :
     /\ IF done = ps THEN NoFault ELSE Fault
     /\ card' = [card EXCEPT ![a] =
                    [p \in People |-> IF p \in done THEN text ELSE @[p]]]

(* Mutant: the verdict is not looked at before a tool call is executed.    *)
afterEdit_AnyVerdict(f) ==
  CASE fin[f].all -> "check"
    [] ~fin[f].all /\ ~Blocking(fin[f].a) -> "execute"
    [] OTHER -> "idle"

(* What a winner does after its edits.                                     *)
afterEdit(f) ==
  CASE fin[f].verdict = "approved" /\ fin[f].all -> "check"
    [] fin[f].verdict = "approved" /\ ~fin[f].all /\ ~Blocking(fin[f].a) -> "execute"
    [] f = Sweep /\ ~Blocking(fin[f].a) -> "alert"
    [] OTHER -> "idle"

next(f, pc) == IF pc = "idle" THEN stop(f) ELSE step(f, pc)

EditCards(f) ==
  /\ at(f, "edit")
  /\ editCards(fin[f].a, fin[f].ids,
               IF fin[f].note THEN "orphaned" ELSE fin[f].verdict)
  /\ next(f, afterEdit(f))
  /\ UNCHANGED <<db, alerted, caller, toPost, outcome, resolver, timer, todo,
                 ran>>

-----------------------------------------------------------------------------
(* "Allow always", the out-of-band execution, and the sweep's alert.       *)

(* Mutant: "Allow always" forgets the call it was tapped on.               *)
afterGrant_Forgets(f) == "idle"

afterGrant(f) == IF Blocking(fin[f].a) THEN "idle" ELSE "execute"

(* grantAllowance: an active row is looked for, and inserted if missing.   *)
CheckAllowance(f) ==
  /\ at(f, "check")
  /\ next(f, IF allow[SubjectOf[fin[f].a]] > 0 THEN afterGrant(f) ELSE "grant")
  /\ UNCHANGED <<db, card, alerted, caller, toPost, outcome, resolver, timer,
                 todo, ran, faults>>

GrantAllowance(f) ==
  /\ at(f, "grant")
  /\ allow' = [allow EXCEPT ![SubjectOf[fin[f].a]] = @ + 1]
  /\ next(f, afterGrant(f))
  /\ UNCHANGED <<status, ttl, stored, approver, card, alerted, caller, toPost,
                 outcome, resolver, timer, todo, ran, faults>>

(* The approved tool runs.  If it fails it throws, before its effect or    *)
(* after, or returns an error as its result; without a runtime to run it   *)
(* nothing is reported at all.                                             *)
RunApprovedToolCall(f) ==
  /\ at(f, "execute")
  /\ \/ perform(fin[f].a) /\ step(f, "report") /\ NoFault
     \/ UNCHANGED ran /\ step(f, "report") /\ Fault
     \/ (perform(fin[f].a) \/ UNCHANGED ran) /\ step(f, "regret") /\ Fault
     \/ UNCHANGED ran /\ stop(f) /\ Fault
  /\ UNCHANGED <<db, card, alerted, caller, toPost, outcome, resolver, timer,
                 todo>>

(* Whatever the tool returned passes for done.                             *)
ReportOutcome(f) ==
  /\ fin[f].pc \in {"report", "regret"}
  /\ editCards(fin[f].a, fin[f].read, IF at(f, "report") THEN "done" ELSE "failed")
  /\ stop(f)
  /\ UNCHANGED <<db, alerted, caller, toPost, outcome, resolver, timer, todo,
                 ran>>

(* "This was NOT sent": an expired tool call is announced afresh.          *)
NotifyApproversExpired(f) ==
  /\ at(f, "alert")
  /\ alerted' = alerted \union {fin[f].a}
  /\ stop(f)
  /\ UNCHANGED <<db, card, caller, toPost, outcome, resolver, timer, todo, ran,
                 faults>>

(* A database error in a finalizer abandons everything it still had to do. *)
FinalizerFails(f) ==
  /\ fin[f].pc \in {"authorize", "update", "check", "grant", "alert"}
  /\ Fault
  /\ stop(f)
  /\ UNCHANGED <<db, card, alerted, caller, toPost, outcome, resolver, timer,
                 todo, ran>>

-----------------------------------------------------------------------------
(* The world around the gateway.                                           *)

TtlElapses(a) == /\ status[a] # "none"
                 /\ a \notin ttl
                 /\ ttl' = ttl \union {a}
                 /\ UNCHANGED <<status, stored, allow, approver, card, alerted,
                                mem, ran, faults>>

(* An admin revokes one allowance row, or sets or clears is_approver.      *)
RevokeAllowance(s) == /\ allow[s] > 0
                      /\ allow' = [allow EXCEPT ![s] = @ - 1]
                      /\ UNCHANGED <<status, ttl, stored, approver, card,
                                     alerted, mem, ran, faults>>

SetApprover(p) == /\ approver' = IF p \in approver THEN approver \ {p}
                                ELSE approver \union {p}
                  /\ UNCHANGED <<status, ttl, stored, allow, card, alerted, mem,
                                 ran, faults>>

(* The gateway restarts: what it held in memory is gone.                   *)
Restart == /\ Fault
           /\ caller' = [a \in Approval |-> IF caller[a] \in Ended
                                            THEN caller[a] ELSE "lost"]
           /\ toPost' = [a \in Approval |-> {}]
           /\ resolver' = {}
           /\ timer' = {}
           /\ fin' = [f \in Finalizer |-> Idle]
           /\ todo' = {}
           /\ UNCHANGED <<db, card, alerted, outcome, ran>>

-----------------------------------------------------------------------------
Gate(a) == \/ Waive(a) \/ Ask(a)

CallerStep(a) == \/ InsertRow(a) \/ ListApprovers(a) \/ StoreIds(a)
                 \/ AwaitDecision(a) \/ Resume(a)
                 \/ \E p \in People : PostCard(a, p)

FinalizerStep(f) == \/ f \in People /\ Authorize(f)
                    \/ Finalize(f) \/ Settle(f) \/ EditCards(f)
                    \/ CheckAllowance(f) \/ GrantAllowance(f)
                    \/ RunApprovedToolCall(f) \/ ReportOutcome(f)
                    \/ NotifyApproversExpired(f)

SweepStep == SweepReads \/ \E a \in Approval : SweepTakes(a)

Next == \/ \E a \in Approval : \/ Gate(a) \/ CallerStep(a) \/ CallerFails(a)
                              \/ TtlElapses(a) \/ TimerFires(a)
        \/ \E a \in Approval, act \in Action :
              \/ \E p \in People : Tap(p, a, act)
              \/ \E d \in Dashboard : Click(d, a, act)
        \/ \E f \in Finalizer : FinalizerStep(f) \/ FinalizerFails(f)
        \/ SweepStep
        \/ \E s \in Subject : RevokeAllowance(s)
        \/ \E p \in People : SetApprover(p)
        \/ Restart

Spec == Init /\ [][Next]_vars

(* Whatever the process has begun it goes on with, clocks advance and the  *)
(* sweep runs every minute; people need not ask, answer or revoke anything *)
(* and nothing has to fail.                                                *)
FairSpec == /\ Spec
            /\ \A a \in Approval : /\ WF_vars(CallerStep(a))
                                   /\ WF_vars(TtlElapses(a))
                                   /\ WF_vars(TimerFires(a))
            /\ \A f \in Finalizer : WF_vars(FinalizerStep(f))
            /\ WF_vars(SweepStep)

-----------------------------------------------------------------------------
(* Safety.                                                                 *)

(* No action is carried out twice, however its approvers, its timer, the   *)
(* sweep and restarts interleave: the conditional UPDATE of                *)
(* finalizeApproval elects one winner, and only that winner (a tool call)  *)
(* or the waiter it wakes (a command, a message) runs the action.          *)
AtMostOnce == \A a \in Approval : ran[a] <= 1

(* An action is carried out only with a verdict "approved" in its row, or  *)
(* because a standing allowance let it through at the gate.                *)
SanctionedRun ==
  \A a \in Approval : ran[a] > 0 => status[a] = "approved" \/ caller[a] = "waived"

(* What the waiter is told is what the row says: no thread resolves a      *)
(* promise with a verdict that lost the race for the row.                  *)
OutcomeIsVerdict ==
  \A a \in Approval : outcome[a] # "none" => outcome[a] = status[a]

(* A card never tells an approver something the row or the action          *)
(* contradicts, including the second edit with the result of a tool call;  *)
(* but a failing tool may pass for done, by an error that it returns.      *)
CardTruth ==
  \A a \in Approval, p \in People :
    LET text == card[a][p]
    IN  /\ text \in Decided => status[a] = text
        /\ text \in {"orphaned", "done", "failed"} => status[a] = "approved"
        /\ text = "done" => ran[a] = 1 \/ faults > 0
        /\ text = "orphaned" => ran[a] = 0

(* "Could not run automatically, please ask again" is only said of a       *)
(* caller that a restart took away: asking again cannot run it twice.      *)
NoteIsTrue == \A a \in Approval, p \in People :
                card[a][p] = "orphaned" => caller[a] = "lost"

(* "Don't render a bare Approved that misleads the approver": of a command *)
(* or message that was approved, no card is edited after the restart that  *)
(* took its waiter but to say that it could not run.                       *)
LostCardsAreNoted ==
  [][\A a \in Approval, p \in People :
       /\ Blocking(a) /\ caller[a] = "lost" /\ status[a] = "approved"
       /\ card'[a][p] # card[a][p]
       => card'[a][p] = "orphaned"]_vars

(* Nor does a card say "Approved" of a caller that failed closed after it  *)
(* had inserted its row.                                                   *)
NoBareApproval ==
  \A a \in Approval, p \in People :
    Blocking(a) /\ card[a][p] = "approved" => caller[a] # "failed"

(* "This was NOT sent and still needs you": an expired tool call that is   *)
(* announced to the approvers was not and will not be executed.            *)
AlertIsTrue == \A a \in alerted : status[a] = "expired" /\ ran[a] = 0

(* The workflow implements its contract.                                   *)
phase == [a \in Approval |-> IF caller[a] = "waived" THEN "waived" ELSE status[a]]

Contract == INSTANCE ApprovalContract WITH performed <- ran

ImplementsContract == Contract!Spec

-----------------------------------------------------------------------------
(* Liveness, under FairSpec.                                               *)

(* No row stays pending for ever: a tap, the timer or the sweep ends it,   *)
(* even when faults hit the finalizers or the process restarts.            *)
EveryRowIsDecided ==
  \A a \in Approval : status[a] = "pending" ~> status[a] \in Decided

(* A caller that begins to wait while its row is still pending comes back. *)
TimelyWaiterReturns ==
  \A a \in Approval : caller[a] = "waiting" /\ status[a] = "pending"
                      ~> caller[a] # "waiting"

(* When nothing fails, an approved tool call is executed.                  *)
ApprovedToolRuns ==
  \A a \in Approval : ~Blocking(a) /\ status[a] = "approved"
                      ~> ran[a] = 1 \/ faults > 0

-----------------------------------------------------------------------------
(* What the comments of the code promise and the code does not keep.       *)

(* approval-service.ts:336-337 "Resolve once a decide() call lands": a     *)
(* waiter whose row a person decided comes back.                           *)
DecisionWakesWaiter ==
  \A a \in Approval : caller[a] = "waiting" /\ status[a] \in {"approved", "denied"}
                      ~> caller[a] # "waiting"
=============================================================================

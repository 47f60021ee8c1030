--------------------------- MODULE ApprovalsProofs ---------------------------
(***************************************************************************)
(* Proofs about Approvals for any number of actions, approvers, admins and *)
(* faults: an action is carried out at most once and only with a sanction, *)
(* and the workflow implements ApprovalContract.                           *)
(***************************************************************************)
EXTENDS Approvals, TLAPS

(* A thread that won the race for its row.                                 *)
Won == {"settle", "edit", "check", "grant", "execute", "report", "regret", "alert"}

(* The verdict of a winner is the verdict in the row.                      *)
WinnerVerdict == \A f \in Finalizer :
                   fin[f].pc \in Won => status[fin[f].a] = fin[f].verdict

(* A row has one winner.                                                   *)
OneWinner == \A f, g \in Finalizer :
               /\ fin[f].pc \in Won
               /\ fin[g].pc \in Won
               /\ fin[f].a = fin[g].a
               => f = g

(* Only the winner of an approved tool call executes.                      *)
Executor == \A f \in Finalizer :
              /\ fin[f].pc \in {"check", "grant", "execute", "report", "regret"}
                 => fin[f].verdict = "approved"
              /\ fin[f].pc \in {"execute", "report", "regret"} => ~Blocking(fin[f].a)

(* Until it executes, its tool call has not run.                           *)
NotYetRun == \A f \in Finalizer :
               /\ fin[f].pc \in Won \ {"report", "regret"}
               /\ ~Blocking(fin[f].a)
               => ran[fin[f].a] = 0

(* A blocking action is carried out by its caller.                         *)
CallerRuns == \A a \in Approval :
                /\ Blocking(a) /\ ran[a] > 0 => caller[a] \in {"waived", "returned"}
                /\ caller[a] \in {"await", "waiting"} => Blocking(a)

(* A caller that has not inserted its row has none.                        *)
NoRowYet == \A a \in Approval :
              caller[a] \in {"idle", "insert", "waived"} => status[a] = "none"

ThreadInv == WinnerVerdict /\ OneWinner /\ Executor /\ NotYetRun

CallerInv == /\ CallerRuns
             /\ NoRowYet
             /\ OutcomeIsVerdict
             /\ SanctionedRun
             /\ AtMostOnce

(* The inductive invariant.                                                *)
IInv == TypeOK /\ ThreadInv /\ CallerInv

-----------------------------------------------------------------------------
(* An idle thread is a thread.                                             *)
LEMMA IdleIsThread == Idle \in Thread /\ Idle.pc = "idle"
BY ConstantsOK DEF ConstantsOK, Idle, Thread, FinPc, Decided

(* The initial state satisfies the inductive invariant.                    *)
LEMMA InitIInv == Init => IInv
<1> SUFFICES ASSUME Init PROVE IInv
  OBVIOUS
<1>1. TypeOK
  BY IdleIsThread, ConstantsOK DEF ConstantsOK, Init, TypeOK, Status, CallerPc,
      CardText
<1>2. /\ WinnerVerdict /\ OneWinner /\ Executor /\ NotYetRun
  BY IdleIsThread DEF Init, WinnerVerdict, OneWinner, Executor, NotYetRun, Won
<1>3. CallerRuns /\ NoRowYet /\ OutcomeIsVerdict /\ SanctionedRun /\ AtMostOnce
  BY DEF Init, CallerRuns, NoRowYet, OutcomeIsVerdict, SanctionedRun, AtMostOnce
<1> QED
  BY <1>1, <1>2, <1>3 DEF IInv, ThreadInv, CallerInv

(* A thread that advances or stops is still a thread.                      *)
LEMMA ThreadMoves ==
  ASSUME NEW f \in Finalizer, NEW pc \in FinPc, fin \in [Finalizer -> Thread],
         step(f, pc) \/ stop(f)
  PROVE  fin' \in [Finalizer -> Thread]
<1>1. CASE step(f, pc)
  BY <1>1 DEF step, Thread
<1>2. CASE stop(f)
  BY <1>2, IdleIsThread DEF stop
<1> QED
  BY <1>1, <1>2

(* The fields a handler sets on its way.                                   *)
LEMMA ThreadFields ==
  ASSUME NEW t \in Thread, NEW note \in BOOLEAN, NEW ids \in SUBSET People
  PROVE  /\ [t EXCEPT !.pc = "update", !.note = note] \in Thread
         /\ [t EXCEPT !.pc = "settle", !.ids = ids] \in Thread
BY DEF Thread, FinPc

(* A thread that begins is a thread.                                       *)
LEMMA ThreadBegins ==
  ASSUME NEW f \in Finalizer, NEW a \in Approval, NEW pc \in FinPc,
         NEW verdict \in Decided, NEW all \in BOOLEAN, NEW note \in BOOLEAN,
         fin \in [Finalizer -> Thread], stored \in [Approval -> SUBSET People],
         begin(f, a, pc, verdict, all, note)
  PROVE  fin' \in [Finalizer -> Thread]
BY DEF begin, Thread

(* Counting keeps a counter a counter.                                     *)
LEMMA Counts ==
  ASSUME NEW S, NEW a \in S, NEW c \in [S -> Nat]
  PROVE  [c EXCEPT ![a] = @ + 1] \in [S -> Nat]
OBVIOUS

(* Carrying an action out, or not, keeps the counters' type.               *)
LEMMA Performs ==
  ASSUME NEW a \in Approval, ran \in [Approval -> Nat], perform(a) \/ UNCHANGED ran
  PROVE  ran' \in [Approval -> Nat]
<1>1. CASE perform(a)
  BY <1>1 DEF perform
<1>2. CASE UNCHANGED ran
  BY <1>2
<1> QED
  BY <1>1, <1>2

(* A fault, or none, keeps the fault count's type.                         *)
LEMMA Faults ==
  ASSUME faults \in Nat, Fault \/ NoFault
  PROVE  faults' \in Nat
BY DEF Fault, NoFault

(* Editing cards leaves cards.                                             *)
LEMMA EditsCards ==
  ASSUME NEW a \in Approval, NEW ps, NEW text \in CardText, faults \in Nat,
         card \in [Approval -> [People -> CardText]], editCards(a, ps, text)
  PROVE  card' \in [Approval -> [People -> CardText]] /\ faults' \in Nat
<1>1. PICK done \in SUBSET ps :
         /\ faults' = faults \/ faults' = faults + 1
         /\ card' = [card EXCEPT ![a] =
                       [p \in People |-> IF p \in done THEN text ELSE @[p]]]
  BY DEF editCards, Fault, NoFault
<1> QED
  BY <1>1

(* Every step keeps the types.                                             *)
LEMMA NextTypeOK == TypeOK /\ [Next]_vars => TypeOK'
<1> SUFFICES ASSUME TypeOK, [Next]_vars PROVE TypeOK'
  OBVIOUS
<1> USE ConstantsOK DEF ConstantsOK, TypeOK
<1>1. ASSUME NEW a \in Approval, Waive(a) PROVE TypeOK'
  BY <1>1 DEF Waive, goto, perform, db, CallerPc
<1>2. ASSUME NEW a \in Approval, Ask(a) PROVE TypeOK'
  BY <1>2 DEF Ask, goto, Fault, NoFault, db, CallerPc
<1>3. ASSUME NEW a \in Approval, InsertRow(a) PROVE TypeOK'
  BY <1>3 DEF InsertRow, goto, CallerPc, Status
<1>4. ASSUME NEW a \in Approval, ListApprovers(a) PROVE TypeOK'
  BY <1>4 DEF ListApprovers, goto, db, CallerPc
<1>5. ASSUME NEW a \in Approval, NEW p \in People, PostCard(a, p)
     PROVE  TypeOK'
  <2>1. card' \in [Approval -> [People -> CardText]] /\ faults' \in Nat
    <3>1. [card EXCEPT ![a][p] = "open"] \in [Approval -> [People -> CardText]]
      BY DEF CardText
    <3> QED
      BY <1>5, <3>1, Faults DEF PostCard
  <2>2. toPost' \in [Approval -> SUBSET People]
    BY <1>5 DEF PostCard
  <2> QED
    BY <1>5, <2>1, <2>2 DEF PostCard, db
<1>6. ASSUME NEW a \in Approval, StoreIds(a) PROVE TypeOK'
  <2>1. stored' \in [Approval -> SUBSET People]
    BY <1>6 DEF StoreIds
  <2>2. caller' \in [Approval -> CallerPc]
    BY <1>6 DEF StoreIds, goto, CallerPc
  <2> QED
    BY <1>6, <2>1, <2>2 DEF StoreIds
<1>7. ASSUME NEW a \in Approval, AwaitDecision(a) PROVE TypeOK'
  BY <1>7 DEF AwaitDecision, goto, db, CallerPc
<1>8. ASSUME NEW a \in Approval, Resume(a) PROVE TypeOK'
  <2>1. ran' \in [Approval -> Nat]
    BY <1>8, Performs DEF Resume
  <2>2. caller' \in [Approval -> CallerPc]
    BY <1>8 DEF Resume, goto, CallerPc
  <2> QED
    BY <1>8, <2>1, <2>2 DEF Resume, db
<1>9. ASSUME NEW a \in Approval, CallerFails(a) PROVE TypeOK'
  <2>1. caller' \in [Approval -> CallerPc] /\ faults' \in Nat
    BY <1>9 DEF CallerFails, goto, Fault, CallerPc
  <2> QED
    BY <1>9, <2>1 DEF CallerFails, db
<1>10. ASSUME NEW a \in Approval, TtlElapses(a) PROVE TypeOK'
  BY <1>10 DEF TtlElapses, mem
<1>11. ASSUME NEW a \in Approval, TimerFires(a) PROVE TypeOK'
  <2>1. a \in Finalizer
    BY DEF Finalizer
  <2>2. fin' \in [Finalizer -> Thread]
    BY <1>11, <2>1, ThreadBegins DEF TimerFires, FinPc, Decided
  <2> QED
    BY <1>11, <2>2 DEF TimerFires, db
<1>12. ASSUME NEW a \in Approval, SweepTakes(a) PROVE TypeOK'
  <2>1. Sweep \in Finalizer
    BY DEF Finalizer
  <2>2. fin' \in [Finalizer -> Thread]
    BY <1>12, <2>1, ThreadBegins DEF SweepTakes, FinPc, Decided
  <2> QED
    BY <1>12, <2>2 DEF SweepTakes, db
<1>13. ASSUME NEW a \in Approval, NEW act \in Action, NEW p \in People, Tap(p, a,
             act)
      PROVE  TypeOK'
  <2>1. p \in Finalizer
    BY DEF Finalizer, Actor
  <2>2. /\ verdictOf(act) \in Decided
        /\ (act = "allowall") \in BOOLEAN
        /\ orphaned(a, verdictOf(act)) \in BOOLEAN
    BY DEF verdictOf, Decided, orphaned
  <2>3. fin' \in [Finalizer -> Thread]
    BY <1>13, <2>1, <2>2, ThreadBegins DEF Tap, FinPc
  <2> QED
    BY <1>13, <2>3 DEF Tap, db
<1>14. ASSUME NEW a \in Approval, NEW act \in Action, NEW d \in Dashboard,
             Click(d, a, act)
      PROVE  TypeOK'
  <2>1. d \in Finalizer
    BY DEF Finalizer, Actor
  <2>2. /\ verdictOf(act) \in Decided
        /\ (act = "allowall") \in BOOLEAN
        /\ orphaned(a, verdictOf(act)) \in BOOLEAN
    BY DEF verdictOf, Decided, orphaned
  <2>3. fin' \in [Finalizer -> Thread]
    BY <1>14, <2>1, <2>2 DEF Click, begin, Thread, FinPc
  <2> QED
    BY <1>14, <2>3 DEF Click, db
<1>15. ASSUME NEW f \in Finalizer, Authorize(f) PROVE TypeOK'
  <2>1. orphaned(fin[f].a, fin[f].verdict) \in BOOLEAN
    BY DEF orphaned
  <2>2. fin' \in [Finalizer -> Thread]
    <3>1. CASE f \in approver
      <4>1. fin' = [fin EXCEPT ![f] = [@ EXCEPT !.pc = "update",
                                 !.note = orphaned(fin[f].a, fin[f].verdict)]]
        BY <1>15, <3>1 DEF Authorize
      <4>2. [fin[f] EXCEPT !.pc = "update",
                           !.note = orphaned(fin[f].a, fin[f].verdict)] \in Thread
        BY <2>1, ThreadFields
      <4> QED
        BY <4>1, <4>2
    <3>2. CASE f \notin approver
      BY <1>15, <3>2, IdleIsThread DEF Authorize, stop
    <3> QED
      BY <3>1, <3>2
  <2> QED
    BY <1>15, <2>2 DEF Authorize, db
<1>16. ASSUME NEW f \in Finalizer, FinalizerFails(f) PROVE TypeOK'
  <2>1. fin' \in [Finalizer -> Thread] /\ faults' \in Nat
    BY <1>16, IdleIsThread DEF FinalizerFails, Fault, stop
  <2> QED
    BY <1>16, <2>1 DEF FinalizerFails, db
<1>17. ASSUME NEW f \in Finalizer, Finalize(f) PROVE TypeOK'
  <2>1. fin' \in [Finalizer -> Thread]
    <3>1. CASE status[fin[f].a] = "pending"
      <4>1. stored[fin[f].a] \in SUBSET People
        BY DEF Thread
      <4>2. fin' = [fin EXCEPT ![f] = [@ EXCEPT !.pc = "settle",
                                 !.ids = stored[fin[f].a]]]
        BY <1>17, <3>1 DEF Finalize, stillPending, knownCards
      <4>3. [fin[f] EXCEPT !.pc = "settle", !.ids = stored[fin[f].a]] \in Thread
        BY <4>1, ThreadFields
      <4> QED
        BY <4>2, <4>3
    <3>2. CASE status[fin[f].a] # "pending"
      BY <1>17, <3>2, IdleIsThread DEF Finalize, stillPending, stop
    <3> QED
      BY <3>1, <3>2
  <2>2. status' \in [Approval -> Status]
    BY <1>17 DEF Finalize, stillPending, Thread, Status
  <2> QED
    BY <1>17, <2>1, <2>2 DEF Finalize, stillPending
<1>18. ASSUME NEW f \in Finalizer, Settle(f) PROVE TypeOK'
  <2>1. fin' \in [Finalizer -> Thread]
    BY <1>18, ThreadMoves DEF Settle, FinPc
  <2>2. outcome' \in [Approval -> {"none"} \union Decided]
    BY <1>18 DEF Settle, Thread
  <2> QED
    BY <1>18, <2>1, <2>2 DEF Settle, db
<1>19. ASSUME NEW f \in Finalizer, EditCards(f) PROVE TypeOK'
  <2>1. afterEdit(f) \in FinPc
    BY DEF afterEdit, FinPc
  <2>2. fin' \in [Finalizer -> Thread]
    BY <1>19, <2>1, ThreadMoves DEF EditCards, next
  <2>3. (IF fin[f].note THEN "orphaned" ELSE fin[f].verdict) \in CardText
    BY DEF Thread, CardText
  <2>4. fin[f].a \in Approval
    BY DEF Thread
  <2>5. card' \in [Approval -> [People -> CardText]] /\ faults' \in Nat
    BY <1>19, <2>3, <2>4, EditsCards DEF EditCards
  <2> QED
    BY <1>19, <2>2, <2>5 DEF EditCards, db
<1>20. ASSUME NEW f \in Finalizer, CheckAllowance(f) PROVE TypeOK'
  <2>1. fin' \in [Finalizer -> Thread]
    BY <1>20, ThreadMoves DEF CheckAllowance, next, afterGrant, FinPc
  <2> QED
    BY <1>20, <2>1 DEF CheckAllowance, db
<1>21. ASSUME NEW f \in Finalizer, GrantAllowance(f) PROVE TypeOK'
  <2>1. fin' \in [Finalizer -> Thread]
    BY <1>21, ThreadMoves DEF GrantAllowance, next, afterGrant, FinPc
  <2>2. allow' \in [Subject -> Nat]
    <3>1. SubjectOf[fin[f].a] \in Subject
      BY DEF Thread
    <3> QED
      BY <1>21, <3>1, Counts DEF GrantAllowance
  <2> QED
    BY <1>21, <2>1, <2>2 DEF GrantAllowance
<1>22. ASSUME NEW f \in Finalizer, RunApprovedToolCall(f) PROVE TypeOK'
  <2>1. fin' \in [Finalizer -> Thread]
    BY <1>22, ThreadMoves DEF RunApprovedToolCall, FinPc
  <2>2. ran' \in [Approval -> Nat] /\ faults' \in Nat
    <3>1. fin[f].a \in Approval
      BY DEF Thread
    <3> QED
      BY <1>22, <3>1, Performs, Faults DEF RunApprovedToolCall
  <2> QED
    BY <1>22, <2>1, <2>2 DEF RunApprovedToolCall, db
<1>23. ASSUME NEW f \in Finalizer, ReportOutcome(f) PROVE TypeOK'
  <2>1. fin' \in [Finalizer -> Thread]
    BY <1>23, ThreadMoves DEF ReportOutcome, FinPc
  <2>2. (IF at(f, "report") THEN "done" ELSE "failed") \in CardText
    BY DEF CardText
  <2>3. fin[f].a \in Approval
    BY DEF Thread
  <2>4. card' \in [Approval -> [People -> CardText]] /\ faults' \in Nat
    BY <1>23, <2>2, <2>3, EditsCards DEF ReportOutcome
  <2> QED
    BY <1>23, <2>1, <2>4 DEF ReportOutcome, db
<1>24. ASSUME NEW f \in Finalizer, NotifyApproversExpired(f) PROVE TypeOK'
  <2>1. fin' \in [Finalizer -> Thread]
    BY <1>24, ThreadMoves DEF NotifyApproversExpired, FinPc
  <2>2. alerted' \subseteq Approval
    BY <1>24 DEF NotifyApproversExpired, Thread
  <2> QED
    BY <1>24, <2>1, <2>2 DEF NotifyApproversExpired, db
<1>25. CASE SweepReads
  BY <1>25 DEF SweepReads, stale, db
<1>26. ASSUME NEW s \in Subject, RevokeAllowance(s) PROVE TypeOK'
  BY <1>26 DEF RevokeAllowance, mem
<1>27. ASSUME NEW p \in People, SetApprover(p) PROVE TypeOK'
  BY <1>27 DEF SetApprover, mem
<1>28. CASE Restart
  <2>1. fin' \in [Finalizer -> Thread] /\ faults' \in Nat
    BY <1>28, IdleIsThread DEF Restart, Fault
  <2>2. caller' \in [Approval -> CallerPc] /\ toPost' \in [Approval -> SUBSET People]
    BY <1>28 DEF Restart, CallerPc
  <2> QED
    BY <1>28, <2>1, <2>2 DEF Restart, db
<1>29. CASE UNCHANGED vars
  BY <1>29 DEF vars
<1> QED
  BY <1>1, <1>2, <1>3, <1>4, <1>5, <1>6, <1>7, <1>8, <1>9, <1>10,
     <1>11, <1>12, <1>13, <1>14, <1>15, <1>16, <1>17, <1>18, <1>19,
     <1>20, <1>21, <1>22, <1>23, <1>24, <1>25, <1>26, <1>27, <1>28,
     <1>29
  DEF Next, Gate, CallerStep, FinalizerStep, SweepStep

(* Every variable keeps its type, whatever the constants.                  *)
THEOREM TypeCorrect == Spec => []TypeOK
<1>1. Init => TypeOK
  BY InitIInv DEF IInv
<1> QED
  BY <1>1, NextTypeOK, PTL DEF Spec

-----------------------------------------------------------------------------
(* The parts of the invariant that a step leaves alone.                    *)

(* The claims about callers read four variables only.                      *)
LEMMA CallersKept ==
  ASSUME CallerInv, UNCHANGED <<status, caller, outcome, ran>>
  PROVE  CallerInv'
BY DEF CallerInv, CallerRuns, NoRowYet, OutcomeIsVerdict, SanctionedRun,
    AtMostOnce

(* The claims about threads read three variables only.                     *)
LEMMA ThreadsKept ==
  ASSUME ThreadInv, UNCHANGED <<status, fin, ran>>
  PROVE  ThreadInv'
BY DEF ThreadInv, WinnerVerdict, OneWinner, Executor, NotYetRun

(* A row with a winner is decided.                                         *)
LEMMA WinnerDecided ==
  ASSUME TypeOK, ThreadInv, NEW f \in Finalizer, fin[f].pc \in Won
  PROVE  fin[f].a \in Approval /\ status[fin[f].a] \in Decided
<1>1. fin[f] \in Thread
  BY DEF TypeOK
<1>2. fin[f].a \in Approval /\ fin[f].verdict \in Decided
  BY <1>1 DEF Thread
<1> QED
  BY <1>2 DEF ThreadInv, WinnerVerdict

(* A thread that has not won, or has finished, claims nothing.             *)
LEMMA ThreadIsNoWinner ==
  ASSUME TypeOK, ThreadInv, NEW f \in Finalizer, NEW t \in Thread, t.pc \notin Won,
         fin' = [fin EXCEPT ![f] = t], UNCHANGED <<status, ran>>
  PROVE  ThreadInv'
<1> USE DEF TypeOK, ThreadInv
<1>1. \A g \in Finalizer : fin'[g] = IF g = f THEN t ELSE fin[g]
  OBVIOUS
<1>2. WinnerVerdict'
  BY <1>1 DEF WinnerVerdict
<1>3. OneWinner'
  BY <1>1 DEF OneWinner
<1>4. Executor'
  BY <1>1 DEF Executor, Won
<1>5. NotYetRun'
  BY <1>1 DEF NotYetRun
<1> QED
  BY <1>2, <1>3, <1>4, <1>5

(* A winner that goes on to its next duty keeps its claims.                *)
LEMMA WinnerGoesOn ==
  ASSUME TypeOK, ThreadInv, NEW f \in Finalizer, NEW pc \in Won \ {"report", "regret"},
         fin[f].pc \in Won \ {"report", "regret"}, step(f, pc),
         pc \in {"check", "grant", "execute"} => fin[f].verdict = "approved",
         pc = "execute" => ~Blocking(fin[f].a),
         UNCHANGED <<status, ran>>
  PROVE  ThreadInv'
<1> USE DEF TypeOK, ThreadInv
<1>1. \A g \in Finalizer : /\ fin'[g].a = fin[g].a
                           /\ fin'[g].verdict = fin[g].verdict
                           /\ fin'[g].pc = IF g = f THEN pc ELSE fin[g].pc
  BY DEF step, Thread
<1>2. WinnerVerdict'
  BY <1>1 DEF WinnerVerdict
<1>3. OneWinner'
  BY <1>1 DEF OneWinner
<1>4. Executor'
  BY <1>1 DEF Executor, Won, Blocking
<1>5. NotYetRun'
  BY <1>1 DEF NotYetRun, Blocking
<1> QED
  BY <1>2, <1>3, <1>4, <1>5

(* What may follow a winner's edits and its grant.                         *)
LEMMA WinnerNext ==
  ASSUME TypeOK, ThreadInv, NEW f \in Finalizer, NEW pc,
         fin[f].pc \in Won \ {"report", "regret"}, next(f, pc),
         pc \in Won \ {"report", "regret"} \/ pc = "idle",
         pc \in {"check", "grant", "execute"} => fin[f].verdict = "approved",
         pc = "execute" => ~Blocking(fin[f].a),
         UNCHANGED <<status, ran>>
  PROVE  ThreadInv'
<1>1. CASE pc = "idle"
  BY <1>1, IdleIsThread, ThreadIsNoWinner DEF next, stop, Won
<1>2. CASE pc # "idle"
  BY <1>2, WinnerGoesOn DEF next
<1> QED
  BY <1>1, <1>2

-----------------------------------------------------------------------------
(* Every step keeps what is claimed about callers and verdicts.            *)
LEMMA NextCallerInv == IInv /\ [Next]_vars => CallerInv'
<1> SUFFICES ASSUME TypeOK, ThreadInv, CallerInv, [Next]_vars PROVE CallerInv'
  BY DEF IInv
<1>1. ASSUME NEW a \in Approval, Waive(a)
      PROVE  CallerInv'
  BY <1>1 DEF Waive, goto, perform, db, TypeOK, CallerInv, CallerRuns, NoRowYet,
      OutcomeIsVerdict, SanctionedRun, AtMostOnce
<1>2. ASSUME NEW a \in Approval, Ask(a)
      PROVE  CallerInv'
  BY <1>2 DEF Ask, goto, db, TypeOK, CallerInv, CallerRuns, NoRowYet,
      OutcomeIsVerdict, SanctionedRun, AtMostOnce
<1>3. ASSUME NEW a \in Approval, InsertRow(a)
      PROVE  CallerInv'
  BY <1>3 DEF InsertRow, goto, TypeOK, CallerInv, CallerRuns, NoRowYet,
      OutcomeIsVerdict, SanctionedRun, AtMostOnce
<1>4. ASSUME NEW a \in Approval, ListApprovers(a)
      PROVE  CallerInv'
  BY <1>4 DEF ListApprovers, goto, db, TypeOK, CallerInv, CallerRuns, NoRowYet,
      OutcomeIsVerdict, SanctionedRun, AtMostOnce
<1>5. ASSUME NEW a \in Approval, NEW p \in People, PostCard(a, p)
      PROVE  CallerInv'
  BY <1>5, CallersKept DEF PostCard, db
<1>6. ASSUME NEW a \in Approval, StoreIds(a)
      PROVE  CallerInv'
  BY <1>6 DEF StoreIds, goto, TypeOK, CallerInv, CallerRuns, NoRowYet,
      OutcomeIsVerdict, SanctionedRun, AtMostOnce
<1>7. ASSUME NEW a \in Approval, AwaitDecision(a)
      PROVE  CallerInv'
  BY <1>7 DEF AwaitDecision, goto, db, TypeOK, CallerInv, CallerRuns, NoRowYet,
      OutcomeIsVerdict, SanctionedRun, AtMostOnce
<1>8. ASSUME NEW a \in Approval, Resume(a)
      PROVE  CallerInv'
  <2>1. CASE outcome[a] = "approved"
    <3>1. status[a] = "approved" /\ Blocking(a) /\ ran[a] = 0
      BY <1>8, <2>1 DEF Resume, CallerInv, CallerRuns, OutcomeIsVerdict, TypeOK
    <3>2. /\ UNCHANGED <<status, outcome>>
          /\ caller' = [caller EXCEPT ![a] = "returned"]
          /\ ran' = [ran EXCEPT ![a] = 1]
      BY <1>8, <2>1, <3>1 DEF Resume, goto, perform, db
    <3> QED
      BY <3>1, <3>2 DEF TypeOK, CallerInv, CallerRuns, NoRowYet, OutcomeIsVerdict,
                        SanctionedRun, AtMostOnce
  <2>2. CASE outcome[a] # "approved"
    <3>1. /\ UNCHANGED <<status, outcome, ran>>
          /\ caller' = [caller EXCEPT ![a] = "returned"]
      BY <1>8, <2>2 DEF Resume, goto, db
    <3> QED
      BY <1>8, <3>1 DEF Resume, TypeOK, CallerInv, CallerRuns, NoRowYet,
                        OutcomeIsVerdict, SanctionedRun, AtMostOnce
  <2> QED
    BY <2>1, <2>2
<1>9. ASSUME NEW a \in Approval, CallerFails(a)
      PROVE  CallerInv'
  BY <1>9 DEF CallerFails, goto, db, TypeOK, CallerInv, CallerRuns, NoRowYet,
      OutcomeIsVerdict, SanctionedRun, AtMostOnce
<1>10. ASSUME NEW a \in Approval, TtlElapses(a)
      PROVE  CallerInv'
  BY <1>10, CallersKept DEF TtlElapses, mem
<1>11. ASSUME NEW a \in Approval, TimerFires(a)
      PROVE  CallerInv'
  BY <1>11, CallersKept DEF TimerFires, db
<1>12. ASSUME NEW a \in Approval, SweepTakes(a)
      PROVE  CallerInv'
  BY <1>12, CallersKept DEF SweepTakes, db
<1>13. ASSUME NEW a \in Approval, NEW act \in Action, NEW p \in People, Tap(p, a,
             act)
      PROVE  CallerInv'
  BY <1>13, CallersKept DEF Tap, db
<1>14. ASSUME NEW a \in Approval, NEW act \in Action, NEW d \in Dashboard,
             Click(d, a, act)
      PROVE  CallerInv'
  BY <1>14, CallersKept DEF Click, db
<1>15. ASSUME NEW f \in Finalizer, Authorize(f)
      PROVE  CallerInv'
  BY <1>15, CallersKept DEF Authorize, db
<1>16. ASSUME NEW f \in Finalizer, FinalizerFails(f)
      PROVE  CallerInv'
  BY <1>16, CallersKept DEF FinalizerFails, db
<1>17. ASSUME NEW f \in Finalizer, Finalize(f)
      PROVE  CallerInv'
  <2>1. CASE status[fin[f].a] = "pending"
    <3> DEFINE b == fin[f].a
    <3>1. b \in Approval /\ fin[f].verdict \in Decided
      BY DEF TypeOK, Thread
    <3>2. /\ status' = [status EXCEPT ![b] = fin[f].verdict]
          /\ UNCHANGED <<caller, outcome, ran>>
      BY <1>17, <2>1 DEF Finalize, stillPending
    <3>3. ran[b] = 0 /\ outcome[b] = "none" /\ caller[b] \notin {"idle", "insert", "waived"}
      BY <2>1, <3>1 DEF TypeOK, CallerInv, NoRowYet, OutcomeIsVerdict, SanctionedRun, Decided
    <3> QED
      BY <3>1, <3>2, <3>3 DEF TypeOK, CallerInv, CallerRuns, NoRowYet,
            OutcomeIsVerdict, SanctionedRun, AtMostOnce
  <2>2. CASE status[fin[f].a] # "pending"
    BY <1>17, <2>2, CallersKept DEF Finalize, stillPending
  <2> QED
    BY <2>1, <2>2
<1>18. ASSUME NEW f \in Finalizer, Settle(f)
      PROVE  CallerInv'
  <2>1. fin[f].a \in Approval /\ status[fin[f].a] = fin[f].verdict
    BY <1>18, WinnerDecided DEF Settle, at, Won, ThreadInv, WinnerVerdict
  <2>2. OutcomeIsVerdict'
    BY <1>18, <2>1 DEF Settle, db, TypeOK, CallerInv, OutcomeIsVerdict
  <2>3. UNCHANGED <<status, caller, ran>>
    BY <1>18 DEF Settle, db
  <2> QED
    BY <2>2, <2>3 DEF CallerInv, CallerRuns, NoRowYet, SanctionedRun, AtMostOnce
<1>19. ASSUME NEW f \in Finalizer, EditCards(f)
      PROVE  CallerInv'
  BY <1>19, CallersKept DEF EditCards, db
<1>20. ASSUME NEW f \in Finalizer, CheckAllowance(f)
      PROVE  CallerInv'
  BY <1>20, CallersKept DEF CheckAllowance, db
<1>21. ASSUME NEW f \in Finalizer, GrantAllowance(f)
      PROVE  CallerInv'
  BY <1>21, CallersKept DEF GrantAllowance
<1>22. ASSUME NEW f \in Finalizer, RunApprovedToolCall(f)
      PROVE  CallerInv'
  <2> DEFINE b == fin[f].a
  <2>1. b \in Approval /\ status[b] = fin[f].verdict
    BY <1>22, WinnerDecided DEF RunApprovedToolCall, at, Won, ThreadInv,
        WinnerVerdict
  <2>2. fin[f].verdict = "approved" /\ ~Blocking(b) /\ ran[b] = 0
    BY <1>22 DEF RunApprovedToolCall, at, Won, ThreadInv, Executor, NotYetRun
  <2>3. UNCHANGED <<status, caller, outcome>>
    BY <1>22 DEF RunApprovedToolCall, db
  <2>4. CASE ran' = ran
    BY <2>3, <2>4, CallersKept
  <2>5. CASE perform(b)
    <3>1. ran' = [ran EXCEPT ![b] = 1]
      BY <2>1, <2>2, <2>5 DEF perform
    <3> QED
      BY <2>1, <2>2, <2>3, <3>1 DEF TypeOK, CallerInv, CallerRuns, NoRowYet,
            OutcomeIsVerdict, SanctionedRun, AtMostOnce, Blocking
  <2> QED
    BY <1>22, <2>4, <2>5 DEF RunApprovedToolCall
<1>23. ASSUME NEW f \in Finalizer, ReportOutcome(f)
      PROVE  CallerInv'
  BY <1>23, CallersKept DEF ReportOutcome, db
<1>24. ASSUME NEW f \in Finalizer, NotifyApproversExpired(f)
      PROVE  CallerInv'
  BY <1>24, CallersKept DEF NotifyApproversExpired, db
<1>25. CASE SweepReads
  BY <1>25, CallersKept DEF SweepReads, stale, db
<1>26. ASSUME NEW s \in Subject, RevokeAllowance(s)
      PROVE  CallerInv'
  BY <1>26, CallersKept DEF RevokeAllowance, mem
<1>27. ASSUME NEW p \in People, SetApprover(p)
      PROVE  CallerInv'
  BY <1>27, CallersKept DEF SetApprover, mem
<1>28. CASE Restart
  BY <1>28 DEF Restart, Ended, db, TypeOK, CallerInv, CallerRuns, NoRowYet,
      OutcomeIsVerdict, SanctionedRun, AtMostOnce
<1>29. CASE UNCHANGED vars
  BY <1>29, CallersKept DEF vars
<1> QED
  BY <1>1, <1>2, <1>3, <1>4, <1>5, <1>6, <1>7, <1>8, <1>9, <1>10, <1>11,
     <1>12, <1>13, <1>14, <1>15, <1>16, <1>17, <1>18, <1>19, <1>20, <1>21,
     <1>22, <1>23, <1>24, <1>25, <1>26, <1>27, <1>28, <1>29
  DEF Next, Gate, CallerStep, FinalizerStep, SweepStep

(* Every step keeps what is claimed about the threads.                     *)
LEMMA NextThreadInv == IInv /\ [Next]_vars => ThreadInv'
<1> SUFFICES ASSUME TypeOK, ThreadInv, CallerInv, [Next]_vars PROVE ThreadInv'
  BY DEF IInv
<1>1. ASSUME NEW a \in Approval, Waive(a)
      PROVE  ThreadInv'
  <2>1. status[a] = "none"
    BY <1>1 DEF Waive, CallerInv, NoRowYet
  <2>2. \A f \in Finalizer : fin[f].pc \in Won => fin[f].a # a
    BY <2>1, WinnerDecided DEF Decided
  <2> QED
    BY <1>1, <2>2 DEF Waive, perform, db, TypeOK, Thread, ThreadInv,
        WinnerVerdict,
                      OneWinner, Executor, NotYetRun
<1>2. ASSUME NEW a \in Approval, Ask(a)
      PROVE  ThreadInv'
  BY <1>2, ThreadsKept DEF Ask, db
<1>3. ASSUME NEW a \in Approval, InsertRow(a)
      PROVE  ThreadInv'
  <2>1. status[a] = "none"
    BY <1>3 DEF InsertRow, CallerInv, NoRowYet
  <2>2. \A f \in Finalizer : fin[f].pc \in Won => fin[f].a # a
    BY <2>1, WinnerDecided DEF Decided
  <2> QED
    BY <1>3, <2>2 DEF InsertRow, TypeOK, Thread, ThreadInv, WinnerVerdict,
        OneWinner,
                      Executor, NotYetRun
<1>4. ASSUME NEW a \in Approval, ListApprovers(a)
      PROVE  ThreadInv'
  BY <1>4, ThreadsKept DEF ListApprovers, db
<1>5. ASSUME NEW a \in Approval, NEW p \in People, PostCard(a, p)
      PROVE  ThreadInv'
  BY <1>5, ThreadsKept DEF PostCard, db
<1>6. ASSUME NEW a \in Approval, StoreIds(a)
      PROVE  ThreadInv'
  BY <1>6, ThreadsKept DEF StoreIds
<1>7. ASSUME NEW a \in Approval, AwaitDecision(a)
      PROVE  ThreadInv'
  BY <1>7, ThreadsKept DEF AwaitDecision, db
<1>8. ASSUME NEW a \in Approval, Resume(a)
      PROVE  ThreadInv'
  <2>1. Blocking(a)
    BY <1>8 DEF Resume, CallerInv, CallerRuns
  <2>2. \A b \in Approval : ~Blocking(b) => ran'[b] = ran[b]
    BY <1>8, <2>1 DEF Resume, perform, TypeOK
  <2>3. UNCHANGED <<status, fin>>
    BY <1>8 DEF Resume, db
  <2>4. NotYetRun'
    BY <2>2, <2>3 DEF ThreadInv, NotYetRun, TypeOK, Thread, Blocking
  <2> QED
    BY <2>3, <2>4 DEF ThreadInv, WinnerVerdict, OneWinner, Executor
<1>9. ASSUME NEW a \in Approval, CallerFails(a)
      PROVE  ThreadInv'
  BY <1>9, ThreadsKept DEF CallerFails, db
<1>10. ASSUME NEW a \in Approval, TtlElapses(a)
      PROVE  ThreadInv'
  BY <1>10, ThreadsKept DEF TtlElapses, mem
<1>11. ASSUME NEW a \in Approval, TimerFires(a)
      PROVE  ThreadInv'
  <2>1. a \in Finalizer
    BY DEF Finalizer, Actor
  <2>2. PICK t \in Thread : t.pc \notin Won /\ fin' = [fin EXCEPT ![a] = t]
    BY <1>11 DEF TimerFires, begin, TypeOK, Thread, FinPc, Decided, Won
  <2> QED
    BY <1>11, <2>1, <2>2, ThreadIsNoWinner DEF TimerFires, db
<1>12. ASSUME NEW a \in Approval, SweepTakes(a)
      PROVE  ThreadInv'
  <2>1. Sweep \in Finalizer
    BY DEF Finalizer, Actor
  <2>2. PICK t \in Thread : t.pc \notin Won /\ fin' = [fin EXCEPT ![Sweep] = t]
    BY <1>12 DEF SweepTakes, begin, TypeOK, Thread, FinPc, Decided, Won
  <2> QED
    BY <1>12, <2>1, <2>2, ThreadIsNoWinner DEF SweepTakes, db
<1>13. ASSUME NEW a \in Approval, NEW act \in Action, NEW p \in People, Tap(p, a,
             act)
      PROVE  ThreadInv'
  <2>1. p \in Finalizer
    BY DEF Finalizer, Actor
  <2>2. PICK t \in Thread : t.pc \notin Won /\ fin' = [fin EXCEPT ![p] = t]
    <3>1. verdictOf(act) \in Decided
      BY DEF verdictOf, Decided
    <3> DEFINE t == [pc |-> "authorize", a |-> a, verdict |-> verdictOf(act),
                     all |-> act = "allowall", note |-> FALSE,
                     read |-> stored[a], ids |-> {}]
    <3>2. t \in Thread
      BY <3>1 DEF TypeOK, Thread, FinPc
    <3> QED
      BY <1>13, <3>2 DEF Tap, begin, Won
  <2> QED
    BY <1>13, <2>1, <2>2, ThreadIsNoWinner DEF Tap, db
<1>14. ASSUME NEW a \in Approval, NEW act \in Action, NEW d \in Dashboard,
             Click(d, a, act)
      PROVE  ThreadInv'
  <2>1. d \in Finalizer
    BY DEF Finalizer, Actor
  <2>2. PICK t \in Thread : t.pc \notin Won /\ fin' = [fin EXCEPT ![d] = t]
    <3>1. verdictOf(act) \in Decided /\ orphaned(a, verdictOf(act)) \in BOOLEAN
      BY DEF verdictOf, Decided, orphaned
    <3> DEFINE t == [pc |-> "update", a |-> a, verdict |-> verdictOf(act),
                     all |-> act = "allowall", note |-> orphaned(a, verdictOf(act)),
                     read |-> stored[a], ids |-> {}]
    <3>2. t \in Thread
      BY <3>1 DEF TypeOK, Thread, FinPc
    <3> QED
      BY <1>14, <3>2 DEF Click, begin, Won
  <2> QED
    BY <1>14, <2>1, <2>2, ThreadIsNoWinner DEF Click, db
<1>15. ASSUME NEW f \in Finalizer, Authorize(f)
      PROVE  ThreadInv'
  <2>1. orphaned(fin[f].a, fin[f].verdict) \in BOOLEAN
    BY DEF orphaned
  <2>2. PICK t \in Thread : t.pc \notin Won /\ fin' = [fin EXCEPT ![f] = t]
    <3>1. CASE f \in approver
      <4> DEFINE t == [fin[f] EXCEPT !.pc = "update",
                                     !.note = orphaned(fin[f].a, fin[f].verdict)]
      <4>1. fin' = [fin EXCEPT ![f] = t]
        BY <1>15, <3>1 DEF Authorize
      <4>2. t \in Thread
        BY <2>1, ThreadFields DEF TypeOK
      <4>3. t.pc \notin Won
        BY DEF TypeOK, Thread, Won
      <4> QED
        BY <4>1, <4>2, <4>3
    <3>2. CASE f \notin approver
      BY <1>15, <3>2, IdleIsThread DEF Authorize, stop, Won
    <3> QED
      BY <3>1, <3>2
  <2> QED
    BY <1>15, <2>2, ThreadIsNoWinner DEF Authorize, db
<1>16. ASSUME NEW f \in Finalizer, FinalizerFails(f)
      PROVE  ThreadInv'
  BY <1>16, IdleIsThread, ThreadIsNoWinner DEF FinalizerFails, db, stop, Won
<1>17. ASSUME NEW f \in Finalizer, Finalize(f)
      PROVE  ThreadInv'
  <2>1. CASE status[fin[f].a] = "pending"
    <3> DEFINE b == fin[f].a
               v == fin[f].verdict
    <3>1. b \in Approval /\ v \in Decided
      BY DEF TypeOK, Thread
    <3>2. status' = [status EXCEPT ![b] = v] /\ ran' = ran
      BY <1>17, <2>1 DEF Finalize, stillPending
    <3>3. \A g \in Finalizer : /\ fin'[g].a = fin[g].a
                               /\ fin'[g].verdict = fin[g].verdict
                               /\ fin'[g].pc = IF g = f THEN "settle" ELSE fin[g].pc
      BY <1>17, <2>1 DEF Finalize, stillPending, TypeOK, Thread
    <3>4. \A g \in Finalizer : fin[g].pc \in Won => fin[g].a # b
      BY <2>1, WinnerDecided DEF Decided
    <3>5. ran[b] = 0
      BY <2>1, <3>1 DEF CallerInv, SanctionedRun, NoRowYet, TypeOK
    <3>6. WinnerVerdict'
      BY <3>1, <3>2, <3>3, <3>4 DEF ThreadInv, WinnerVerdict, TypeOK, Thread
    <3>7. OneWinner'
      BY <3>3, <3>4 DEF ThreadInv, OneWinner, Won
    <3>8. Executor'
      BY <3>3 DEF ThreadInv, Executor, Blocking
    <3>9. NotYetRun'
      BY <3>2, <3>3, <3>5 DEF ThreadInv, NotYetRun, Blocking
    <3> QED
      BY <3>6, <3>7, <3>8, <3>9 DEF ThreadInv
  <2>2. CASE status[fin[f].a] # "pending"
    BY <1>17, <2>2, IdleIsThread, ThreadIsNoWinner DEF Finalize, stillPending, stop, Won
  <2> QED
    BY <2>1, <2>2
<1>18. ASSUME NEW f \in Finalizer, Settle(f)
      PROVE  ThreadInv'
  BY <1>18, WinnerGoesOn DEF Settle, at, db, Won
<1>19. ASSUME NEW f \in Finalizer, EditCards(f)
      PROVE  ThreadInv'
  <2>1. afterEdit(f) \in Won \ {"report", "regret"} \/ afterEdit(f) = "idle"
    BY DEF afterEdit, Won
  <2>2. /\ afterEdit(f) \in {"check", "grant", "execute"} => fin[f].verdict = "approved"
        /\ afterEdit(f) = "execute" => ~Blocking(fin[f].a)
    BY DEF afterEdit
  <2> QED
    BY <1>19, <2>1, <2>2, WinnerNext DEF EditCards, at, db, Won
<1>20. ASSUME NEW f \in Finalizer, CheckAllowance(f)
      PROVE  ThreadInv'
  <2>1. fin[f].verdict = "approved"
    BY <1>20 DEF CheckAllowance, at, ThreadInv, Executor
  <2> QED
    BY <1>20, <2>1, WinnerNext DEF CheckAllowance, afterGrant, at, db, Won
<1>21. ASSUME NEW f \in Finalizer, GrantAllowance(f)
      PROVE  ThreadInv'
  <2>1. fin[f].verdict = "approved"
    BY <1>21 DEF GrantAllowance, at, ThreadInv, Executor
  <2> QED
    BY <1>21, <2>1, WinnerNext DEF GrantAllowance, afterGrant, at, db, Won
<1>22. ASSUME NEW f \in Finalizer, RunApprovedToolCall(f)
      PROVE  ThreadInv'
  <2> DEFINE b == fin[f].a
  <2>1. /\ b \in Approval
        /\ fin[f].pc = "execute"
        /\ status' = status
        /\ \A c \in Approval \ {b} : ran'[c] = ran[c]
    BY <1>22 DEF RunApprovedToolCall, perform, at, db, TypeOK, Thread
  <2>2. CASE stop(f) /\ UNCHANGED ran
    BY <2>1, <2>2, IdleIsThread, ThreadIsNoWinner DEF stop, Won
  <2>3. ASSUME NEW pc \in {"report", "regret"}, step(f, pc)
        PROVE  ThreadInv'
    <3>1. \A g \in Finalizer : /\ fin'[g].a = fin[g].a
                               /\ fin'[g].verdict = fin[g].verdict
                               /\ fin'[g].pc = IF g = f THEN pc ELSE fin[g].pc
      BY <2>3 DEF step, TypeOK, Thread
    <3>2. \A g \in Finalizer : g # f /\ fin[g].pc \in Won => fin[g].a # b
      BY <2>1 DEF ThreadInv, OneWinner, Won
    <3>3. WinnerVerdict'
      BY <2>1, <3>1 DEF ThreadInv, WinnerVerdict, Won
    <3>4. OneWinner'
      BY <2>1, <3>1 DEF ThreadInv, OneWinner, Won
    <3>5. Executor'
      BY <2>1, <3>1 DEF ThreadInv, Executor, Blocking
    <3>6. NotYetRun'
      BY <2>1, <3>1, <3>2 DEF ThreadInv, NotYetRun, Blocking, TypeOK, Thread
    <3> QED
      BY <3>3, <3>4, <3>5, <3>6 DEF ThreadInv
  <2> QED
    BY <1>22, <2>2, <2>3 DEF RunApprovedToolCall
<1>23. ASSUME NEW f \in Finalizer, ReportOutcome(f)
      PROVE  ThreadInv'
  BY <1>23, IdleIsThread, ThreadIsNoWinner DEF ReportOutcome, db, stop, Won
<1>24. ASSUME NEW f \in Finalizer, NotifyApproversExpired(f)
      PROVE  ThreadInv'
  BY <1>24, IdleIsThread, ThreadIsNoWinner DEF NotifyApproversExpired, db, stop,
      Won
<1>25. CASE SweepReads
  BY <1>25, ThreadsKept DEF SweepReads, stale, db
<1>26. ASSUME NEW s \in Subject, RevokeAllowance(s)
      PROVE  ThreadInv'
  BY <1>26, ThreadsKept DEF RevokeAllowance, mem
<1>27. ASSUME NEW p \in People, SetApprover(p)
      PROVE  ThreadInv'
  BY <1>27, ThreadsKept DEF SetApprover, mem
<1>28. CASE Restart
  BY <1>28, IdleIsThread DEF Restart, db, Won, ThreadInv, WinnerVerdict,
      OneWinner,
                       Executor, NotYetRun
<1>29. CASE UNCHANGED vars
  BY <1>29, ThreadsKept DEF vars
<1> QED
  BY <1>1, <1>2, <1>3, <1>4, <1>5, <1>6, <1>7, <1>8, <1>9, <1>10, <1>11,
     <1>12, <1>13, <1>14, <1>15, <1>16, <1>17, <1>18, <1>19, <1>20, <1>21,
     <1>22, <1>23, <1>24, <1>25, <1>26, <1>27, <1>28, <1>29
  DEF Next, Gate, CallerStep, FinalizerStep, SweepStep

(* The inductive invariant holds throughout.                               *)
THEOREM Invariant == Spec => []IInv
<1>1. IInv /\ [Next]_vars => IInv'
  BY NextTypeOK, NextCallerInv, NextThreadInv DEF IInv
<1> QED
  BY InitIInv, <1>1, PTL DEF Spec

(* No action is carried out twice, for any number of actions, approvers    *)
(* and admins, and any interleaving of taps, timers, sweeps and restarts.  *)
THEOREM RunsAtMostOnce == Spec => []AtMostOnce
<1>1. IInv => AtMostOnce
  BY DEF IInv, CallerInv
<1> QED
  BY <1>1, Invariant, PTL

(* No action is carried out without a verdict or a standing allowance.     *)
THEOREM RunsAreSanctioned == Spec => []SanctionedRun
<1>1. IInv => SanctionedRun
  BY DEF IInv, CallerInv
<1> QED
  BY <1>1, Invariant, PTL

(* A waiter is never told another verdict than the one in its row.         *)
THEOREM OutcomesAreVerdicts == Spec => []OutcomeIsVerdict
<1>1. IInv => OutcomeIsVerdict
  BY DEF IInv, CallerInv
<1> QED
  BY <1>1, Invariant, PTL

-----------------------------------------------------------------------------
(* The workflow implements its contract.                                   *)

(* A step the contract does not see.                                       *)
LEMMA Unnoticed ==
  ASSUME UNCHANGED <<status, ran>>,
         \/ UNCHANGED caller
         \/ \A a \in Approval : caller'[a] = "waived" <=> caller[a] = "waived"
  PROVE  [Contract!Next]_(Contract!vars)
BY DEF Contract!vars, phase

(* Every step is one of the contract's, or one it does not see.            *)
LEMMA StepImplements == IInv /\ [Next]_vars => [Contract!Next]_(Contract!vars)
<1> SUFFICES ASSUME TypeOK, ThreadInv, CallerInv, [Next]_vars
             PROVE  [Contract!Next]_(Contract!vars)
  BY DEF IInv
<1>1. ASSUME NEW a \in Approval, Waive(a)
      PROVE  [Contract!Next]_(Contract!vars)
  <2>1. status[a] = "none" /\ ran[a] = 0
    BY <1>1 DEF Waive, CallerInv, NoRowYet, SanctionedRun, TypeOK
  <2>2. phase[a] = "none"
    BY <1>1, <2>1 DEF Waive, phase
  <2>3. phase' = [phase EXCEPT ![a] = "waived"]
    BY <1>1 DEF Waive, goto, db, phase, TypeOK
  <2>4. ran' = [ran EXCEPT ![a] = 1]
    BY <1>1, <2>1 DEF Waive, perform
  <2> QED
    BY <2>2, <2>3, <2>4 DEF Contract!Next, Contract!Waive
<1>2. ASSUME NEW a \in Approval, Ask(a)
      PROVE  [Contract!Next]_(Contract!vars)
  <2>1. \A b \in Approval : caller'[b] = "waived" <=> caller[b] = "waived"
    BY <1>2 DEF Ask, goto, TypeOK
  <2> QED
    BY <1>2, <2>1, Unnoticed DEF Ask, db
<1>3. ASSUME NEW a \in Approval, InsertRow(a)
      PROVE  [Contract!Next]_(Contract!vars)
  <2>1. status[a] = "none"
    BY <1>3 DEF InsertRow, CallerInv, NoRowYet
  <2>2. phase[a] = "none"
    BY <1>3, <2>1 DEF InsertRow, phase
  <2>3. phase' = [phase EXCEPT ![a] = "pending"]
    BY <1>3 DEF InsertRow, goto, phase, TypeOK
  <2>4. ran' = ran
    BY <1>3 DEF InsertRow
  <2> QED
    BY <2>2, <2>3, <2>4 DEF Contract!Next, Contract!Ask
<1>4. ASSUME NEW a \in Approval, ListApprovers(a)
      PROVE  [Contract!Next]_(Contract!vars)
  <2>1. \A b \in Approval : caller'[b] = "waived" <=> caller[b] = "waived"
    BY <1>4 DEF ListApprovers, goto, TypeOK
  <2> QED
    BY <1>4, <2>1, Unnoticed DEF ListApprovers, db
<1>5. ASSUME NEW a \in Approval, NEW p \in People, PostCard(a, p)
      PROVE  [Contract!Next]_(Contract!vars)
  BY <1>5, Unnoticed DEF PostCard, db
<1>6. ASSUME NEW a \in Approval, StoreIds(a)
      PROVE  [Contract!Next]_(Contract!vars)
  <2>1. \A b \in Approval : caller'[b] = "waived" <=> caller[b] = "waived"
    BY <1>6 DEF StoreIds, goto, TypeOK
  <2> QED
    BY <1>6, <2>1, Unnoticed DEF StoreIds, db
<1>7. ASSUME NEW a \in Approval, AwaitDecision(a)
      PROVE  [Contract!Next]_(Contract!vars)
  <2>1. \A b \in Approval : caller'[b] = "waived" <=> caller[b] = "waived"
    BY <1>7 DEF AwaitDecision, goto, TypeOK
  <2> QED
    BY <1>7, <2>1, Unnoticed DEF AwaitDecision, db
<1>8. ASSUME NEW a \in Approval, Resume(a)
      PROVE  [Contract!Next]_(Contract!vars)
  <2>1. UNCHANGED phase
    BY <1>8 DEF Resume, goto, db, phase, TypeOK
  <2>2. CASE outcome[a] = "approved"
    <3>1. phase[a] = "approved" /\ ran[a] = 0
      BY <1>8, <2>2 DEF Resume, phase, TypeOK, CallerInv, CallerRuns,
          OutcomeIsVerdict
    <3>2. ran' = [ran EXCEPT ![a] = 1]
      BY <1>8, <2>2, <3>1 DEF Resume, perform
    <3> QED
      BY <2>1, <3>1, <3>2 DEF Contract!Next, Contract!Perform
  <2>3. CASE outcome[a] # "approved"
    BY <1>8, <2>1, <2>3 DEF Resume, Contract!vars
  <2> QED
    BY <2>2, <2>3
<1>9. ASSUME NEW a \in Approval, CallerFails(a)
      PROVE  [Contract!Next]_(Contract!vars)
  <2>1. \A b \in Approval : caller'[b] = "waived" <=> caller[b] = "waived"
    BY <1>9 DEF CallerFails, goto, TypeOK
  <2> QED
    BY <1>9, <2>1, Unnoticed DEF CallerFails, db
<1>10. ASSUME NEW a \in Approval, TtlElapses(a)
      PROVE  [Contract!Next]_(Contract!vars)
  BY <1>10, Unnoticed DEF TtlElapses, mem
<1>11. ASSUME NEW a \in Approval, TimerFires(a)
      PROVE  [Contract!Next]_(Contract!vars)
  BY <1>11, Unnoticed DEF TimerFires, db
<1>12. ASSUME NEW a \in Approval, SweepTakes(a)
      PROVE  [Contract!Next]_(Contract!vars)
  BY <1>12, Unnoticed DEF SweepTakes, db
<1>13. ASSUME NEW a \in Approval, NEW act \in Action, NEW p \in People, Tap(p, a,
             act)
      PROVE  [Contract!Next]_(Contract!vars)
  BY <1>13, Unnoticed DEF Tap, db
<1>14. ASSUME NEW a \in Approval, NEW act \in Action, NEW d \in Dashboard,
             Click(d, a, act)
      PROVE  [Contract!Next]_(Contract!vars)
  BY <1>14, Unnoticed DEF Click, db
<1>15. ASSUME NEW f \in Finalizer, Authorize(f)
      PROVE  [Contract!Next]_(Contract!vars)
  BY <1>15, Unnoticed DEF Authorize, db
<1>16. ASSUME NEW f \in Finalizer, FinalizerFails(f)
      PROVE  [Contract!Next]_(Contract!vars)
  BY <1>16, Unnoticed DEF FinalizerFails, db
<1>17. ASSUME NEW f \in Finalizer, Finalize(f)
      PROVE  [Contract!Next]_(Contract!vars)
  <2> DEFINE b == fin[f].a
             v == fin[f].verdict
  <2>1. b \in Approval /\ v \in Decided
    BY DEF TypeOK, Thread
  <2>2. CASE status[b] = "pending"
    <3>1. caller[b] # "waived"
      BY <2>1, <2>2 DEF CallerInv, NoRowYet
    <3>2. phase[b] = "pending"
      BY <2>1, <2>2, <3>1 DEF phase
    <3>3. phase' = [phase EXCEPT ![b] = v]
      <4>1. status' = [status EXCEPT ![b] = v] /\ UNCHANGED caller
        BY <1>17, <2>2 DEF Finalize, stillPending
      <4> QED
        BY <2>1, <3>1, <4>1 DEF phase, TypeOK
    <3>4. ran' = ran
      BY <1>17 DEF Finalize, stillPending
    <3> QED
      BY <2>1, <3>2, <3>3, <3>4
      DEF Contract!Next, Contract!Decide, Contract!Verdict, Decided
  <2>3. CASE status[b] # "pending"
    BY <1>17, <2>3, Unnoticed DEF Finalize, stillPending
  <2> QED
    BY <2>2, <2>3
<1>18. ASSUME NEW f \in Finalizer, Settle(f)
      PROVE  [Contract!Next]_(Contract!vars)
  BY <1>18, Unnoticed DEF Settle, db
<1>19. ASSUME NEW f \in Finalizer, EditCards(f)
      PROVE  [Contract!Next]_(Contract!vars)
  BY <1>19, Unnoticed DEF EditCards, db
<1>20. ASSUME NEW f \in Finalizer, CheckAllowance(f)
      PROVE  [Contract!Next]_(Contract!vars)
  BY <1>20, Unnoticed DEF CheckAllowance, db
<1>21. ASSUME NEW f \in Finalizer, GrantAllowance(f)
      PROVE  [Contract!Next]_(Contract!vars)
  BY <1>21, Unnoticed DEF GrantAllowance
<1>22. ASSUME NEW f \in Finalizer, RunApprovedToolCall(f)
      PROVE  [Contract!Next]_(Contract!vars)
  <2> DEFINE b == fin[f].a
  <2>1. b \in Approval /\ status[b] = "approved" /\ ran[b] = 0
    BY <1>22, WinnerDecided DEF RunApprovedToolCall, at, Won, ThreadInv,
        WinnerVerdict,
                               Executor, NotYetRun
  <2>2. UNCHANGED phase
    BY <1>22 DEF RunApprovedToolCall, db, phase
  <2>3. phase[b] = "approved"
    BY <2>1 DEF phase, CallerInv, NoRowYet
  <2>4. ran' = ran \/ ran' = [ran EXCEPT ![b] = 1]
    BY <1>22, <2>1 DEF RunApprovedToolCall, perform
  <2> QED
    BY <2>1, <2>2, <2>3, <2>4 DEF Contract!Next, Contract!Perform, Contract!vars
<1>23. ASSUME NEW f \in Finalizer, ReportOutcome(f)
      PROVE  [Contract!Next]_(Contract!vars)
  BY <1>23, Unnoticed DEF ReportOutcome, db
<1>24. ASSUME NEW f \in Finalizer, NotifyApproversExpired(f)
      PROVE  [Contract!Next]_(Contract!vars)
  BY <1>24, Unnoticed DEF NotifyApproversExpired, db
<1>25. CASE SweepReads
  BY <1>25, Unnoticed DEF SweepReads, stale, db
<1>26. ASSUME NEW s \in Subject, RevokeAllowance(s)
      PROVE  [Contract!Next]_(Contract!vars)
  BY <1>26, Unnoticed DEF RevokeAllowance, mem
<1>27. ASSUME NEW p \in People, SetApprover(p)
      PROVE  [Contract!Next]_(Contract!vars)
  BY <1>27, Unnoticed DEF SetApprover, mem
<1>28. CASE Restart
  <2>1. \A b \in Approval : caller'[b] = "waived" <=> caller[b] = "waived"
    BY <1>28 DEF Restart, Ended, TypeOK
  <2> QED
    BY <1>28, <2>1, Unnoticed DEF Restart, db
<1>29. CASE UNCHANGED vars
  BY <1>29, Unnoticed DEF vars
<1> QED
  BY <1>1, <1>2, <1>3, <1>4, <1>5, <1>6, <1>7, <1>8, <1>9, <1>10, <1>11,
     <1>12, <1>13, <1>14, <1>15, <1>16, <1>17, <1>18, <1>19, <1>20, <1>21,
     <1>22, <1>23, <1>24, <1>25, <1>26, <1>27, <1>28, <1>29
  DEF Next, Gate, CallerStep, FinalizerStep, SweepStep

(* Whatever is done with an action, its history is one the contract        *)
(* allows: one verdict, one run, and the run after the sanction.           *)
THEOREM Implements == Spec => ImplementsContract
<1>1. Init => Contract!Init
  BY DEF Init, Contract!Init, phase
<1> QED
  BY <1>1, StepImplements, Invariant, PTL DEF Spec, ImplementsContract,
      Contract!Spec
-----------------------------------------------------------------------------
(* Who decides.                                                            *)

(* What a thread that is not idle may be after: a person or an admin       *)
(* approves or denies, a timer or the sweep expires a row that is due, and *)
(* only "Allow always" grants.                                             *)
RoleOf(f, t) == /\ t.pc # "idle" => IF f \in Actor THEN t.verdict # "expired"
                                    ELSE t.verdict = "expired" /\ t.a \in ttl
                /\ t.pc \in {"check", "grant"} => t.all

Roles == /\ todo \subseteq ttl
         /\ \A f \in Finalizer : RoleOf(f, fin[f])

(* A row is inserted by its caller, approved or denied by a person or an   *)
(* admin who read it while it was pending, and expired only when it is     *)
(* due; no other step touches it, whichever threads race for it.           *)
VerdictsHaveAuthors ==
  [][\A a \in Approval : status'[a] # status[a] =>
       \/ /\ status[a] = "none" /\ status'[a] = "pending"
          /\ caller[a] = "insert"
       \/ /\ status[a] = "pending" /\ status'[a] \in {"approved", "denied"}
          /\ \E f \in Actor : /\ at(f, "update") /\ fin[f].a = a
                              /\ fin[f].verdict = status'[a]
       \/ /\ status[a] = "pending" /\ status'[a] = "expired"
          /\ a \in ttl]_vars

(* A subject gets a standing allowance only from a person or an admin who  *)
(* chose "Allow always" on an action of that subject and won its row.      *)
GrantsAreSanctioned ==
  [][\A s \in Subject : allow'[s] > allow[s] =>
       \E f \in Actor : /\ at(f, "grant") /\ fin[f].all
                        /\ SubjectOf[fin[f].a] = s
                        /\ status[fin[f].a] = "approved"]_vars

(* The promise of the waiter is in the map, and its row is pending or its  *)
(* winner is about to resolve it.                                          *)
Attended(a) == /\ a \in resolver
               /\ \/ status[a] = "pending"
                  \/ \E f \in Finalizer : at(f, "settle") /\ fin[f].a = a

(* No wake-up is lost: an attended waiter stays attended until it is told  *)
(* the verdict or the process restarts.  A losing finalizer, a failing one *)
(* or the sweep cannot take its promise out of the map unresolved.         *)
NoWakeupIsLost ==
  [][\A a \in Approval :
       caller[a] = "waiting" /\ outcome[a] = "none" /\ Attended(a)
       => \/ caller'[a] = "waiting" /\ outcome'[a] = "none" /\ Attended(a)'
          \/ outcome'[a] \in Decided /\ outcome'[a] = status'[a]
          \/ caller'[a] = "lost"]_vars

(* Roles do not depend on what else changes; time only passes.             *)
LEMMA RolesKept ==
  ASSUME Roles, UNCHANGED fin, ttl \subseteq ttl', todo' \subseteq ttl'
  PROVE  Roles'
BY DEF Roles, RoleOf

(* A thread that takes up or changes its business within its role.         *)
LEMMA RoleTaken ==
  ASSUME TypeOK, Roles, NEW f \in Finalizer, NEW t \in Thread, RoleOf(f, t),
         fin' = [fin EXCEPT ![f] = t], ttl' = ttl, todo' \subseteq todo
  PROVE  Roles'
<1>1. \A g \in Finalizer : fin'[g] = IF g = f THEN t ELSE fin[g]
  BY DEF TypeOK
<1> QED
  BY <1>1 DEF Roles, RoleOf

(* A thread that only moves on, or stops.                                  *)
LEMMA RoleMoves ==
  ASSUME TypeOK, Roles, NEW f \in Finalizer, NEW pc \in FinPc,
         fin[f].pc # "idle", step(f, pc) \/ stop(f),
         pc \in {"check", "grant"} => fin[f].all,
         UNCHANGED <<ttl, todo>>
  PROVE  Roles'
<1>1. CASE step(f, pc)
  <2>1. [fin[f] EXCEPT !.pc = pc] \in Thread
    BY DEF TypeOK, Thread
  <2>2. RoleOf(f, [fin[f] EXCEPT !.pc = pc])
    BY DEF Roles, RoleOf, TypeOK, Thread
  <2> QED
    BY <1>1, <2>1, <2>2, RoleTaken DEF step
<1>2. CASE stop(f)
  BY <1>2, IdleIsThread, RoleTaken DEF stop, RoleOf
<1> QED
  BY <1>1, <1>2

(* Every step keeps the roles.                                             *)
LEMMA NextRoles == IInv /\ Roles /\ [Next]_vars => Roles'
<1> SUFFICES ASSUME TypeOK, ThreadInv, Roles, [Next]_vars PROVE Roles'
  BY DEF IInv
<1> USE ConstantsOK DEF ConstantsOK
<1>1. ASSUME NEW a \in Approval, Gate(a) \/ CallerStep(a) \/ CallerFails(a)
      PROVE  Roles'
  <2>1. UNCHANGED <<fin, ttl, todo>>
    BY <1>1 DEF Gate, Waive, Ask, CallerStep, InsertRow, ListApprovers, StoreIds,
                AwaitDecision, Resume, PostCard, CallerFails, db
  <2> QED
    BY <2>1, RolesKept DEF Roles
<1>2. ASSUME NEW a \in Approval, TtlElapses(a)
      PROVE  Roles'
  BY <1>2, RolesKept DEF TtlElapses, mem, Roles
<1>3. ASSUME NEW a \in Approval, TimerFires(a)
      PROVE  Roles'
  <2> DEFINE t == [pc |-> "update", a |-> a, verdict |-> "expired", all |-> FALSE,
                   note |-> FALSE, read |-> stored[a], ids |-> {}]
  <2>1. t \in Thread
    BY DEF TypeOK, Thread, FinPc, Decided
  <2>2. a \in Finalizer /\ a \notin Actor
    BY DEF Finalizer
  <2>3. RoleOf(a, t)
    BY <1>3, <2>2 DEF TimerFires, RoleOf
  <2> QED
    BY <1>3, <2>1, <2>2, <2>3, RoleTaken DEF TimerFires, begin, db
<1>4. ASSUME NEW a \in Approval, SweepTakes(a)
      PROVE  Roles'
  <2> DEFINE t == [pc |-> "update", a |-> a, verdict |-> "expired", all |-> FALSE,
                   note |-> FALSE, read |-> stored[a], ids |-> {}]
  <2>1. t \in Thread
    BY DEF TypeOK, Thread, FinPc, Decided
  <2>2. Sweep \in Finalizer /\ Sweep \notin Actor
    BY DEF Finalizer
  <2>3. RoleOf(Sweep, t)
    BY <1>4, <2>2 DEF SweepTakes, RoleOf, Roles
  <2> QED
    BY <1>4, <2>1, <2>2, <2>3, RoleTaken DEF SweepTakes, begin, db
<1>5. ASSUME NEW a \in Approval, NEW act \in Action, NEW p \in People,
             Tap(p, a, act)
      PROVE  Roles'
  <2> DEFINE t == [pc |-> "authorize", a |-> a, verdict |-> verdictOf(act),
                   all |-> act = "allowall", note |-> FALSE,
                   read |-> stored[a], ids |-> {}]
  <2>1. verdictOf(act) \in Decided \ {"expired"}
    BY DEF verdictOf, Decided
  <2>2. t \in Thread
    BY <2>1 DEF TypeOK, Thread, FinPc
  <2>3. p \in Finalizer /\ p \in Actor
    BY DEF Finalizer, Actor
  <2>4. RoleOf(p, t)
    BY <2>1, <2>3 DEF RoleOf
  <2> QED
    BY <1>5, <2>2, <2>3, <2>4, RoleTaken DEF Tap, begin, db
<1>6. ASSUME NEW a \in Approval, NEW act \in Action, NEW d \in Dashboard,
             Click(d, a, act)
      PROVE  Roles'
  <2> DEFINE t == [pc |-> "update", a |-> a, verdict |-> verdictOf(act),
                   all |-> act = "allowall", note |-> orphaned(a, verdictOf(act)),
                   read |-> stored[a], ids |-> {}]
  <2>1. verdictOf(act) \in Decided \ {"expired"} /\ orphaned(a, verdictOf(act)) \in BOOLEAN
    BY DEF verdictOf, Decided, orphaned
  <2>2. t \in Thread
    BY <2>1 DEF TypeOK, Thread, FinPc
  <2>3. d \in Finalizer /\ d \in Actor
    BY DEF Finalizer, Actor
  <2>4. RoleOf(d, t)
    BY <2>1, <2>3 DEF RoleOf
  <2> QED
    BY <1>6, <2>2, <2>3, <2>4, RoleTaken DEF Click, begin, db
<1>7. ASSUME NEW f \in Finalizer, Authorize(f)
      PROVE  Roles'
  <2>1. CASE f \in approver
    <3> DEFINE t == [fin[f] EXCEPT !.pc = "update",
                                   !.note = orphaned(fin[f].a, fin[f].verdict)]
    <3>1. fin' = [fin EXCEPT ![f] = t]
      BY <1>7, <2>1 DEF Authorize
    <3>2. orphaned(fin[f].a, fin[f].verdict) \in BOOLEAN
      BY DEF orphaned
    <3>3. t \in Thread
      BY <3>2, ThreadFields DEF TypeOK
    <3>4. RoleOf(f, t)
      BY <1>7 DEF Authorize, at, Roles, RoleOf, TypeOK, Thread
    <3> QED
      BY <1>7, <3>1, <3>3, <3>4, RoleTaken DEF Authorize, db
  <2>2. CASE f \notin approver
    BY <1>7, <2>2, RoleMoves DEF Authorize, at, db, FinPc
  <2> QED
    BY <2>1, <2>2
<1>8. ASSUME NEW f \in Finalizer, Finalize(f)
      PROVE  Roles'
  <2>1. CASE stillPending(fin[f].a)
    <3> DEFINE t == [fin[f] EXCEPT !.pc = "settle", !.ids = knownCards(fin[f].a)]
    <3>1. fin' = [fin EXCEPT ![f] = t]
      BY <1>8, <2>1 DEF Finalize
    <3>2. knownCards(fin[f].a) \in SUBSET People
      BY DEF knownCards, TypeOK, Thread
    <3>3. t \in Thread
      BY <3>2, ThreadFields DEF TypeOK
    <3>4. RoleOf(f, t)
      BY <1>8 DEF Finalize, at, Roles, RoleOf, TypeOK, Thread
    <3> QED
      BY <1>8, <3>1, <3>3, <3>4, RoleTaken DEF Finalize
  <2>2. CASE ~stillPending(fin[f].a)
    BY <1>8, <2>2, RoleMoves DEF Finalize, at, FinPc
  <2> QED
    BY <2>1, <2>2
<1>9. ASSUME NEW f \in Finalizer, Settle(f)
      PROVE  Roles'
  BY <1>9, RoleMoves DEF Settle, at, db, FinPc
<1>10. ASSUME NEW f \in Finalizer, EditCards(f)
      PROVE  Roles'
  <2>1. afterEdit(f) \in FinPc /\ (afterEdit(f) \in {"check", "grant"} => fin[f].all)
    BY DEF afterEdit, FinPc
  <2> QED
    BY <1>10, <2>1, RoleMoves DEF EditCards, next, at, db, FinPc
<1>11. ASSUME NEW f \in Finalizer, CheckAllowance(f)
      PROVE  Roles'
  <2>1. fin[f].all
    BY <1>11 DEF CheckAllowance, at, Roles, RoleOf
  <2>2. afterGrant(f) \in FinPc
    BY DEF afterGrant, FinPc
  <2> QED
    BY <1>11, <2>1, <2>2, RoleMoves DEF CheckAllowance, next, at, db, FinPc
<1>12. ASSUME NEW f \in Finalizer, GrantAllowance(f)
      PROVE  Roles'
  <2>1. afterGrant(f) \in FinPc \ {"check", "grant"}
    BY DEF afterGrant, FinPc
  <2> QED
    BY <1>12, <2>1, RoleMoves DEF GrantAllowance, next, at, FinPc
<1>13. ASSUME NEW f \in Finalizer, RunApprovedToolCall(f)
      PROVE  Roles'
  BY <1>13, RoleMoves DEF RunApprovedToolCall, at, db, FinPc
<1>14. ASSUME NEW f \in Finalizer,
              ReportOutcome(f) \/ NotifyApproversExpired(f) \/ FinalizerFails(f)
      PROVE  Roles'
  <2>1. stop(f) /\ fin[f].pc # "idle" /\ UNCHANGED <<ttl, todo>>
    BY <1>14 DEF ReportOutcome, NotifyApproversExpired, FinalizerFails, at, db
  <2>2. "idle" \in FinPc
    BY DEF FinPc
  <2> QED
    BY <2>1, <2>2, RoleMoves
<1>15. CASE SweepReads
  BY <1>15, RolesKept DEF SweepReads, stale, db, Roles
<1>16. CASE (\E s \in Subject : RevokeAllowance(s)) \/ (\E p \in People : SetApprover(p))
  BY <1>16, RolesKept DEF RevokeAllowance, SetApprover, mem, Roles
<1>17. CASE Restart
  BY <1>17, IdleIsThread DEF Restart, db, Roles, RoleOf
<1>18. CASE UNCHANGED vars
  BY <1>18, RolesKept DEF vars, Roles
<1> QED
  BY <1>1, <1>2, <1>3, <1>4, <1>5, <1>6, <1>7, <1>8, <1>9, <1>10, <1>11,
     <1>12, <1>13, <1>14, <1>15, <1>16, <1>17, <1>18
  DEF Next, FinalizerStep, SweepStep

(* The roles hold throughout.                                              *)
THEOREM RolesHold == Spec => []Roles
<1>1. Init => Roles
  BY DEF Init, Roles, RoleOf, Idle
<1> QED
  BY <1>1, NextRoles, Invariant, PTL DEF Spec

(* The status of a row is written by two actions only.                     *)
LEMMA StatusMoves ==
  ASSUME [Next]_vars
  PROVE  \/ UNCHANGED status
         \/ \E a \in Approval : InsertRow(a)
         \/ \E f \in Finalizer : Finalize(f)
<1> USE DEF db, mem
<1>1. ASSUME NEW a \in Approval,
             \/ Gate(a) \/ CallerFails(a) \/ TtlElapses(a) \/ TimerFires(a)
             \/ CallerStep(a) /\ ~InsertRow(a)
      PROVE  UNCHANGED status
  BY <1>1 DEF Gate, Waive, Ask, CallerStep, ListApprovers, StoreIds, AwaitDecision,
              Resume, PostCard, CallerFails, TtlElapses, TimerFires
<1>2. ASSUME NEW a \in Approval, NEW act \in Action,
             \/ \E p \in People : Tap(p, a, act)
             \/ \E d \in Dashboard : Click(d, a, act)
      PROVE  UNCHANGED status
  BY <1>2 DEF Tap, Click
<1>3. ASSUME NEW f \in Finalizer,
             \/ FinalizerStep(f) /\ ~Finalize(f)
             \/ FinalizerFails(f)
      PROVE  UNCHANGED status
  BY <1>3 DEF FinalizerStep, Authorize, Settle, EditCards, CheckAllowance,
              GrantAllowance, RunApprovedToolCall, ReportOutcome,
              NotifyApproversExpired, FinalizerFails
<1>4. CASE SweepStep \/ Restart \/ UNCHANGED vars
  BY <1>4 DEF SweepStep, SweepReads, SweepTakes, Restart, vars
<1>5. CASE (\E s \in Subject : RevokeAllowance(s)) \/ (\E p \in People : SetApprover(p))
  BY <1>5 DEF RevokeAllowance, SetApprover
<1> QED
  BY <1>1, <1>2, <1>3, <1>4, <1>5 DEF Next, CallerStep, FinalizerStep

(* Only people and admins approve or deny, and only what is due expires.   *)
THEOREM DecidedByRight == Spec => VerdictsHaveAuthors
<1>1. ASSUME TypeOK, CallerInv, Roles, [Next]_vars, NEW a \in Approval,
             status'[a] # status[a]
      PROVE  \/ /\ status[a] = "none" /\ status'[a] = "pending"
                /\ caller[a] = "insert"
             \/ /\ status[a] = "pending" /\ status'[a] \in {"approved", "denied"}
                /\ \E f \in Actor : /\ at(f, "update") /\ fin[f].a = a
                                    /\ fin[f].verdict = status'[a]
             \/ /\ status[a] = "pending" /\ status'[a] = "expired"
                /\ a \in ttl
  <2>1. CASE \E b \in Approval : InsertRow(b)
    <3>1. PICK b \in Approval : InsertRow(b)
      BY <2>1
    <3>2. b = a /\ caller[a] = "insert" /\ status'[a] = "pending"
      BY <1>1, <3>1 DEF InsertRow, TypeOK
    <3> QED
      BY <1>1, <3>2 DEF CallerInv, NoRowYet
  <2>2. CASE \E f \in Finalizer : Finalize(f)
    <3>1. PICK f \in Finalizer : Finalize(f)
      BY <2>2
    <3>2. /\ fin[f].a = a /\ fin[f].pc = "update"
          /\ status[a] = "pending" /\ status'[a] = fin[f].verdict
      BY <1>1, <3>1 DEF Finalize, at, stillPending, TypeOK, Thread
    <3>3. IF f \in Actor THEN fin[f].verdict # "expired"
          ELSE fin[f].verdict = "expired" /\ fin[f].a \in ttl
      BY <1>1, <3>2 DEF Roles, RoleOf
    <3>4. fin[f].verdict \in Decided
      BY <1>1 DEF TypeOK, Thread
    <3> QED
      BY <3>2, <3>3, <3>4 DEF at, Decided
  <2> QED
    BY <1>1, <2>1, <2>2, StatusMoves
<1>2. IInv /\ Roles /\ [Next]_vars => [\A a \in Approval : status'[a] # status[a] =>
       \/ /\ status[a] = "none" /\ status'[a] = "pending"
          /\ caller[a] = "insert"
       \/ /\ status[a] = "pending" /\ status'[a] \in {"approved", "denied"}
          /\ \E f \in Actor : /\ at(f, "update") /\ fin[f].a = a
                              /\ fin[f].verdict = status'[a]
       \/ /\ status[a] = "pending" /\ status'[a] = "expired"
          /\ a \in ttl]_vars
  BY <1>1 DEF IInv
<1> QED
  BY <1>2, Invariant, RolesHold, PTL DEF Spec, VerdictsHaveAuthors

(* Standing allowances come from "Allow always" and nothing else.          *)
THEOREM GrantsHaveAuthors == Spec => GrantsAreSanctioned
<1>1. ASSUME TypeOK, ThreadInv, Roles, [Next]_vars, NEW s \in Subject,
             allow'[s] > allow[s]
      PROVE  \E f \in Actor : /\ at(f, "grant") /\ fin[f].all
                              /\ SubjectOf[fin[f].a] = s
                              /\ status[fin[f].a] = "approved"
  <2>1. allow[s] \in Nat /\ ~(allow[s] > allow[s])
    BY <1>1 DEF TypeOK
  <2>2. ASSUME NEW f \in Finalizer, GrantAllowance(f)
        PROVE  f \in Actor /\ at(f, "grant") /\ fin[f].all
               /\ SubjectOf[fin[f].a] = s /\ status[fin[f].a] = "approved"
    <3>1. fin[f].pc = "grant" /\ SubjectOf[fin[f].a] = s
      BY <1>1, <2>1, <2>2 DEF GrantAllowance, at, TypeOK
    <3>2. fin[f].verdict = "approved" /\ status[fin[f].a] = "approved"
      BY <1>1, <3>1 DEF ThreadInv, WinnerVerdict, Executor, Won
    <3>3. fin[f].all /\ f \in Actor
      BY <1>1, <3>1, <3>2 DEF Roles, RoleOf
    <3> QED
      BY <3>1, <3>2, <3>3 DEF at
  <2>3. ASSUME NEW r \in Subject, RevokeAllowance(r)
        PROVE  FALSE
    BY <1>1, <2>1, <2>3 DEF RevokeAllowance, TypeOK
  <2> USE DEF db, mem
  <2>4. ASSUME NEW a \in Approval,
               Gate(a) \/ CallerStep(a) \/ CallerFails(a) \/ TtlElapses(a) \/ TimerFires(a)
        PROVE  UNCHANGED allow
    BY <2>4 DEF Gate, Waive, Ask, CallerStep, InsertRow, ListApprovers, StoreIds,
                AwaitDecision, Resume, PostCard, CallerFails, TtlElapses, TimerFires
  <2>5. ASSUME NEW a \in Approval, NEW act \in Action,
               \/ \E p \in People : Tap(p, a, act)
               \/ \E d \in Dashboard : Click(d, a, act)
        PROVE  UNCHANGED allow
    BY <2>5 DEF Tap, Click
  <2>6. ASSUME NEW f \in Finalizer,
               \/ FinalizerStep(f) /\ ~GrantAllowance(f)
               \/ FinalizerFails(f)
        PROVE  UNCHANGED allow
    BY <2>6 DEF FinalizerStep, Authorize, Finalize, Settle, EditCards, CheckAllowance,
                RunApprovedToolCall, ReportOutcome, NotifyApproversExpired,
                FinalizerFails
  <2>7. CASE SweepStep \/ Restart \/ UNCHANGED vars
    BY <1>1, <2>1, <2>7 DEF SweepStep, SweepReads, SweepTakes, Restart, vars
  <2>8. ASSUME NEW p \in People, SetApprover(p)
        PROVE  UNCHANGED allow
    BY <2>8 DEF SetApprover
  <2> QED
    BY <1>1, <2>1, <2>2, <2>3, <2>4, <2>5, <2>6, <2>7, <2>8 DEF Next, FinalizerStep
<1>2. IInv /\ Roles /\ [Next]_vars => [\A s \in Subject : allow'[s] > allow[s] =>
       \E f \in Actor : /\ at(f, "grant") /\ fin[f].all
                        /\ SubjectOf[fin[f].a] = s
                        /\ status[fin[f].a] = "approved"]_vars
  BY <1>1 DEF IInv
<1> QED
  BY <1>2, Invariant, RolesHold, PTL DEF Spec, GrantsAreSanctioned

(* What a waiter sees of the steps that do not concern it.                 *)
LEMMA StillAttended ==
  ASSUME NEW a \in Approval, caller[a] = "waiting", outcome[a] = "none", Attended(a),
         caller'[a] = caller[a], outcome'[a] = outcome[a], resolver \subseteq resolver',
         status'[a] = status[a],
         \A f \in Finalizer : at(f, "settle") => fin'[f] = fin[f]
  PROVE  caller'[a] = "waiting" /\ outcome'[a] = "none" /\ Attended(a)'
BY DEF Attended, at

(* A waiter whose promise is in the map is told, whoever wins its row.     *)
THEOREM WaitersAreTold == Spec => NoWakeupIsLost
<1>1. ASSUME TypeOK, ThreadInv, [Next]_vars, NEW a \in Approval,
             caller[a] = "waiting", outcome[a] = "none", Attended(a)
      PROVE  \/ caller'[a] = "waiting" /\ outcome'[a] = "none" /\ Attended(a)'
             \/ outcome'[a] \in Decided /\ outcome'[a] = status'[a]
             \/ caller'[a] = "lost"
  <2> USE <1>1 DEF db, mem
  <2>1. ASSUME NEW b \in Approval, Gate(b) \/ CallerStep(b) \/ CallerFails(b)
        PROVE  caller'[a] = "waiting" /\ outcome'[a] = "none" /\ Attended(a)'
    <3>1. /\ caller'[a] = caller[a]
          /\ UNCHANGED <<outcome, fin>>
          /\ resolver \subseteq resolver'
      BY <2>1 DEF Gate, Waive, Ask, CallerStep, InsertRow, ListApprovers, StoreIds,
                  AwaitDecision, Resume, PostCard, CallerFails, goto, TypeOK
    <3>2. status'[a] = status[a]
      BY <2>1 DEF Gate, Waive, Ask, CallerStep, InsertRow, ListApprovers, StoreIds,
                  AwaitDecision, Resume, PostCard, CallerFails, goto, TypeOK
    <3> QED
      BY <3>1, <3>2, StillAttended
  <2>2. ASSUME NEW b \in Approval, TtlElapses(b) \/ TimerFires(b)
        PROVE  caller'[a] = "waiting" /\ outcome'[a] = "none" /\ Attended(a)'
    BY <2>2, StillAttended DEF TtlElapses, TimerFires, begin, at, TypeOK
  <2>3. ASSUME NEW b \in Approval, NEW act \in Action,
               \/ \E p \in People : Tap(p, b, act)
               \/ \E d \in Dashboard : Click(d, b, act)
        PROVE  caller'[a] = "waiting" /\ outcome'[a] = "none" /\ Attended(a)'
    BY <2>3, StillAttended DEF Tap, Click, begin, at, TypeOK
  <2>4. ASSUME NEW f \in Finalizer,
               \/ FinalizerFails(f) \/ Authorize(f) \/ EditCards(f)
               \/ CheckAllowance(f) \/ GrantAllowance(f) \/ RunApprovedToolCall(f)
               \/ ReportOutcome(f) \/ NotifyApproversExpired(f)
        PROVE  caller'[a] = "waiting" /\ outcome'[a] = "none" /\ Attended(a)'
    <3>1. UNCHANGED <<status, caller, outcome, resolver>>
      BY <2>4 DEF Authorize, EditCards, CheckAllowance, GrantAllowance,
                  RunApprovedToolCall, ReportOutcome, NotifyApproversExpired,
                  FinalizerFails
    <3>2. fin[f].pc # "settle" /\ \A g \in Finalizer \ {f} : fin'[g] = fin[g]
      BY <2>4 DEF Authorize, EditCards, CheckAllowance, GrantAllowance,
                  RunApprovedToolCall, ReportOutcome, NotifyApproversExpired,
                  FinalizerFails, at, next, step, stop, TypeOK
    <3> QED
      BY <3>1, <3>2, StillAttended DEF at
  <2>5. ASSUME NEW f \in Finalizer, Finalize(f)
        PROVE  caller'[a] = "waiting" /\ outcome'[a] = "none" /\ Attended(a)'
    <3>1. /\ UNCHANGED <<caller, outcome, resolver>>
          /\ fin[f].pc = "update"
          /\ \A g \in Finalizer \ {f} : fin'[g] = fin[g]
      BY <2>5 DEF Finalize, at, stop, TypeOK
    <3>2. CASE fin[f].a = a /\ status[a] = "pending"
      <4>1. fin'[f].pc = "settle" /\ fin'[f].a = a
        BY <2>5, <3>2 DEF Finalize, stillPending, TypeOK, Thread
      <4> QED
        BY <3>1, <4>1 DEF Attended, at
    <3>3. CASE ~(fin[f].a = a /\ status[a] = "pending")
      <4>1. status'[a] = status[a]
        BY <2>5, <3>3 DEF Finalize, stillPending, TypeOK
      <4> QED
        BY <3>1, <4>1, StillAttended DEF at
    <3> QED
      BY <3>2, <3>3
  <2>6. ASSUME NEW f \in Finalizer, Settle(f)
        PROVE  \/ caller'[a] = "waiting" /\ outcome'[a] = "none" /\ Attended(a)'
               \/ outcome'[a] \in Decided /\ outcome'[a] = status'[a]
    <3>1. /\ fin[f].pc = "settle"
          /\ UNCHANGED <<status, caller>>
          /\ \A g \in Finalizer \ {f} : fin'[g] = fin[g]
      BY <2>6 DEF Settle, at, step, TypeOK
    <3>2. CASE fin[f].a = a
      <4>1. outcome'[a] = fin[f].verdict
        BY <2>6, <3>2 DEF Settle, Attended, TypeOK
      <4>2. fin[f].verdict = status[a] /\ fin[f].verdict \in Decided
        BY <3>1, <3>2 DEF ThreadInv, WinnerVerdict, Won, TypeOK, Thread
      <4> QED
        BY <3>1, <4>1, <4>2
    <3>3. CASE fin[f].a # a
      <4>1. outcome'[a] = outcome[a] /\ a \in resolver'
        BY <2>6, <3>3 DEF Settle, Attended, TypeOK
      <4> QED
        BY <3>1, <3>3, <4>1 DEF Attended, at
    <3> QED
      BY <3>2, <3>3
  <2>7. CASE SweepStep
    BY <2>7, StillAttended DEF SweepStep, SweepReads, SweepTakes, begin, at, TypeOK
  <2>8. CASE (\E s \in Subject : RevokeAllowance(s)) \/ (\E p \in People : SetApprover(p))
    BY <2>8, StillAttended DEF RevokeAllowance, SetApprover
  <2>9. CASE Restart
    BY <2>9 DEF Restart, Ended
  <2>10. CASE UNCHANGED vars
    BY <2>10, StillAttended DEF vars
  <2> QED
    BY <2>1, <2>2, <2>3, <2>4, <2>5, <2>6, <2>7, <2>8, <2>9, <2>10
    DEF Next, FinalizerStep
<1>2. IInv /\ [Next]_vars =>
       [\A a \in Approval :
         caller[a] = "waiting" /\ outcome[a] = "none" /\ Attended(a)
         => \/ caller'[a] = "waiting" /\ outcome'[a] = "none" /\ Attended(a)'
            \/ outcome'[a] \in Decided /\ outcome'[a] = status'[a]
            \/ caller'[a] = "lost"]_vars
  BY <1>1 DEF IInv
<1> QED
  BY <1>2, Invariant, PTL DEF Spec, NoWakeupIsLost

=============================================================================

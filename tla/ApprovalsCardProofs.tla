------------------------- MODULE ApprovalsCardProofs -------------------------
(***************************************************************************)
(* Proofs about what Approvals tells people, for any number of actions,    *)
(* approvers, admins and faults: the texts of the cards, the note that a   *)
(* waiter is gone, and the alert that a tool call was not sent.            *)
(***************************************************************************)
EXTENDS ApprovalsProofs

(* A caller that has stored the ids of its cards.                          *)
Past == {"await", "waiting", "queued", "returned", "lost"}

(* Whoever knows of a card, and a card that was edited, is past that.      *)
Held  == \A f \in Finalizer :
           fin[f].ids # {} \/ fin[f].read # {} => caller[fin[f].a] \in Past
Kept  == \A a \in Approval : stored[a] # {} => caller[a] \in Past
Shown == \A a \in Approval, p \in People :
           card[a][p] \notin {"none", "open"} => caller[a] \in Past

(* A caller that is on its way to its decision is in the map.              *)
Waiter == \A a \in Approval :
  /\ /\ status[a] \in {"none", "pending"}
     /\ caller[a] \in {"insert", "list", "post", "await", "waiting"}
     => a \in resolver
  /\ caller[a] = "queued" => ~Blocking(a)
  /\ caller[a] = "returned" => outcome[a] # "none"

(* What has a time limit, or is on the sweep's list, has a row.             *)
Rowed == \A a \in ttl \union todo : status[a] # "none"

(* The note is only on threads that lose the race, or whose waiter is gone.*)
Noted == \A f \in Finalizer :
           /\ fin[f].pc # "idle" => status[fin[f].a] # "none"
           /\ fin[f].note =>
             /\ fin[f].pc # "idle"
             /\ fin[f].verdict = "approved"
             /\ Blocking(fin[f].a)
             /\ fin[f].pc \in Won \/ status[fin[f].a] = "pending"
                => caller[fin[f].a] \in {"lost", "failed"}

(* Besides CardTruth: a card with the result of a tool call has no thread  *)
(* left that could run it; one with the note has no waiter.                *)
Texts == \A a \in Approval, p \in People :
  /\ card[a][p] \in {"done", "failed"} =>
       ~Blocking(a) /\ \A f \in Finalizer : fin[f].pc \in Won => fin[f].a # a
  /\ card[a][p] = "orphaned" => Blocking(a) /\ caller[a] = "lost"

(* What the sweep announces is an expired tool call.                       *)
Alerts ==
  /\ fin[Sweep].verdict = "expired"
  /\ \A f \in Finalizer :
       fin[f].pc = "alert" => f = Sweep /\ ~Blocking(fin[f].a)
  /\ \A a \in alerted : status[a] = "expired" /\ ran[a] = 0 /\ ~Blocking(a)

(* A tool call that is to be reported as done has run, but for a fault.     *)
Reported == \A f \in Finalizer :
              fin[f].pc = "report" => ran[fin[f].a] > 0 \/ faults > 0

CallersTold == Held /\ Kept /\ Shown /\ Waiter
CardInv == CallersTold /\ Rowed /\ Noted /\ Reported /\ Texts /\ CardTruth /\ Alerts

-----------------------------------------------------------------------------
(* Types of what a thread holds, and whom the sweep is not.                *)
LEMMA Threads ==
  ASSUME TypeOK
  PROVE  /\ \A f \in Finalizer : /\ fin[f].a \in Approval /\ fin[f].pc \in FinPc
                                 /\ fin[f].verdict \in Decided /\ fin[f].note \in BOOLEAN
                                 /\ fin[f].read \in SUBSET People
                                 /\ fin[f].ids \in SUBSET People
         /\ Sweep \in Finalizer /\ People \subseteq Finalizer
         /\ Dashboard \subseteq Finalizer /\ Approval \subseteq Finalizer
         /\ Sweep \notin People \union Dashboard \union Approval
  BY ConstantsOK DEF ConstantsOK, TypeOK, Thread, Finalizer, Actor

(* A thread that goes on keeps what it holds; one that stops holds nothing.*)
LEMMA GoesOn ==
  ASSUME TypeOK, NEW f \in Finalizer, NEW pc, step(f, pc)
  PROVE  \A g \in Finalizer :
           /\ fin'[g].a = fin[g].a /\ fin'[g].verdict = fin[g].verdict
           /\ fin'[g].note = fin[g].note /\ fin'[g].read = fin[g].read
           /\ fin'[g].ids = fin[g].ids
           /\ fin'[g].pc = IF g = f THEN pc ELSE fin[g].pc
  BY DEF TypeOK, Thread, step

(* One that stops holds nothing.                                           *)
LEMMA Stops ==
  ASSUME TypeOK, NEW f \in Finalizer, stop(f)
  PROVE  /\ \A g \in Finalizer : g # f => fin'[g] = fin[g]
         /\ fin'[f] = Idle
         /\ fin'[f].pc = "idle" /\ fin'[f].verdict = "expired" /\ fin'[f].note = FALSE
         /\ fin'[f].read = {} /\ fin'[f].ids = {}
  BY DEF TypeOK, stop, Idle

(* Either way, what it holds is what it held, or nothing.                  *)
LEMMA Holds ==
  ASSUME TypeOK, NEW f \in Finalizer, NEW pc, next(f, pc) \/ step(f, pc) \/ stop(f)
  PROVE  \A g \in Finalizer :
           \/ /\ fin'[g].a = fin[g].a /\ fin'[g].verdict = fin[g].verdict
              /\ fin'[g].note = fin[g].note /\ fin'[g].read = fin[g].read
              /\ fin'[g].ids = fin[g].ids
           \/ /\ fin'[g].pc = "idle" /\ fin'[g].verdict = "expired"
              /\ fin'[g].note = FALSE /\ fin'[g].read = {} /\ fin'[g].ids = {}
<1>1. CASE step(f, pc) BY <1>1, GoesOn
<1>2. CASE stop(f) BY <1>2, Stops
<1> QED BY <1>1, <1>2 DEF next

(* So does the tool call of an approved action.                            *)
LEMMA ToolHolds ==
  ASSUME TypeOK, NEW f \in Finalizer, RunApprovedToolCall(f)
  PROVE  \A g \in Finalizer :
           \/ /\ fin'[g].a = fin[g].a /\ fin'[g].read = fin[g].read
              /\ fin'[g].ids = fin[g].ids
           \/ fin'[g].ids = {} /\ fin'[g].read = {}
<1>1. PICK pc : step(f, pc) \/ stop(f) BY DEF RunApprovedToolCall
<1> QED BY <1>1, Holds

(* An edit shows its text to whom it knows, and nothing else changes.      *)
LEMMA Edits ==
  ASSUME TypeOK, NEW a \in Approval, NEW ps \in SUBSET People, NEW text,
         editCards(a, ps, text)
  PROVE  \A b \in Approval, p \in People :
           card'[b][p] = card[b][p] \/ (b = a /\ p \in ps /\ card'[b][p] = text)
  BY DEF TypeOK, editCards

(* A thread that knows no more cards than it knew, or than the row does.   *)
LEMMA HeldKept ==
  ASSUME TypeOK, Held, Kept, UNCHANGED caller,
         \A g \in Finalizer :
           \/ /\ fin'[g].a = fin[g].a /\ fin'[g].read = fin[g].read
              /\ fin'[g].ids = fin[g].ids \/ fin'[g].ids = stored[fin[g].a]
           \/ fin'[g].ids = {} /\ fin'[g].read = {}
  PROVE  Held'
<1> SUFFICES ASSUME NEW g \in Finalizer, fin'[g].ids # {} \/ fin'[g].read # {}
             PROVE  caller[fin'[g].a] \in Past
  BY DEF Held
<1>1. fin[g].a \in Approval BY DEF TypeOK, Thread
<1>2. fin'[g].a = fin[g].a OBVIOUS
<1>3. fin[g].ids # {} \/ fin[g].read # {} \/ stored[fin[g].a] # {}
  OBVIOUS
<1> QED BY <1>1, <1>2, <1>3 DEF Held, Kept

(* Every step keeps what is claimed about callers.                         *)
LEMMA NextCallersTold ==
  ASSUME IInv, IInv', CallersTold, [Next]_vars
  PROVE  CallersTold'
<1> USE Threads, IdleIsThread
    DEF IInv, TypeOK, Thread, CallerInv, OutcomeIsVerdict, NoRowYet, CallerRuns,
        CallersTold, Held, Kept, Shown, Waiter, Past, Ended, CallerPc, Decided, Status,
        goto, perform, at, step, stop, begin, Idle, db, editCards
<1>1. ASSUME NEW a \in Approval, Waive(a) PROVE CallersTold'
  BY <1>1 DEF Waive
<1>2. ASSUME NEW a \in Approval, Ask(a) PROVE CallersTold'
  BY <1>2 DEF Ask
<1>3. ASSUME NEW a \in Approval, InsertRow(a) PROVE CallersTold'
  BY <1>3 DEF InsertRow
<1>4. ASSUME NEW a \in Approval, ListApprovers(a) PROVE CallersTold'
  BY <1>4 DEF ListApprovers
<1>5. ASSUME NEW a \in Approval, NEW p \in People, PostCard(a, p)
      PROVE  CallersTold'
  <2>1. \A b \in Approval, q \in People :
          card'[b][q] = card[b][q] \/ card'[b][q] = "open"
    <3>1. CASE card' = card BY <3>1
    <3>2. CASE card' = [card EXCEPT ![a][p] = "open"]
      <4>1. card \in [Approval -> [People -> CardText]] OBVIOUS
      <4> QED BY <3>2, <4>1
    <3> QED BY <1>5, <3>1, <3>2 DEF PostCard
  <2>2. Shown' BY <1>5, <2>1 DEF PostCard
  <2>3. Held' /\ Kept' /\ Waiter' BY <1>5 DEF PostCard
  <2> QED BY <2>2, <2>3
<1>6. ASSUME NEW a \in Approval, StoreIds(a) PROVE CallersTold'
  BY <1>6 DEF StoreIds
<1>7. ASSUME NEW a \in Approval, AwaitDecision(a) PROVE CallersTold'
  BY <1>7 DEF AwaitDecision
<1>8. ASSUME NEW a \in Approval, Resume(a) PROVE CallersTold'
  BY <1>8 DEF Resume
<1>9. ASSUME NEW a \in Approval, CallerFails(a) PROVE CallersTold'
  BY <1>9 DEF CallerFails
<1>10. ASSUME NEW a \in Approval, TtlElapses(a) PROVE CallersTold'
  BY <1>10 DEF TtlElapses, mem
<1>11. ASSUME NEW a \in Approval, TimerFires(a) PROVE CallersTold'
  BY <1>11 DEF TimerFires
<1>12. ASSUME NEW p \in People, NEW a \in Approval, NEW act \in Action, Tap(p, a, act)
       PROVE  CallersTold'
  BY <1>12 DEF Tap
<1>13. ASSUME NEW d \in Dashboard, NEW a \in Approval, NEW act \in Action, Click(d, a, act)
       PROVE  CallersTold'
  BY <1>13 DEF Click
<1>14. ASSUME NEW f \in People, Authorize(f) PROVE CallersTold'
  <2>1. \A g \in Finalizer :
          \/ fin'[g].a = fin[g].a /\ fin'[g].ids = fin[g].ids /\ fin'[g].read = fin[g].read
          \/ fin'[g].ids = {} /\ fin'[g].read = {}
    <3>1. CASE stop(f) BY <3>1, Stops
    <3>2. CASE fin' = [fin EXCEPT ![f].pc = "update",
                                  ![f].note = orphaned(fin[f].a, fin[f].verdict)]
      BY <3>2
    <3> QED BY <1>14, <3>1, <3>2 DEF Authorize
  <2>2. Held' BY <1>14, <2>1, HeldKept DEF Authorize
  <2>3. Kept' /\ Shown' /\ Waiter' BY <1>14 DEF Authorize
  <2> QED BY <2>2, <2>3
<1>15. ASSUME NEW f \in Finalizer, Finalize(f) PROVE CallersTold'
  <2>1. \A g \in Finalizer :
          \/ /\ fin'[g].a = fin[g].a /\ fin'[g].read = fin[g].read
             /\ fin'[g].ids = fin[g].ids \/ fin'[g].ids = stored[fin[g].a]
          \/ fin'[g].ids = {} /\ fin'[g].read = {}
    <3>1. CASE stop(f) BY <3>1, Stops
    <3>2. CASE fin' = [fin EXCEPT ![f].pc = "settle", ![f].ids = stored[fin[f].a]]
      BY <3>2
    <3> QED BY <1>15, <3>1, <3>2 DEF Finalize, knownCards
  <2>2. Held' BY <1>15, <2>1, HeldKept DEF Finalize
  <2>3. Kept' /\ Shown' BY <1>15 DEF Finalize
  <2>4. \A b \in Approval : status'[b] \in {"none", "pending"} => status'[b] = status[b]
    <3>1. status' = status \/ status' = [status EXCEPT ![fin[f].a] = fin[f].verdict]
      BY <1>15 DEF Finalize
    <3>2. fin[f].verdict \notin {"none", "pending"} OBVIOUS
    <3> QED BY <3>1, <3>2
  <2>5. Waiter' BY <1>15, <2>4 DEF Finalize
  <2> QED BY <2>2, <2>3, <2>5
<1>16. ASSUME NEW f \in Finalizer, Settle(f) PROVE CallersTold'
  <2>1. Held'
    <3>1. UNCHANGED caller BY <1>16 DEF Settle
    <3>2. \A g \in Finalizer :
            \/ /\ fin'[g].a = fin[g].a /\ fin'[g].read = fin[g].read
               /\ fin'[g].ids = fin[g].ids
            \/ fin'[g].ids = {} /\ fin'[g].read = {}
      BY <1>16, Holds DEF Settle
    <3> QED BY <3>1, <3>2, HeldKept
  <2>2. Kept' /\ Shown' BY <1>16 DEF Settle
  <2>3. status[fin[f].a] \in Decided /\ fin[f].verdict # "none"
    BY <1>16, WinnerDecided DEF Settle, Won
  <2>4. Waiter' BY <1>16, <2>3 DEF Settle
  <2> QED BY <2>1, <2>2, <2>4
<1>17. ASSUME NEW f \in Finalizer, EditCards(f) PROVE CallersTold'
  <2>1. Held'
    <3>1. UNCHANGED caller BY <1>17 DEF EditCards
    <3>2. \A g \in Finalizer :
            \/ /\ fin'[g].a = fin[g].a /\ fin'[g].read = fin[g].read
               /\ fin'[g].ids = fin[g].ids
            \/ fin'[g].ids = {} /\ fin'[g].read = {}
      <4>1. PICK pc : next(f, pc) BY <1>17 DEF EditCards
      <4> QED BY <4>1, Holds
    <3> QED BY <3>1, <3>2, HeldKept
  <2>2. Kept' /\ Waiter' BY <1>17 DEF EditCards
  <2>3. \A b \in Approval, p \in People :
          card'[b][p] = card[b][p] \/ (b = fin[f].a /\ p \in fin[f].ids)
    BY <1>17, Edits DEF EditCards
  <2>4. Shown' BY <1>17, <2>3 DEF EditCards
  <2> QED BY <2>1, <2>2, <2>4
<1>18. ASSUME NEW f \in Finalizer, CheckAllowance(f) PROVE CallersTold'
  <2>1. Held'
    <3>1. UNCHANGED caller BY <1>18 DEF CheckAllowance
    <3>2. \A g \in Finalizer :
            \/ /\ fin'[g].a = fin[g].a /\ fin'[g].read = fin[g].read
               /\ fin'[g].ids = fin[g].ids
            \/ fin'[g].ids = {} /\ fin'[g].read = {}
      <4>1. PICK pc : next(f, pc) BY <1>18 DEF CheckAllowance
      <4> QED BY <4>1, Holds
    <3> QED BY <3>1, <3>2, HeldKept
  <2>2. Kept' /\ Shown' BY <1>18 DEF CheckAllowance
  <2>3. Waiter' BY <1>18 DEF CheckAllowance
  <2> QED BY <2>1, <2>2, <2>3
<1>19. ASSUME NEW f \in Finalizer, GrantAllowance(f) PROVE CallersTold'
  <2>1. Held'
    <3>1. UNCHANGED caller BY <1>19 DEF GrantAllowance
    <3>2. \A g \in Finalizer :
            \/ /\ fin'[g].a = fin[g].a /\ fin'[g].read = fin[g].read
               /\ fin'[g].ids = fin[g].ids
            \/ fin'[g].ids = {} /\ fin'[g].read = {}
      <4>1. PICK pc : next(f, pc) BY <1>19 DEF GrantAllowance
      <4> QED BY <4>1, Holds
    <3> QED BY <3>1, <3>2, HeldKept
  <2>2. Kept' /\ Shown' BY <1>19 DEF GrantAllowance
  <2>3. Waiter' BY <1>19 DEF GrantAllowance
  <2> QED BY <2>1, <2>2, <2>3
<1>20. ASSUME NEW f \in Finalizer, RunApprovedToolCall(f) PROVE CallersTold'
  <2>1. Held'
    <3>1. UNCHANGED caller BY <1>20 DEF RunApprovedToolCall
    <3>2. \A g \in Finalizer :
            \/ /\ fin'[g].a = fin[g].a /\ fin'[g].read = fin[g].read
               /\ fin'[g].ids = fin[g].ids
            \/ fin'[g].ids = {} /\ fin'[g].read = {}
      BY <1>20, ToolHolds
    <3> QED BY <3>1, <3>2, HeldKept
  <2>2. Kept' /\ Shown' /\ Waiter' BY <1>20 DEF RunApprovedToolCall
  <2> QED BY <2>1, <2>2
<1>21. ASSUME NEW f \in Finalizer, ReportOutcome(f) PROVE CallersTold'
  <2>1. Held'
    <3>1. UNCHANGED caller BY <1>21 DEF ReportOutcome
    <3>2. \A g \in Finalizer :
            \/ /\ fin'[g].a = fin[g].a /\ fin'[g].read = fin[g].read
               /\ fin'[g].ids = fin[g].ids
            \/ fin'[g].ids = {} /\ fin'[g].read = {}
      BY <1>21, Holds DEF ReportOutcome
    <3> QED BY <3>1, <3>2, HeldKept
  <2>2. Kept' /\ Waiter' BY <1>21 DEF ReportOutcome
  <2>3. \A b \in Approval, p \in People :
          card'[b][p] = card[b][p] \/ (b = fin[f].a /\ p \in fin[f].read)
    BY <1>21, Edits DEF ReportOutcome
  <2>4. Shown' BY <1>21, <2>3 DEF ReportOutcome
  <2> QED BY <2>1, <2>2, <2>4
<1>22. ASSUME NEW f \in Finalizer, NotifyApproversExpired(f) PROVE CallersTold'
  BY <1>22 DEF NotifyApproversExpired
<1>23. ASSUME NEW f \in Finalizer, FinalizerFails(f) PROVE CallersTold'
  BY <1>23 DEF FinalizerFails
<1>24. ASSUME SweepReads PROVE CallersTold'
  BY <1>24 DEF SweepReads
<1>25. ASSUME NEW a \in Approval, SweepTakes(a) PROVE CallersTold'
  BY <1>25 DEF SweepTakes
<1>26. ASSUME NEW s \in Subject, RevokeAllowance(s) PROVE CallersTold'
  BY <1>26 DEF RevokeAllowance, mem
<1>27. ASSUME NEW p \in People, SetApprover(p) PROVE CallersTold'
  BY <1>27 DEF SetApprover, mem
<1>28. ASSUME Restart PROVE CallersTold'
  BY <1>28 DEF Restart
<1>29. CASE UNCHANGED vars
  BY <1>29 DEF vars
<1> QED
  BY <1>1, <1>2, <1>3, <1>4, <1>5, <1>6, <1>7, <1>8, <1>9, <1>10, <1>11,
     <1>12, <1>13, <1>14, <1>15, <1>16, <1>17, <1>18, <1>19, <1>20, <1>21,
     <1>22, <1>23, <1>24, <1>25, <1>26, <1>27, <1>28, <1>29
  DEF Next, Gate, CallerStep, FinalizerStep, SweepStep
-----------------------------------------------------------------------------
(* What a step may do to a thread: leave it, end it, take it one handler   *)
(* further, or begin it on a pending row.                                  *)
Left(g)  == fin'[g] = fin[g]
Over(g)  == fin'[g].pc = "idle" /\ ~fin'[g].note /\ fin'[g].verdict = "expired"
Gone(g)  ==
  /\ fin'[g].a = fin[g].a /\ fin'[g].verdict = fin[g].verdict /\ fin[g].pc # "idle"
  /\ fin'[g].note => \/ fin[g].note
                     \/ orphaned(fin[g].a, fin[g].verdict) /\ fin'[g].pc = "update"
  /\ fin'[g].pc \in Won => fin[g].pc \in Won \/ status[fin[g].a] = "pending"
  /\ fin'[g].pc = "alert" => g = Sweep /\ ~Blocking(fin[g].a)
  /\ fin'[g].pc = "report" => ran'[fin[g].a] > 0 \/ faults' > 0
  /\ fin'[g].pc # "idle"
Begun(g) ==
  /\ fin'[g].pc \in {"authorize", "update"}
  /\ fin'[g].a \in Approval /\ status[fin'[g].a] # "none"
  /\ fin'[g].note => orphaned(fin'[g].a, fin'[g].verdict)
  /\ g = Sweep => fin'[g].verdict = "expired"
Onward(g) == Left(g) \/ Over(g) \/ Gone(g) \/ Begun(g)

(* What it may do to a row, its caller and the counts of runs and faults.  *)
Steady(b) ==
  /\ status[b] # "none" => status'[b] # "none"
  /\ status'[b] = "pending" => status[b] \in {"none", "pending"}
  /\ status[b] \in Decided => status'[b] = status[b]
  /\ caller[b] \in {"lost", "failed"} => caller'[b] = caller[b]
  /\ ran[b] <= ran'[b] /\ faults <= faults'
  /\ \/ ran'[b] = ran[b]
     \/ status[b] = "none"
     \/ caller[b] = "waiting"
     \/ \E f \in Finalizer : fin[f].pc = "execute" /\ fin[f].a = b

(* What it may do to a card: open it while its caller posts, or edit it.    *)
Edited(f, b, p) ==
  /\ fin[f].a = b
  /\ \/ /\ EditCards(f) /\ p \in fin[f].ids
        /\ card'[b][p] = IF fin[f].note THEN "orphaned" ELSE fin[f].verdict
     \/ /\ ReportOutcome(f) /\ p \in fin[f].read
        /\ card'[b][p] = IF at(f, "report") THEN "done" ELSE "failed"
Drawn(b, p) == \/ card'[b][p] = card[b][p]
               \/ card'[b][p] = "open" /\ caller[b] = "post"
               \/ \E f \in Finalizer : Edited(f, b, p)

(* A winner that goes on.                                                  *)
LEMMA WinnerOnward ==
  ASSUME TypeOK, NEW f \in Finalizer, NEW pc \in Won, step(f, pc),
         fin[f].pc \in Won, pc = "alert" => f = Sweep /\ ~Blocking(fin[f].a),
         pc = "report" => ran'[fin[f].a] > 0 \/ faults' > 0
  PROVE  \A g \in Finalizer : Onward(g)
<1>1. \A g \in Finalizer \ {f} : fin'[g] = fin[g] BY DEF step, TypeOK
<1>2. /\ fin'[f].a = fin[f].a /\ fin'[f].verdict = fin[f].verdict
      /\ fin'[f].pc = pc /\ (fin'[f].note => fin[f].note)
  BY GoesOn
<1>3. pc # "idle" /\ fin[f].pc # "idle" BY DEF Won
<1>4. Gone(f) BY <1>2, <1>3 DEF Gone
<1> QED BY <1>1, <1>4 DEF Onward, Left

(* Every step treats every thread so.                                      *)
LEMMA NextThreads ==
  ASSUME IInv, Rowed, [Next]_vars
  PROVE  \A g \in Finalizer : Onward(g)
<1> USE Threads DEF IInv, Onward, Left, db
<1>1. ASSUME NEW a \in Approval, Waive(a) PROVE \A g \in Finalizer : Onward(g)
  BY <1>1 DEF Waive
<1>2. ASSUME NEW a \in Approval, Ask(a) PROVE \A g \in Finalizer : Onward(g)
  BY <1>2 DEF Ask
<1>3. ASSUME NEW a \in Approval, InsertRow(a)
      PROVE  \A g \in Finalizer : Onward(g)
  BY <1>3 DEF InsertRow
<1>4. ASSUME NEW a \in Approval, ListApprovers(a)
      PROVE  \A g \in Finalizer : Onward(g)
  BY <1>4 DEF ListApprovers
<1>5. ASSUME NEW a \in Approval, NEW p \in People, PostCard(a, p)
      PROVE  \A g \in Finalizer : Onward(g)
  BY <1>5 DEF PostCard
<1>6. ASSUME NEW a \in Approval, StoreIds(a)
      PROVE  \A g \in Finalizer : Onward(g)
  BY <1>6 DEF StoreIds
<1>7. ASSUME NEW a \in Approval, AwaitDecision(a)
      PROVE  \A g \in Finalizer : Onward(g)
  BY <1>7 DEF AwaitDecision
<1>8. ASSUME NEW a \in Approval, Resume(a) PROVE \A g \in Finalizer : Onward(g)
  BY <1>8 DEF Resume
<1>9. ASSUME NEW a \in Approval, CallerFails(a)
      PROVE  \A g \in Finalizer : Onward(g)
  BY <1>9 DEF CallerFails
<1>10. ASSUME NEW a \in Approval, TtlElapses(a)
       PROVE  \A g \in Finalizer : Onward(g)
  BY <1>10 DEF TtlElapses, mem
<1>11. ASSUME NEW a \in Approval, TimerFires(a)
       PROVE  \A g \in Finalizer : Onward(g)
  <2>1. \A g \in Finalizer \ {a} : fin'[g] = fin[g]
    BY <1>11 DEF TimerFires, begin, TypeOK
  <2>2. Begun(a)
    BY <1>11, ConstantsOK DEF TimerFires, begin, TypeOK, Begun, Rowed, Finalizer, Actor,
       ConstantsOK
  <2> QED BY <2>1, <2>2
<1>12. ASSUME NEW p \in People, NEW a \in Approval, NEW act \in Action, Tap(p, a, act)
       PROVE  \A g \in Finalizer : Onward(g)
  <2>1. \A g \in Finalizer \ {p} : fin'[g] = fin[g]
    BY <1>12 DEF Tap, begin, TypeOK
  <2>2. Begun(p)
    BY <1>12, ConstantsOK DEF Tap, begin, TypeOK, Begun, Rowed, Finalizer, Actor,
       ConstantsOK
  <2> QED BY <2>1, <2>2
<1>13. ASSUME NEW d \in Dashboard, NEW a \in Approval, NEW act \in Action, Click(d, a, act)
       PROVE  \A g \in Finalizer : Onward(g)
  <2>1. \A g \in Finalizer \ {d} : fin'[g] = fin[g]
    BY <1>13 DEF Click, begin, TypeOK
  <2>2. Begun(d)
    BY <1>13, ConstantsOK DEF Click, begin, TypeOK, Begun, Rowed, Finalizer, Actor,
       ConstantsOK
  <2> QED BY <2>1, <2>2
<1>14. ASSUME NEW f \in People, Authorize(f)
       PROVE  \A g \in Finalizer : Onward(g)
  <2>1. CASE stop(f) BY <2>1, Stops DEF Over
  <2>2. CASE fin' = [fin EXCEPT ![f].pc = "update",
                                ![f].note = orphaned(fin[f].a, fin[f].verdict)]
    <3>1. fin[f].pc = "authorize" BY <1>14 DEF Authorize, at
    <3>2. \A g \in Finalizer : /\ g # f => fin'[g] = fin[g]
                               /\ fin'[g].a = fin[g].a
                               /\ fin'[g].verdict = fin[g].verdict
      BY <2>2 DEF TypeOK, Thread
    <3>3. fin'[f].pc = "update" /\ fin'[f].note = orphaned(fin[f].a, fin[f].verdict)
      BY <2>2 DEF TypeOK, Thread
    <3> QED BY <3>1, <3>2, <3>3 DEF Gone, Won
  <2> QED BY <1>14, <2>1, <2>2 DEF Authorize
<1>15. ASSUME NEW f \in Finalizer, Finalize(f)
       PROVE  \A g \in Finalizer : Onward(g)
  <2>1. CASE stop(f) BY <2>1, Stops DEF Over
  <2>2. CASE /\ status[fin[f].a] = "pending"
             /\ fin' = [fin EXCEPT ![f].pc = "settle", ![f].ids = stored[fin[f].a]]
    <3>1. fin[f].pc = "update" BY <1>15 DEF Finalize, at
    <3>2. \A g \in Finalizer : /\ g # f => fin'[g] = fin[g]
                               /\ fin'[g].a = fin[g].a
                               /\ fin'[g].verdict = fin[g].verdict
                               /\ fin'[g].note = fin[g].note
      BY <2>2 DEF TypeOK, Thread
    <3>3. fin'[f].pc = "settle"
      BY <2>2 DEF TypeOK, Thread
    <3>4. "settle" \notin {"idle", "update", "alert"} OBVIOUS
    <3>5. fin'[f].note => fin[f].note BY <3>2
    <3>6. Gone(f) BY <2>2, <3>1, <3>2, <3>3, <3>4, <3>5 DEF Gone
    <3> QED BY <3>2, <3>6
  <2> QED BY <1>15, <2>1, <2>2 DEF Finalize, stillPending, knownCards
<1>16. ASSUME NEW f \in Finalizer, Settle(f)
       PROVE  \A g \in Finalizer : Onward(g)
  <2>1. fin[f].pc = "settle" /\ step(f, "edit") BY <1>16 DEF Settle, at
  <2> QED BY <2>1, WinnerOnward DEF Won
<1>17. ASSUME NEW f \in Finalizer, EditCards(f)
       PROVE  \A g \in Finalizer : Onward(g)
  <2>1. PICK pc : next(f, pc) /\ pc \in {"idle", "check", "grant", "execute", "alert"}
                  /\ (pc = "alert" => f = Sweep /\ ~Blocking(fin[f].a))
    BY <1>17 DEF EditCards, afterEdit
  <2>2. fin[f].pc \in Won BY <1>17 DEF EditCards, at, Won
  <2>3. CASE stop(f) BY <2>3, Stops DEF Over
  <2>4. CASE step(f, pc) /\ pc # "idle" BY <2>1, <2>2, <2>4, WinnerOnward DEF Won
  <2> QED BY <2>1, <2>3, <2>4 DEF next
<1>18. ASSUME NEW f \in Finalizer, CheckAllowance(f)
       PROVE  \A g \in Finalizer : Onward(g)
  <2>1. PICK pc : next(f, pc) /\ pc \in {"idle", "check", "grant", "execute", "alert"}
                  /\ (pc = "alert" => f = Sweep /\ ~Blocking(fin[f].a))
    BY <1>18 DEF CheckAllowance, afterGrant
  <2>2. fin[f].pc \in Won BY <1>18 DEF CheckAllowance, at, Won
  <2>3. CASE stop(f) BY <2>3, Stops DEF Over
  <2>4. CASE step(f, pc) /\ pc # "idle" BY <2>1, <2>2, <2>4, WinnerOnward DEF Won
  <2> QED BY <2>1, <2>3, <2>4 DEF next
<1>19. ASSUME NEW f \in Finalizer, GrantAllowance(f)
       PROVE  \A g \in Finalizer : Onward(g)
  <2>1. PICK pc : next(f, pc) /\ pc \in {"idle", "check", "grant", "execute", "alert"}
                  /\ (pc = "alert" => f = Sweep /\ ~Blocking(fin[f].a))
    BY <1>19 DEF GrantAllowance, afterGrant
  <2>2. fin[f].pc \in Won BY <1>19 DEF GrantAllowance, at, Won
  <2>3. CASE stop(f) BY <2>3, Stops DEF Over
  <2>4. CASE step(f, pc) /\ pc # "idle" BY <2>1, <2>2, <2>4, WinnerOnward DEF Won
  <2> QED BY <2>1, <2>3, <2>4 DEF next
<1>20. ASSUME NEW f \in Finalizer, RunApprovedToolCall(f)
       PROVE  \A g \in Finalizer : Onward(g)
  <2>1. fin[f].pc = "execute" /\ fin[f].a \in Approval BY <1>20 DEF RunApprovedToolCall, at
  <2>2. CASE stop(f) BY <2>2, Stops DEF Over
  <2>3. CASE step(f, "report") /\ perform(fin[f].a)
    <3>1. ran'[fin[f].a] > 0 BY <2>1, <2>3 DEF perform, TypeOK
    <3> QED BY <2>1, <2>3, <3>1, WinnerOnward DEF Won
  <2>4. CASE step(f, "report") /\ Fault
    <3>1. faults' > 0 BY <2>4 DEF Fault, TypeOK
    <3> QED BY <2>1, <2>4, <3>1, WinnerOnward DEF Won
  <2>5. CASE step(f, "regret") BY <2>1, <2>5, WinnerOnward DEF Won
  <2> QED BY <1>20, <2>2, <2>3, <2>4, <2>5 DEF RunApprovedToolCall
<1>21. ASSUME NEW f \in Finalizer, ReportOutcome(f)
       PROVE  \A g \in Finalizer : Onward(g)
  <2>1. stop(f) BY <1>21 DEF ReportOutcome
  <2> QED BY <2>1, Stops DEF Over
<1>22. ASSUME NEW f \in Finalizer, NotifyApproversExpired(f)
       PROVE  \A g \in Finalizer : Onward(g)
  <2>1. stop(f) BY <1>22 DEF NotifyApproversExpired
  <2> QED BY <2>1, Stops DEF Over
<1>23. ASSUME NEW f \in Finalizer, FinalizerFails(f)
       PROVE  \A g \in Finalizer : Onward(g)
  <2>1. stop(f) BY <1>23 DEF FinalizerFails
  <2> QED BY <2>1, Stops DEF Over
<1>24. ASSUME SweepReads PROVE \A g \in Finalizer : Onward(g)
  BY <1>24 DEF SweepReads
<1>25. ASSUME NEW a \in Approval, SweepTakes(a)
       PROVE  \A g \in Finalizer : Onward(g)
  <2>1. \A g \in Finalizer \ {Sweep} : fin'[g] = fin[g]
    BY <1>25 DEF SweepTakes, begin, TypeOK
  <2>2. Begun(Sweep)
    BY <1>25, ConstantsOK DEF SweepTakes, begin, TypeOK, Begun, Rowed, Finalizer, Actor,
       ConstantsOK
  <2> QED BY <2>1, <2>2
<1>26. ASSUME NEW s \in Subject, RevokeAllowance(s)
       PROVE  \A g \in Finalizer : Onward(g)
  BY <1>26 DEF RevokeAllowance, mem
<1>27. ASSUME NEW p \in People, SetApprover(p)
       PROVE  \A g \in Finalizer : Onward(g)
  BY <1>27 DEF SetApprover, mem
<1>28. ASSUME Restart PROVE \A g \in Finalizer : Onward(g)
  BY <1>28, IdleIsThread DEF Restart, Over, Idle
<1>29. CASE UNCHANGED vars
  BY <1>29 DEF vars
<1> QED
  BY <1>1, <1>2, <1>3, <1>4, <1>5, <1>6, <1>7, <1>8, <1>9, <1>10, <1>11,
     <1>12, <1>13, <1>14, <1>15, <1>16, <1>17, <1>18, <1>19, <1>20, <1>21,
     <1>22, <1>23, <1>24, <1>25, <1>26, <1>27, <1>28, <1>29
  DEF Next, Gate, CallerStep, FinalizerStep, SweepStep

(* Every step keeps the rows of what is to expire.                         *)
LEMMA NextRowed ==
  ASSUME IInv, Rowed, [Next]_vars
  PROVE  Rowed'
<1> USE DEF IInv, TypeOK, Thread, Rowed, db, Decided, stale
<1>1. ASSUME NEW a \in Approval, Waive(a) PROVE Rowed'
  BY <1>1 DEF Waive
<1>2. ASSUME NEW a \in Approval, Ask(a) PROVE Rowed'
  BY <1>2 DEF Ask
<1>3. ASSUME NEW a \in Approval, InsertRow(a) PROVE Rowed'
  BY <1>3 DEF InsertRow
<1>4. ASSUME NEW a \in Approval, ListApprovers(a) PROVE Rowed'
  BY <1>4 DEF ListApprovers
<1>5. ASSUME NEW a \in Approval, NEW p \in People, PostCard(a, p) PROVE Rowed'
  BY <1>5 DEF PostCard
<1>6. ASSUME NEW a \in Approval, StoreIds(a) PROVE Rowed'
  BY <1>6 DEF StoreIds
<1>7. ASSUME NEW a \in Approval, AwaitDecision(a) PROVE Rowed'
  BY <1>7 DEF AwaitDecision
<1>8. ASSUME NEW a \in Approval, Resume(a) PROVE Rowed'
  BY <1>8 DEF Resume
<1>9. ASSUME NEW a \in Approval, CallerFails(a) PROVE Rowed'
  BY <1>9 DEF CallerFails
<1>10. ASSUME NEW a \in Approval, TtlElapses(a) PROVE Rowed'
  BY <1>10 DEF TtlElapses, mem
<1>11. ASSUME NEW a \in Approval, TimerFires(a) PROVE Rowed'
  BY <1>11 DEF TimerFires
<1>12. ASSUME NEW p \in People, NEW a \in Approval, NEW act \in Action, Tap(p, a, act)
       PROVE  Rowed'
  BY <1>12 DEF Tap
<1>13. ASSUME NEW d \in Dashboard, NEW a \in Approval, NEW act \in Action, Click(d, a, act)
       PROVE  Rowed'
  BY <1>13 DEF Click
<1>14. ASSUME NEW f \in People, Authorize(f) PROVE Rowed'
  BY <1>14 DEF Authorize
<1>15. ASSUME NEW f \in Finalizer, Finalize(f) PROVE Rowed'
  BY <1>15 DEF Finalize
<1>16. ASSUME NEW f \in Finalizer, Settle(f) PROVE Rowed'
  BY <1>16 DEF Settle
<1>17. ASSUME NEW f \in Finalizer, EditCards(f) PROVE Rowed'
  BY <1>17 DEF EditCards
<1>18. ASSUME NEW f \in Finalizer, CheckAllowance(f) PROVE Rowed'
  BY <1>18 DEF CheckAllowance
<1>19. ASSUME NEW f \in Finalizer, GrantAllowance(f) PROVE Rowed'
  BY <1>19 DEF GrantAllowance
<1>20. ASSUME NEW f \in Finalizer, RunApprovedToolCall(f) PROVE Rowed'
  BY <1>20 DEF RunApprovedToolCall
<1>21. ASSUME NEW f \in Finalizer, ReportOutcome(f) PROVE Rowed'
  BY <1>21 DEF ReportOutcome
<1>22. ASSUME NEW f \in Finalizer, NotifyApproversExpired(f) PROVE Rowed'
  BY <1>22 DEF NotifyApproversExpired
<1>23. ASSUME NEW f \in Finalizer, FinalizerFails(f) PROVE Rowed'
  BY <1>23 DEF FinalizerFails
<1>24. ASSUME SweepReads PROVE Rowed'
  BY <1>24 DEF SweepReads
<1>25. ASSUME NEW a \in Approval, SweepTakes(a) PROVE Rowed'
  BY <1>25 DEF SweepTakes
<1>26. ASSUME NEW s \in Subject, RevokeAllowance(s) PROVE Rowed'
  BY <1>26 DEF RevokeAllowance, mem
<1>27. ASSUME NEW p \in People, SetApprover(p) PROVE Rowed'
  BY <1>27 DEF SetApprover, mem
<1>28. ASSUME Restart PROVE Rowed'
  BY <1>28 DEF Restart
<1>29. CASE UNCHANGED vars
  BY <1>29 DEF vars
<1> QED
  BY <1>1, <1>2, <1>3, <1>4, <1>5, <1>6, <1>7, <1>8, <1>9, <1>10, <1>11,
     <1>12, <1>13, <1>14, <1>15, <1>16, <1>17, <1>18, <1>19, <1>20, <1>21,
     <1>22, <1>23, <1>24, <1>25, <1>26, <1>27, <1>28, <1>29
  DEF Next, Gate, CallerStep, FinalizerStep, SweepStep
-----------------------------------------------------------------------------
(* Every step treats every row so.                                         *)
LEMMA NextSteady ==
  ASSUME IInv, [Next]_vars
  PROVE  \A b \in Approval : Steady(b)
<1> USE Threads DEF IInv, TypeOK, Thread, CallerInv, NoRowYet, Steady, CallerPc, Ended, goto,
        perform, at, db, Decided, Status, Fault, NoFault, editCards
<1>1. ASSUME NEW a \in Approval, Waive(a) PROVE \A b \in Approval : Steady(b)
  BY <1>1 DEF Waive
<1>2. ASSUME NEW a \in Approval, Ask(a) PROVE \A b \in Approval : Steady(b)
  BY <1>2 DEF Ask
<1>3. ASSUME NEW a \in Approval, InsertRow(a)
      PROVE  \A b \in Approval : Steady(b)
  BY <1>3 DEF InsertRow
<1>4. ASSUME NEW a \in Approval, ListApprovers(a)
      PROVE  \A b \in Approval : Steady(b)
  BY <1>4 DEF ListApprovers
<1>5. ASSUME NEW a \in Approval, NEW p \in People, PostCard(a, p)
      PROVE  \A b \in Approval : Steady(b)
  BY <1>5 DEF PostCard
<1>6. ASSUME NEW a \in Approval, StoreIds(a)
      PROVE  \A b \in Approval : Steady(b)
  BY <1>6 DEF StoreIds
<1>7. ASSUME NEW a \in Approval, AwaitDecision(a)
      PROVE  \A b \in Approval : Steady(b)
  BY <1>7 DEF AwaitDecision
<1>8. ASSUME NEW a \in Approval, Resume(a) PROVE \A b \in Approval : Steady(b)
  BY <1>8 DEF Resume
<1>9. ASSUME NEW a \in Approval, CallerFails(a)
      PROVE  \A b \in Approval : Steady(b)
  BY <1>9 DEF CallerFails
<1>10. ASSUME NEW a \in Approval, TtlElapses(a)
       PROVE  \A b \in Approval : Steady(b)
  BY <1>10 DEF TtlElapses, mem
<1>11. ASSUME NEW a \in Approval, TimerFires(a)
       PROVE  \A b \in Approval : Steady(b)
  BY <1>11 DEF TimerFires
<1>12. ASSUME NEW p \in People, NEW a \in Approval, NEW act \in Action, Tap(p, a, act)
       PROVE  \A b \in Approval : Steady(b)
  BY <1>12 DEF Tap
<1>13. ASSUME NEW d \in Dashboard, NEW a \in Approval, NEW act \in Action, Click(d, a, act)
       PROVE  \A b \in Approval : Steady(b)
  BY <1>13 DEF Click
<1>14. ASSUME NEW f \in People, Authorize(f)
       PROVE  \A b \in Approval : Steady(b)
  BY <1>14 DEF Authorize
<1>15. ASSUME NEW f \in Finalizer, Finalize(f)
       PROVE  \A b \in Approval : Steady(b)
  <2>1. \/ status' = status
        \/ /\ status[fin[f].a] = "pending"
           /\ status' = [status EXCEPT ![fin[f].a] = fin[f].verdict]
    BY <1>15 DEF Finalize, stillPending
  <2>2. UNCHANGED <<caller, ran, faults>> BY <1>15 DEF Finalize
  <2>3. fin[f].verdict \in Decided /\ fin[f].verdict \notin {"none", "pending"}
    OBVIOUS
  <2>4. \A b \in Approval :
          \/ status'[b] = status[b]
          \/ status[b] = "pending" /\ status'[b] = fin[f].verdict
    BY <2>1
  <2> QED BY <2>2, <2>3, <2>4
<1>16. ASSUME NEW f \in Finalizer, Settle(f)
       PROVE  \A b \in Approval : Steady(b)
  BY <1>16 DEF Settle
<1>17. ASSUME NEW f \in Finalizer, EditCards(f)
       PROVE  \A b \in Approval : Steady(b)
  BY <1>17 DEF EditCards
<1>18. ASSUME NEW f \in Finalizer, CheckAllowance(f)
       PROVE  \A b \in Approval : Steady(b)
  BY <1>18 DEF CheckAllowance
<1>19. ASSUME NEW f \in Finalizer, GrantAllowance(f)
       PROVE  \A b \in Approval : Steady(b)
  BY <1>19 DEF GrantAllowance
<1>20. ASSUME NEW f \in Finalizer, RunApprovedToolCall(f)
       PROVE  \A b \in Approval : Steady(b)
  <2>1. UNCHANGED <<status, caller>> /\ faults <= faults'
    BY <1>20 DEF RunApprovedToolCall
  <2>2. fin[f].pc = "execute" /\ fin[f].a \in Approval
    BY <1>20 DEF RunApprovedToolCall
  <2>3. ran' = ran \/ ran' = [ran EXCEPT ![fin[f].a] = @ + 1]
    BY <1>20 DEF RunApprovedToolCall
  <2>4. ASSUME NEW b \in Approval, ran' = [ran EXCEPT ![fin[f].a] = @ + 1]
        PROVE  /\ ran[b] <= ran'[b]
               /\ ran'[b] = ran[b] \/ (fin[f].pc = "execute" /\ fin[f].a = b)
    <3>1. CASE b = fin[f].a BY <2>2, <2>4, <3>1
    <3>2. CASE b # fin[f].a
      <4>1. ran'[b] = ran[b] BY <2>2, <2>4, <3>2
      <4>2. ran[b] \in Nat OBVIOUS
      <4> QED BY <4>1, <4>2
    <3> QED BY <3>1, <3>2
  <2> QED BY <2>1, <2>3, <2>4
<1>21. ASSUME NEW f \in Finalizer, ReportOutcome(f)
       PROVE  \A b \in Approval : Steady(b)
  BY <1>21 DEF ReportOutcome
<1>22. ASSUME NEW f \in Finalizer, NotifyApproversExpired(f)
       PROVE  \A b \in Approval : Steady(b)
  BY <1>22 DEF NotifyApproversExpired
<1>23. ASSUME NEW f \in Finalizer, FinalizerFails(f)
       PROVE  \A b \in Approval : Steady(b)
  BY <1>23 DEF FinalizerFails
<1>24. ASSUME SweepReads PROVE \A b \in Approval : Steady(b)
  BY <1>24 DEF SweepReads
<1>25. ASSUME NEW a \in Approval, SweepTakes(a)
       PROVE  \A b \in Approval : Steady(b)
  BY <1>25 DEF SweepTakes
<1>26. ASSUME NEW s \in Subject, RevokeAllowance(s)
       PROVE  \A b \in Approval : Steady(b)
  BY <1>26 DEF RevokeAllowance, mem
<1>27. ASSUME NEW p \in People, SetApprover(p)
       PROVE  \A b \in Approval : Steady(b)
  BY <1>27 DEF SetApprover, mem
<1>28. ASSUME Restart PROVE \A b \in Approval : Steady(b)
  BY <1>28 DEF Restart
<1>29. CASE UNCHANGED vars
  BY <1>29 DEF vars
<1> QED
  BY <1>1, <1>2, <1>3, <1>4, <1>5, <1>6, <1>7, <1>8, <1>9, <1>10, <1>11,
     <1>12, <1>13, <1>14, <1>15, <1>16, <1>17, <1>18, <1>19, <1>20, <1>21,
     <1>22, <1>23, <1>24, <1>25, <1>26, <1>27, <1>28, <1>29
  DEF Next, Gate, CallerStep, FinalizerStep, SweepStep

(* Every step treats every card so.                                        *)
LEMMA NextDrawn ==
  ASSUME IInv, [Next]_vars
  PROVE  \A b \in Approval, q \in People : Drawn(b, q)
<1> USE DEF IInv, Drawn, db
<1>1. ASSUME NEW a \in Approval, Waive(a)
      PROVE  \A b \in Approval, q \in People : Drawn(b, q)
  BY <1>1 DEF Waive
<1>2. ASSUME NEW a \in Approval, Ask(a)
      PROVE  \A b \in Approval, q \in People : Drawn(b, q)
  BY <1>2 DEF Ask
<1>3. ASSUME NEW a \in Approval, InsertRow(a)
      PROVE  \A b \in Approval, q \in People : Drawn(b, q)
  BY <1>3 DEF InsertRow
<1>4. ASSUME NEW a \in Approval, ListApprovers(a)
      PROVE  \A b \in Approval, q \in People : Drawn(b, q)
  BY <1>4 DEF ListApprovers
<1>5. ASSUME NEW a \in Approval, NEW p \in People, PostCard(a, p)
      PROVE  \A b \in Approval, q \in People : Drawn(b, q)
  <2>1. CASE card' = card BY <2>1
  <2>2. CASE card' = [card EXCEPT ![a][p] = "open"] BY <1>5, <2>2 DEF PostCard, TypeOK
  <2> QED BY <1>5, <2>1, <2>2 DEF PostCard
<1>6. ASSUME NEW a \in Approval, StoreIds(a)
      PROVE  \A b \in Approval, q \in People : Drawn(b, q)
  BY <1>6 DEF StoreIds
<1>7. ASSUME NEW a \in Approval, AwaitDecision(a)
      PROVE  \A b \in Approval, q \in People : Drawn(b, q)
  BY <1>7 DEF AwaitDecision
<1>8. ASSUME NEW a \in Approval, Resume(a)
      PROVE  \A b \in Approval, q \in People : Drawn(b, q)
  BY <1>8 DEF Resume
<1>9. ASSUME NEW a \in Approval, CallerFails(a)
      PROVE  \A b \in Approval, q \in People : Drawn(b, q)
  BY <1>9 DEF CallerFails
<1>10. ASSUME NEW a \in Approval, TtlElapses(a)
       PROVE  \A b \in Approval, q \in People : Drawn(b, q)
  BY <1>10 DEF TtlElapses, mem
<1>11. ASSUME NEW a \in Approval, TimerFires(a)
       PROVE  \A b \in Approval, q \in People : Drawn(b, q)
  BY <1>11 DEF TimerFires
<1>12. ASSUME NEW p \in People, NEW a \in Approval, NEW act \in Action, Tap(p, a, act)
       PROVE  \A b \in Approval, q \in People : Drawn(b, q)
  BY <1>12 DEF Tap
<1>13. ASSUME NEW d \in Dashboard, NEW a \in Approval, NEW act \in Action, Click(d, a, act)
       PROVE  \A b \in Approval, q \in People : Drawn(b, q)
  BY <1>13 DEF Click
<1>14. ASSUME NEW f \in People, Authorize(f)
       PROVE  \A b \in Approval, q \in People : Drawn(b, q)
  BY <1>14 DEF Authorize
<1>15. ASSUME NEW f \in Finalizer, Finalize(f)
       PROVE  \A b \in Approval, q \in People : Drawn(b, q)
  BY <1>15 DEF Finalize
<1>16. ASSUME NEW f \in Finalizer, Settle(f)
       PROVE  \A b \in Approval, q \in People : Drawn(b, q)
  BY <1>16 DEF Settle
<1>17. ASSUME NEW f \in Finalizer, EditCards(f)
       PROVE  \A b \in Approval, q \in People : Drawn(b, q)
  <2>1. \A b \in Approval, q \in People :
          \/ card'[b][q] = card[b][q]
          \/ /\ b = fin[f].a /\ q \in fin[f].ids
             /\ card'[b][q] = IF fin[f].note THEN "orphaned" ELSE fin[f].verdict
    <3>1. fin[f].a \in Approval /\ fin[f].ids \in SUBSET People BY Threads
    <3>2. PICK text : /\ editCards(fin[f].a, fin[f].ids, text)
                      /\ text = IF fin[f].note THEN "orphaned" ELSE fin[f].verdict
      BY <1>17 DEF EditCards
    <3>3. \A b \in Approval, q \in People :
            \/ card'[b][q] = card[b][q]
            \/ b = fin[f].a /\ q \in fin[f].ids /\ card'[b][q] = text
      BY <3>1, <3>2, Edits
    <3> QED BY <3>2, <3>3
  <2> QED BY <1>17, <2>1 DEF Edited
<1>18. ASSUME NEW f \in Finalizer, CheckAllowance(f)
       PROVE  \A b \in Approval, q \in People : Drawn(b, q)
  BY <1>18 DEF CheckAllowance
<1>19. ASSUME NEW f \in Finalizer, GrantAllowance(f)
       PROVE  \A b \in Approval, q \in People : Drawn(b, q)
  BY <1>19 DEF GrantAllowance
<1>20. ASSUME NEW f \in Finalizer, RunApprovedToolCall(f)
       PROVE  \A b \in Approval, q \in People : Drawn(b, q)
  BY <1>20 DEF RunApprovedToolCall
<1>21. ASSUME NEW f \in Finalizer, ReportOutcome(f)
       PROVE  \A b \in Approval, q \in People : Drawn(b, q)
  <2>1. \A b \in Approval, q \in People :
          \/ card'[b][q] = card[b][q]
          \/ /\ b = fin[f].a /\ q \in fin[f].read
             /\ card'[b][q] = IF at(f, "report") THEN "done" ELSE "failed"
    <3>1. fin[f].a \in Approval /\ fin[f].read \in SUBSET People BY Threads
    <3>2. PICK text : /\ editCards(fin[f].a, fin[f].read, text)
                      /\ text = IF at(f, "report") THEN "done" ELSE "failed"
      BY <1>21 DEF ReportOutcome
    <3>3. \A b \in Approval, q \in People :
            \/ card'[b][q] = card[b][q]
            \/ b = fin[f].a /\ q \in fin[f].read /\ card'[b][q] = text
      BY <3>1, <3>2, Edits
    <3> QED BY <3>2, <3>3
  <2> QED BY <1>21, <2>1 DEF Edited
<1>22. ASSUME NEW f \in Finalizer, NotifyApproversExpired(f)
       PROVE  \A b \in Approval, q \in People : Drawn(b, q)
  BY <1>22 DEF NotifyApproversExpired
<1>23. ASSUME NEW f \in Finalizer, FinalizerFails(f)
       PROVE  \A b \in Approval, q \in People : Drawn(b, q)
  BY <1>23 DEF FinalizerFails
<1>24. ASSUME SweepReads PROVE \A b \in Approval, q \in People : Drawn(b, q)
  BY <1>24 DEF SweepReads
<1>25. ASSUME NEW a \in Approval, SweepTakes(a)
       PROVE  \A b \in Approval, q \in People : Drawn(b, q)
  BY <1>25 DEF SweepTakes
<1>26. ASSUME NEW s \in Subject, RevokeAllowance(s)
       PROVE  \A b \in Approval, q \in People : Drawn(b, q)
  BY <1>26 DEF RevokeAllowance, mem
<1>27. ASSUME NEW p \in People, SetApprover(p)
       PROVE  \A b \in Approval, q \in People : Drawn(b, q)
  BY <1>27 DEF SetApprover, mem
<1>28. ASSUME Restart PROVE \A b \in Approval, q \in People : Drawn(b, q)
  BY <1>28 DEF Restart
<1>29. CASE UNCHANGED vars
  BY <1>29 DEF vars
<1> QED
  BY <1>1, <1>2, <1>3, <1>4, <1>5, <1>6, <1>7, <1>8, <1>9, <1>10, <1>11,
     <1>12, <1>13, <1>14, <1>15, <1>16, <1>17, <1>18, <1>19, <1>20, <1>21,
     <1>22, <1>23, <1>24, <1>25, <1>26, <1>27, <1>28, <1>29
  DEF Next, Gate, CallerStep, FinalizerStep, SweepStep

(* Every step keeps what is claimed about the note.                        *)
LEMMA NextNoted ==
  ASSUME IInv, IInv', CallersTold, Noted, \A b \in Approval : Steady(b),
         \A g \in Finalizer : Onward(g)
  PROVE  Noted'
<1>1. \A a \in Approval :
        /\ a \notin resolver /\ Blocking(a) /\ status[a] = "pending"
        => caller[a] \in {"lost", "failed"}
  BY DEF IInv, TypeOK, CallerPc, CallerInv, NoRowYet, OutcomeIsVerdict, CallersTold, Waiter,
         Decided
<1> SUFFICES ASSUME NEW f \in Finalizer
             PROVE  /\ fin'[f].pc # "idle" => status'[fin'[f].a] # "none"
                    /\ fin'[f].note =>
                         /\ fin'[f].pc # "idle"
                         /\ fin'[f].verdict = "approved"
                         /\ Blocking(fin'[f].a)
                         /\ fin'[f].pc \in Won \/ status'[fin'[f].a] = "pending"
                            => caller'[fin'[f].a] \in {"lost", "failed"}
  BY DEF Noted, Blocking
<1> USE DEF Noted
<1>2. fin[f].a \in Approval /\ fin'[f].a \in Approval
  BY DEF IInv, TypeOK, Thread
<1>3. Steady(fin[f].a) /\ Steady(fin'[f].a) /\ Onward(f)
  BY <1>2
<1>4. CASE Left(f)
  BY <1>2, <1>3, <1>4 DEF Left, Steady
<1>5. CASE Over(f)
  BY <1>5 DEF Over
<1>6. CASE Gone(f)
  BY <1>1, <1>2, <1>3, <1>6 DEF Gone, Steady, orphaned, Won
<1>7. CASE Begun(f)
  BY <1>1, <1>2, <1>3, <1>7 DEF Begun, Steady, orphaned, Won
<1> QED
  BY <1>3, <1>4, <1>5, <1>6, <1>7 DEF Onward

(* Every step keeps what is claimed about a report.                        *)
LEMMA NextReported ==
  ASSUME IInv, IInv', Reported, \A b \in Approval : Steady(b), \A g \in Finalizer : Onward(g)
  PROVE  Reported'
<1> SUFFICES ASSUME NEW f \in Finalizer, fin'[f].pc = "report"
             PROVE  ran'[fin'[f].a] > 0 \/ faults' > 0
  BY DEF Reported
<1>1. fin[f].a \in Approval /\ Steady(fin[f].a) /\ Onward(f)
  BY Threads DEF IInv
<1>2. CASE Left(f)
  <2>1. ran[fin[f].a] > 0 \/ faults > 0 BY <1>2 DEF Left, Reported
  <2>2. /\ ran[fin[f].a] <= ran'[fin[f].a] /\ faults <= faults'
        /\ ran[fin[f].a] \in Nat /\ ran'[fin[f].a] \in Nat
        /\ faults \in Nat /\ faults' \in Nat
    BY <1>1 DEF Steady, IInv, TypeOK
  <2> QED BY <1>2, <2>1, <2>2 DEF Left
<1>3. CASE Gone(f)
  BY <1>3 DEF Gone
<1> QED
  BY <1>1, <1>2, <1>3 DEF Onward, Over, Begun

(* Every step keeps the texts of the cards true.                           *)
LEMMA NextTexts ==
  ASSUME IInv, IInv', CallersTold, Noted, Reported, Texts, CardTruth, [Next]_vars,
         \A b \in Approval : Steady(b), \A g \in Finalizer : Onward(g)
  PROVE  Texts' /\ CardTruth'
<1> SUFFICES ASSUME NEW a \in Approval, NEW p \in People
             PROVE  /\ card'[a][p] \in {"done", "failed"} =>
                         /\ ~Blocking(a)
                         /\ \A g \in Finalizer : fin'[g].pc \in Won => fin'[g].a # a
                    /\ card'[a][p] = "orphaned" => Blocking(a) /\ caller'[a] = "lost"
                    /\ card'[a][p] \in Decided => status'[a] = card'[a][p]
                    /\ card'[a][p] \in {"orphaned", "done", "failed"} => status'[a] = "approved"
                    /\ card'[a][p] = "done" => ran'[a] = 1 \/ faults' > 0
                    /\ card'[a][p] = "orphaned" => ran'[a] = 0
  BY DEF Texts, CardTruth, Blocking
<1>1. Steady(a) /\ Drawn(a, p)
  BY NextDrawn
<1>8. /\ faults \in Nat /\ faults' \in Nat /\ faults <= faults'
  BY <1>1 DEF IInv, TypeOK, Steady
<1>2. CASE card'[a][p] = card[a][p]
  <2> DEFINE text == card[a][p]
  <2>1. ASSUME text \in {"orphaned", "done", "failed"} PROVE ran'[a] = ran[a]
    <3>1. status[a] = "approved" BY <2>1 DEF CardTruth
    <3>2. caller[a] # "waiting"
      BY <2>1 DEF Texts, IInv, CallerInv, CallerRuns
    <3>3. \A g \in Finalizer : fin[g].pc = "execute" => fin[g].a # a
      BY <2>1 DEF Texts, IInv, ThreadInv, Executor, Won
    <3> QED BY <1>1, <3>1, <3>2, <3>3 DEF Steady
  <2>2. ASSUME text \in {"orphaned", "done", "failed"} \union Decided
        PROVE  status'[a] = status[a]
    BY <1>1, <2>2 DEF Steady, CardTruth, Decided
  <2>3. ASSUME text = "orphaned" PROVE caller'[a] = "lost"
    BY <1>1, <2>3 DEF Steady, Texts
  <2>4. ASSUME text \in {"done", "failed"}, NEW g \in Finalizer, fin'[g].pc \in Won
        PROVE  fin'[g].a # a
    <3>1. status[a] = "approved" BY <2>4 DEF CardTruth
    <3>2. Onward(g) OBVIOUS
    <3> QED BY <2>4, <3>1, <3>2 DEF Onward, Left, Over, Gone, Begun, Texts, Won
  <2>5. ASSUME text = "done" PROVE ran'[a] = 1 \/ faults' > 0
    BY <1>8, <2>1, <2>5 DEF CardTruth
  <2> QED BY <1>2, <2>1, <2>2, <2>3, <2>4, <2>5 DEF Texts, CardTruth
<1>3. CASE card'[a][p] = "open"
  BY <1>3 DEF Decided
<1>4. ASSUME NEW f \in Finalizer, EditCards(f), fin[f].a = a, p \in fin[f].ids,
             card'[a][p] = IF fin[f].note THEN "orphaned" ELSE fin[f].verdict
      PROVE  \/ card'[a][p] \in Decided /\ status'[a] = card'[a][p]
             \/ /\ card'[a][p] = "orphaned" /\ Blocking(a) /\ caller'[a] = "lost"
                /\ status'[a] = "approved" /\ ran'[a] = 0
  <2>1. fin[f].pc = "edit" /\ UNCHANGED <<status, caller, ran>>
    BY <1>4 DEF EditCards, at, db
  <2>2. status[a] = fin[f].verdict /\ fin[f].verdict \in Decided
    BY <1>4, <2>1, Threads DEF IInv, ThreadInv, WinnerVerdict, Won
  <2>3. CASE fin[f].note
    <3>1. /\ fin[f].verdict = "approved" /\ Blocking(a)
          /\ caller[a] \in {"lost", "failed"}
      BY <1>4, <2>1, <2>3 DEF Noted, Won
    <3>2. caller[a] = "lost" BY <1>4, <3>1 DEF CallersTold, Held, Past
    <3>3. ran[a] \in Nat /\ ~(ran[a] > 0)
      BY <3>1, <3>2 DEF IInv, CallerInv, CallerRuns, TypeOK
    <3>4. ran[a] = 0 BY <3>3
    <3> QED BY <1>4, <2>1, <2>2, <2>3, <3>1, <3>2, <3>4
  <2> QED BY <1>4, <2>1, <2>2, <2>3
<1>5. ASSUME NEW f \in Finalizer, ReportOutcome(f), fin[f].a = a,
             card'[a][p] = IF at(f, "report") THEN "done" ELSE "failed"
      PROVE  /\ ~Blocking(a) /\ status'[a] = "approved"
             /\ card'[a][p] = "done" => ran'[a] > 0 \/ faults' > 0
             /\ \A g \in Finalizer : fin'[g].pc \in Won => fin'[g].a # a
  <2>1. /\ fin[f].pc \in {"report", "regret"} /\ stop(f)
        /\ UNCHANGED <<status, caller, ran>>
    BY <1>5 DEF ReportOutcome, db
  <2>2. status[a] = "approved" /\ ~Blocking(a)
    BY <1>5, <2>1 DEF IInv, ThreadInv, WinnerVerdict, Executor, Won
  <2>3. ASSUME NEW g \in Finalizer, fin'[g].pc \in Won PROVE fin'[g].a # a
    <3>1. g # f /\ fin'[g] = fin[g] BY <2>1, <2>3, Stops DEF IInv, Won
    <3> QED BY <1>5, <2>1, <2>3, <3>1 DEF IInv, ThreadInv, OneWinner, Won
  <2>4. ASSUME card'[a][p] = "done" PROVE ran'[a] > 0 \/ faults' > 0
    <3>1. ran[a] > 0 \/ faults > 0 BY <1>5, <2>4 DEF at, Reported
    <3> QED BY <1>8, <2>1, <3>1
  <2> QED BY <2>1, <2>2, <2>3, <2>4
<1>6. ran'[a] \in Nat /\ ran'[a] <= 1
  BY DEF IInv, TypeOK, CallerInv, AtMostOnce
<1>7. ASSUME NEW f \in Finalizer, Edited(f, a, p)
      PROVE  /\ card'[a][p] \in {"done", "failed"} =>
                  ~Blocking(a) /\ \A g \in Finalizer : fin'[g].pc \in Won => fin'[g].a # a
             /\ card'[a][p] = "orphaned" => Blocking(a) /\ caller'[a] = "lost"
             /\ card'[a][p] \in Decided => status'[a] = card'[a][p]
             /\ card'[a][p] \in {"orphaned", "done", "failed"} => status'[a] = "approved"
             /\ card'[a][p] = "done" => ran'[a] = 1 \/ faults' > 0
             /\ card'[a][p] = "orphaned" => ran'[a] = 0
  <2>1. CASE /\ EditCards(f) /\ fin[f].a = a /\ p \in fin[f].ids
             /\ card'[a][p] = IF fin[f].note THEN "orphaned" ELSE fin[f].verdict
    <3>1. \/ card'[a][p] \in Decided /\ status'[a] = card'[a][p]
          \/ /\ card'[a][p] = "orphaned" /\ Blocking(a) /\ caller'[a] = "lost"
             /\ status'[a] = "approved" /\ ran'[a] = 0
      BY <1>4, <2>1
    <3> QED BY <3>1 DEF Decided
  <2>2. CASE /\ ReportOutcome(f) /\ fin[f].a = a
             /\ card'[a][p] = IF at(f, "report") THEN "done" ELSE "failed"
    <3>1. /\ ~Blocking(a) /\ status'[a] = "approved"
          /\ card'[a][p] = "done" => ran'[a] > 0 \/ faults' > 0
          /\ \A g \in Finalizer : fin'[g].pc \in Won => fin'[g].a # a
      BY <1>5, <2>2
    <3> QED BY <1>6, <2>2, <3>1 DEF Decided
  <2> QED BY <1>7, <2>1, <2>2 DEF Edited
<1> QED
  BY <1>1, <1>2, <1>3, <1>7 DEF Drawn

(* Every step keeps the alerts true.                                       *)
LEMMA NextAlerts ==
  ASSUME IInv, Alerts, [Next]_vars, \A b \in Approval : Steady(b),
         \A g \in Finalizer : Onward(g)
  PROVE  Alerts'
<1>1. fin'[Sweep].verdict = "expired"
  BY Threads DEF IInv, Alerts, Onward, Left, Over, Gone, Begun
<1>2. ASSUME NEW f \in Finalizer, fin'[f].pc = "alert"
      PROVE  f = Sweep /\ ~Blocking(fin'[f].a)
  BY <1>2 DEF Alerts, Onward, Left, Over, Gone, Begun
<1>3. ASSUME NEW a \in alerted PROVE status'[a] = "expired" /\ ran'[a] = 0 /\ ~Blocking(a)
  <2>1. a \in Approval /\ status[a] = "expired" /\ ran[a] = 0 /\ ~Blocking(a)
    BY DEF Alerts, IInv, TypeOK
  <2>2. Steady(a) BY <2>1
  <2>3. caller[a] # "waiting" BY <2>1 DEF IInv, CallerInv, CallerRuns
  <2>4. \A g \in Finalizer : fin[g].pc = "execute" => fin[g].a # a
    BY <2>1 DEF IInv, ThreadInv, Executor, WinnerVerdict, Won
  <2> QED BY <2>1, <2>2, <2>3, <2>4 DEF Steady, Decided
<1>4. ASSUME NEW f \in Finalizer, NotifyApproversExpired(f)
      PROVE  /\ status'[fin[f].a] = "expired" /\ ran'[fin[f].a] = 0 /\ ~Blocking(fin[f].a)
             /\ alerted' = alerted \union {fin[f].a}
  <2>1. /\ fin[f].pc = "alert" /\ UNCHANGED <<status, ran>>
        /\ alerted' = alerted \union {fin[f].a}
    BY <1>4 DEF NotifyApproversExpired, at, db
  <2> QED BY <2>1 DEF Alerts, IInv, ThreadInv, WinnerVerdict, NotYetRun, Won
<1>5. alerted' = alerted \/ \E f \in Finalizer : NotifyApproversExpired(f)
  <2> USE DEF db
  <2>1. ASSUME NEW a \in Approval, Waive(a)
        PROVE  alerted' = alerted \/ \E g \in Finalizer : NotifyApproversExpired(g)
    BY <2>1 DEF Waive
  <2>2. ASSUME NEW a \in Approval, Ask(a)
        PROVE  alerted' = alerted \/ \E g \in Finalizer : NotifyApproversExpired(g)
    BY <2>2 DEF Ask
  <2>3. ASSUME NEW a \in Approval, InsertRow(a)
        PROVE  alerted' = alerted \/ \E g \in Finalizer : NotifyApproversExpired(g)
    BY <2>3 DEF InsertRow
  <2>4. ASSUME NEW a \in Approval, ListApprovers(a)
        PROVE  alerted' = alerted \/ \E g \in Finalizer : NotifyApproversExpired(g)
    BY <2>4 DEF ListApprovers
  <2>5. ASSUME NEW a \in Approval, NEW p \in People, PostCard(a, p)
        PROVE  alerted' = alerted \/ \E g \in Finalizer : NotifyApproversExpired(g)
    BY <2>5 DEF PostCard
  <2>6. ASSUME NEW a \in Approval, StoreIds(a)
        PROVE  alerted' = alerted \/ \E g \in Finalizer : NotifyApproversExpired(g)
    BY <2>6 DEF StoreIds
  <2>7. ASSUME NEW a \in Approval, AwaitDecision(a)
        PROVE  alerted' = alerted \/ \E g \in Finalizer : NotifyApproversExpired(g)
    BY <2>7 DEF AwaitDecision
  <2>8. ASSUME NEW a \in Approval, Resume(a)
        PROVE  alerted' = alerted \/ \E g \in Finalizer : NotifyApproversExpired(g)
    BY <2>8 DEF Resume
  <2>9. ASSUME NEW a \in Approval, CallerFails(a)
        PROVE  alerted' = alerted \/ \E g \in Finalizer : NotifyApproversExpired(g)
    BY <2>9 DEF CallerFails
  <2>10. ASSUME NEW a \in Approval, TtlElapses(a)
         PROVE  alerted' = alerted \/ \E g \in Finalizer : NotifyApproversExpired(g)
    BY <2>10 DEF TtlElapses, mem
  <2>11. ASSUME NEW a \in Approval, TimerFires(a)
         PROVE  alerted' = alerted \/ \E g \in Finalizer : NotifyApproversExpired(g)
    BY <2>11 DEF TimerFires
  <2>12. ASSUME NEW p \in People, NEW a \in Approval, NEW act \in Action, Tap(p, a, act)
         PROVE  alerted' = alerted \/ \E g \in Finalizer : NotifyApproversExpired(g)
    BY <2>12 DEF Tap
  <2>13. ASSUME NEW d \in Dashboard, NEW a \in Approval, NEW act \in Action, Click(d, a, act)
         PROVE  alerted' = alerted \/ \E g \in Finalizer : NotifyApproversExpired(g)
    BY <2>13 DEF Click
  <2>14. ASSUME NEW f \in People, Authorize(f)
         PROVE  alerted' = alerted \/ \E g \in Finalizer : NotifyApproversExpired(g)
    BY <2>14 DEF Authorize
  <2>15. ASSUME NEW f \in Finalizer, Finalize(f)
         PROVE  alerted' = alerted \/ \E g \in Finalizer : NotifyApproversExpired(g)
    BY <2>15 DEF Finalize
  <2>16. ASSUME NEW f \in Finalizer, Settle(f)
         PROVE  alerted' = alerted \/ \E g \in Finalizer : NotifyApproversExpired(g)
    BY <2>16 DEF Settle
  <2>17. ASSUME NEW f \in Finalizer, EditCards(f)
         PROVE  alerted' = alerted \/ \E g \in Finalizer : NotifyApproversExpired(g)
    BY <2>17 DEF EditCards
  <2>18. ASSUME NEW f \in Finalizer, CheckAllowance(f)
         PROVE  alerted' = alerted \/ \E g \in Finalizer : NotifyApproversExpired(g)
    BY <2>18 DEF CheckAllowance
  <2>19. ASSUME NEW f \in Finalizer, GrantAllowance(f)
         PROVE  alerted' = alerted \/ \E g \in Finalizer : NotifyApproversExpired(g)
    BY <2>19 DEF GrantAllowance
  <2>20. ASSUME NEW f \in Finalizer, RunApprovedToolCall(f)
         PROVE  alerted' = alerted \/ \E g \in Finalizer : NotifyApproversExpired(g)
    BY <2>20 DEF RunApprovedToolCall
  <2>21. ASSUME NEW f \in Finalizer, ReportOutcome(f)
         PROVE  alerted' = alerted \/ \E g \in Finalizer : NotifyApproversExpired(g)
    BY <2>21 DEF ReportOutcome
  <2>22. ASSUME NEW f \in Finalizer, NotifyApproversExpired(f)
         PROVE  alerted' = alerted \/ \E g \in Finalizer : NotifyApproversExpired(g)
    BY <2>22
  <2>23. ASSUME NEW f \in Finalizer, FinalizerFails(f)
         PROVE  alerted' = alerted \/ \E g \in Finalizer : NotifyApproversExpired(g)
    BY <2>23 DEF FinalizerFails
  <2>24. ASSUME SweepReads
         PROVE  alerted' = alerted \/ \E g \in Finalizer : NotifyApproversExpired(g)
    BY <2>24 DEF SweepReads
  <2>25. ASSUME NEW a \in Approval, SweepTakes(a)
         PROVE  alerted' = alerted \/ \E g \in Finalizer : NotifyApproversExpired(g)
    BY <2>25 DEF SweepTakes
  <2>26. ASSUME NEW s \in Subject, RevokeAllowance(s)
         PROVE  alerted' = alerted \/ \E g \in Finalizer : NotifyApproversExpired(g)
    BY <2>26 DEF RevokeAllowance, mem
  <2>27. ASSUME NEW p \in People, SetApprover(p)
         PROVE  alerted' = alerted \/ \E g \in Finalizer : NotifyApproversExpired(g)
    BY <2>27 DEF SetApprover, mem
  <2>28. ASSUME Restart
         PROVE  alerted' = alerted \/ \E g \in Finalizer : NotifyApproversExpired(g)
    BY <2>28 DEF Restart
  <2>29. CASE UNCHANGED vars
    BY <2>29 DEF vars
  <2> QED
    BY <2>1, <2>2, <2>3, <2>4, <2>5, <2>6, <2>7, <2>8, <2>9, <2>10, <2>11,
       <2>12, <2>13, <2>14, <2>15, <2>16, <2>17, <2>18, <2>19, <2>20, <2>21,
       <2>22, <2>23, <2>24, <2>25, <2>26, <2>27, <2>28, <2>29
    DEF Next, Gate, CallerStep, FinalizerStep, SweepStep
<1>6. \A a \in alerted' : status'[a] = "expired" /\ ran'[a] = 0 /\ ~Blocking(a)
  BY <1>3, <1>4, <1>5
<1> QED
  BY <1>1, <1>2, <1>6 DEF Alerts, Blocking

-----------------------------------------------------------------------------
(* Before anything is asked, nothing is told.                              *)
LEMMA InitCardInv == Init => CardInv
<1> SUFFICES ASSUME Init PROVE CardInv
  OBVIOUS
<1>1. \A f \in Finalizer : fin[f] = Idle
  BY DEF Init
<1>2. /\ Idle.pc = "idle" /\ ~Idle.note /\ Idle.verdict = "expired"
      /\ Idle.read = {} /\ Idle.ids = {}
  BY DEF Idle
<1>3. Sweep \in Finalizer
  BY DEF Finalizer
<1>4. CallersTold
  BY <1>1, <1>2 DEF Init, CallersTold, Held, Kept, Shown, Waiter
<1>5. Noted /\ Reported /\ Alerts
  BY <1>1, <1>2, <1>3 DEF Init, Noted, Reported, Alerts, Won
<1>6. Texts /\ CardTruth /\ Rowed
  BY DEF Init, Texts, CardTruth, Decided, Rowed
<1> QED
  BY <1>4, <1>5, <1>6 DEF CardInv

(* What people are told holds in every reachable state.                    *)
THEOREM Telling == Spec => []CardInv
<1>1. IInv /\ IInv' /\ CardInv /\ [Next]_vars => CardInv'
  <2> SUFFICES ASSUME IInv, IInv', CardInv, [Next]_vars PROVE CardInv'
    OBVIOUS
  <2>1. \A b \in Approval : Steady(b)
    BY NextSteady
  <2>2. \A g \in Finalizer : Onward(g)
    BY NextThreads DEF CardInv
  <2>3. CallersTold' /\ Rowed'
    BY NextCallersTold, NextRowed DEF CardInv
  <2>4. Noted' /\ Reported' /\ Texts' /\ CardTruth' /\ Alerts'
    BY <2>1, <2>2, NextNoted, NextReported, NextTexts, NextAlerts DEF CardInv
  <2> QED
    BY <2>3, <2>4 DEF CardInv
<1> QED
  BY <1>1, InitCardInv, Invariant, PTL DEF Spec

(* A card never contradicts its row or its action: pending_approvals.status*)
(* and the edits of finalizeApproval and of the approved tool call.        *)
THEOREM CardsAreTrue == Spec => []CardTruth
<1>1. CardInv => CardTruth
  BY DEF CardInv
<1> QED
  BY <1>1, Telling, PTL

(* "Could not run automatically" is only said when a restart took the      *)
(* waiter away (the orphaned branch of finalizeApproval).                  *)
THEOREM NotesAreTrue == Spec => []NoteIsTrue
<1>1. CardInv => NoteIsTrue
  BY DEF CardInv, Texts, NoteIsTrue
<1> QED
  BY <1>1, Telling, PTL

(* A caller that failed closed leaves no card that says "Approved".        *)
THEOREM NoneIsBare == Spec => []NoBareApproval
<1>1. CardInv => NoBareApproval
  BY DEF CardInv, CallersTold, Shown, Past, NoBareApproval
<1> QED
  BY <1>1, Telling, PTL

(* A tool call announced as not sent was not sent and will not be.         *)
THEOREM AlertsAreTrue == Spec => []AlertIsTrue
<1>1. CardInv => AlertIsTrue
  BY DEF CardInv, Alerts, AlertIsTrue
<1> QED
  BY <1>1, Telling, PTL
-----------------------------------------------------------------------------
(* The converse of the note.  A lost caller is in no map, and whoever goes *)
(* on to approve its action has the note.                                  *)
Marked ==
  /\ \A a \in Approval : caller[a] = "lost" => a \notin resolver
  /\ \A f \in Finalizer :
       /\ fin[f].pc \notin {"idle", "authorize"} /\ fin[f].verdict = "approved"
       /\ Blocking(fin[f].a) /\ caller[fin[f].a] = "lost"
       => fin[f].note

(* The claim about threads, for threads that keep what they hold.          *)
LEMMA MarkedKept ==
  ASSUME TypeOK, Marked, UNCHANGED caller, resolver' \subseteq resolver,
         \A g \in Finalizer :
           \/ fin'[g].pc = "idle"
           \/ /\ fin'[g].a = fin[g].a /\ fin'[g].verdict = fin[g].verdict
              /\ fin[g].note => fin'[g].note
              /\ fin[g].pc \notin {"idle", "authorize"}
           \/ fin'[g] = fin[g]
  PROVE  Marked'
<1>1. \A a \in Approval : caller'[a] = "lost" => a \notin resolver'
  BY DEF Marked
<1>2. ASSUME NEW f \in Finalizer
      PROVE  /\ fin'[f].pc \notin {"idle", "authorize"} /\ fin'[f].verdict = "approved"
             /\ Blocking(fin'[f].a) /\ caller'[fin'[f].a] = "lost"
             => fin'[f].note
  BY DEF Marked
<1> QED
  BY <1>1, <1>2 DEF Marked, Blocking

(* Every step keeps it.                                                    *)
LEMMA NextMarked ==
  ASSUME IInv, Marked, [Next]_vars
  PROVE  Marked'
<1> USE Threads DEF IInv, db
<1>1. ASSUME NEW a \in Approval, Waive(a) PROVE Marked'
  BY <1>1 DEF Waive, Marked, TypeOK, Thread, goto, Blocking
<1>2. ASSUME NEW a \in Approval, Ask(a) PROVE Marked'
  BY <1>2 DEF Ask, Marked, TypeOK, Thread, goto, Blocking
<1>3. ASSUME NEW a \in Approval, InsertRow(a) PROVE Marked'
  BY <1>3 DEF InsertRow, Marked, TypeOK, Thread, goto, Blocking
<1>4. ASSUME NEW a \in Approval, ListApprovers(a) PROVE Marked'
  BY <1>4 DEF ListApprovers, Marked, TypeOK, Thread, goto, Blocking
<1>5. ASSUME NEW a \in Approval, NEW p \in People, PostCard(a, p) PROVE Marked'
  BY <1>5 DEF PostCard, Marked, Blocking
<1>6. ASSUME NEW a \in Approval, StoreIds(a) PROVE Marked'
  BY <1>6 DEF StoreIds, Marked, TypeOK, Thread, goto, Blocking
<1>7. ASSUME NEW a \in Approval, AwaitDecision(a) PROVE Marked'
  BY <1>7 DEF AwaitDecision, Marked, TypeOK, Thread, goto, Blocking
<1>8. ASSUME NEW a \in Approval, Resume(a) PROVE Marked'
  BY <1>8 DEF Resume, Marked, TypeOK, Thread, goto, Blocking
<1>9. ASSUME NEW a \in Approval, CallerFails(a) PROVE Marked'
  BY <1>9 DEF CallerFails, Marked, TypeOK, Thread, goto, Blocking
<1>10. ASSUME NEW a \in Approval, TtlElapses(a) PROVE Marked'
  BY <1>10 DEF TtlElapses, mem, Marked, Blocking
<1>11. ASSUME NEW a \in Approval, TimerFires(a) PROVE Marked'
  <2>1. UNCHANGED <<caller, resolver>> BY <1>11 DEF TimerFires
  <2>2. \A g \in Finalizer \ {a} : fin'[g] = fin[g]
    BY <1>11 DEF TimerFires, begin, TypeOK
  <2>3. /\ a \in Finalizer
        /\ fin'[a].pc = "authorize" \/ fin'[a].verdict # "approved"
           \/ fin'[a].note = orphaned(fin'[a].a, fin'[a].verdict)
        /\ fin'[a].a \in Approval
    BY <1>11 DEF TimerFires, begin, TypeOK
  <2> QED BY <2>1, <2>2, <2>3 DEF Marked, orphaned, Blocking
<1>12. ASSUME NEW p \in People, NEW a \in Approval, NEW act \in Action, Tap(p, a, act)
       PROVE  Marked'
  <2>1. UNCHANGED <<caller, resolver>> BY <1>12 DEF Tap
  <2>2. \A g \in Finalizer \ {p} : fin'[g] = fin[g]
    BY <1>12 DEF Tap, begin, TypeOK
  <2>3. /\ p \in Finalizer
        /\ fin'[p].pc = "authorize" \/ fin'[p].verdict # "approved"
           \/ fin'[p].note = orphaned(fin'[p].a, fin'[p].verdict)
        /\ fin'[p].a \in Approval
    BY <1>12 DEF Tap, begin, TypeOK
  <2> QED BY <2>1, <2>2, <2>3 DEF Marked, orphaned, Blocking
<1>13. ASSUME NEW d \in Dashboard, NEW a \in Approval, NEW act \in Action, Click(d, a, act)
       PROVE  Marked'
  <2>1. UNCHANGED <<caller, resolver>> BY <1>13 DEF Click
  <2>2. \A g \in Finalizer \ {d} : fin'[g] = fin[g]
    BY <1>13 DEF Click, begin, TypeOK
  <2>3. /\ d \in Finalizer
        /\ fin'[d].pc = "authorize" \/ fin'[d].verdict # "approved"
           \/ fin'[d].note = orphaned(fin'[d].a, fin'[d].verdict)
        /\ fin'[d].a \in Approval
    BY <1>13 DEF Click, begin, TypeOK
  <2> QED BY <2>1, <2>2, <2>3 DEF Marked, orphaned, Blocking
<1>14. ASSUME NEW f \in People, Authorize(f) PROVE Marked'
  <2>1. UNCHANGED <<caller, resolver>> BY <1>14 DEF Authorize
  <2>2. CASE stop(f) BY <2>1, <2>2, Stops, MarkedKept
  <2>3. CASE fin' = [fin EXCEPT ![f].pc = "update",
                                ![f].note = orphaned(fin[f].a, fin[f].verdict)]
    <3>1. \A g \in Finalizer : /\ g # f => fin'[g] = fin[g]
                               /\ fin'[g].a = fin[g].a
                               /\ fin'[g].verdict = fin[g].verdict
      BY <2>3 DEF TypeOK, Thread
    <3>2. fin'[f].note = orphaned(fin[f].a, fin[f].verdict)
      BY <2>3 DEF TypeOK, Thread
    <3>3. \A a \in Approval : caller'[a] = "lost" => a \notin resolver'
      BY <2>1 DEF Marked
    <3>4. /\ fin'[f].verdict = "approved" /\ Blocking(fin'[f].a)
          /\ caller'[fin'[f].a] = "lost"
          => fin'[f].note
      BY <2>1, <3>1, <3>2, <3>3 DEF orphaned
    <3>5. \A g \in Finalizer \ {f} :
            /\ fin'[g].pc \notin {"idle", "authorize"} /\ fin'[g].verdict = "approved"
            /\ Blocking(fin'[g].a) /\ caller'[fin'[g].a] = "lost"
            => fin'[g].note
      BY <2>1, <3>1 DEF Marked
    <3> QED BY <3>3, <3>4, <3>5 DEF Marked, Blocking
  <2> QED BY <1>14, <2>2, <2>3 DEF Authorize
<1>15. ASSUME NEW f \in Finalizer, Finalize(f) PROVE Marked'
  <2>1. UNCHANGED <<caller, resolver>> BY <1>15 DEF Finalize
  <2>2. CASE stop(f) BY <2>1, <2>2, Stops, MarkedKept
  <2>3. CASE fin' = [fin EXCEPT ![f].pc = "settle", ![f].ids = stored[fin[f].a]]
    <3>1. \A g \in Finalizer : /\ g # f => fin'[g] = fin[g]
                               /\ fin'[g].a = fin[g].a
                               /\ fin'[g].verdict = fin[g].verdict
                               /\ fin'[g].note = fin[g].note
      BY <2>3 DEF TypeOK, Thread
    <3>2. fin[f].pc \notin {"idle", "authorize"} BY <1>15 DEF Finalize, at
    <3> QED BY <2>1, <3>1, <3>2, MarkedKept
  <2> QED BY <1>15, <2>2, <2>3 DEF Finalize, knownCards
<1>16. ASSUME NEW f \in Finalizer, Settle(f) PROVE Marked'
  <2>1. UNCHANGED caller /\ resolver' \subseteq resolver
    BY <1>16 DEF Settle
  <2>2. step(f, "edit") /\ fin[f].pc \notin {"idle", "authorize"}
    BY <1>16 DEF Settle, at
  <2>3. \A g \in Finalizer : g # f => fin'[g] = fin[g]
    BY <2>2 DEF step, TypeOK
  <2>4. \/ fin'[f].pc = "idle"
        \/ /\ fin'[f].a = fin[f].a /\ fin'[f].verdict = fin[f].verdict
           /\ fin[f].note => fin'[f].note
    BY <2>2, GoesOn
  <2> QED BY <2>1, <2>2, <2>3, <2>4, MarkedKept
<1>17. ASSUME NEW f \in Finalizer, EditCards(f) PROVE Marked'
  <2>1. UNCHANGED caller /\ resolver' \subseteq resolver
    BY <1>17 DEF EditCards
  <2>2. PICK pc : next(f, pc) /\ fin[f].pc \notin {"idle", "authorize"}
    BY <1>17 DEF EditCards, at, next
  <2>3. \A g \in Finalizer : g # f => fin'[g] = fin[g]
    BY <2>2 DEF next, step, stop, TypeOK
  <2>4. \/ fin'[f].pc = "idle"
        \/ /\ fin'[f].a = fin[f].a /\ fin'[f].verdict = fin[f].verdict
           /\ fin[f].note => fin'[f].note
    <3>1. CASE stop(f) BY <3>1, Stops
    <3>2. CASE step(f, pc) BY <3>2, GoesOn
    <3> QED BY <2>2, <3>1, <3>2 DEF next
  <2> QED BY <2>1, <2>2, <2>3, <2>4, MarkedKept
<1>18. ASSUME NEW f \in Finalizer, CheckAllowance(f) PROVE Marked'
  <2>1. UNCHANGED caller /\ resolver' \subseteq resolver
    BY <1>18 DEF CheckAllowance
  <2>2. PICK pc : next(f, pc) /\ fin[f].pc \notin {"idle", "authorize"}
    BY <1>18 DEF CheckAllowance, at, next
  <2>3. \A g \in Finalizer : g # f => fin'[g] = fin[g]
    BY <2>2 DEF next, step, stop, TypeOK
  <2>4. \/ fin'[f].pc = "idle"
        \/ /\ fin'[f].a = fin[f].a /\ fin'[f].verdict = fin[f].verdict
           /\ fin[f].note => fin'[f].note
    <3>1. CASE stop(f) BY <3>1, Stops
    <3>2. CASE step(f, pc) BY <3>2, GoesOn
    <3> QED BY <2>2, <3>1, <3>2 DEF next
  <2> QED BY <2>1, <2>2, <2>3, <2>4, MarkedKept
<1>19. ASSUME NEW f \in Finalizer, GrantAllowance(f) PROVE Marked'
  <2>1. UNCHANGED caller /\ resolver' \subseteq resolver
    BY <1>19 DEF GrantAllowance
  <2>2. PICK pc : next(f, pc) /\ fin[f].pc \notin {"idle", "authorize"}
    BY <1>19 DEF GrantAllowance, at, next
  <2>3. \A g \in Finalizer : g # f => fin'[g] = fin[g]
    BY <2>2 DEF next, step, stop, TypeOK
  <2>4. \/ fin'[f].pc = "idle"
        \/ /\ fin'[f].a = fin[f].a /\ fin'[f].verdict = fin[f].verdict
           /\ fin[f].note => fin'[f].note
    <3>1. CASE stop(f) BY <3>1, Stops
    <3>2. CASE step(f, pc) BY <3>2, GoesOn
    <3> QED BY <2>2, <3>1, <3>2 DEF next
  <2> QED BY <2>1, <2>2, <2>3, <2>4, MarkedKept
<1>20. ASSUME NEW f \in Finalizer, RunApprovedToolCall(f) PROVE Marked'
  <2>1. UNCHANGED caller /\ resolver' \subseteq resolver
    BY <1>20 DEF RunApprovedToolCall
  <2>2. PICK pc : (step(f, pc) \/ stop(f)) /\ fin[f].pc \notin {"idle", "authorize"}
    BY <1>20 DEF RunApprovedToolCall, at
  <2>3. \A g \in Finalizer : g # f => fin'[g] = fin[g]
    BY <2>2 DEF step, stop, TypeOK
  <2>4. \/ fin'[f].pc = "idle"
        \/ /\ fin'[f].a = fin[f].a /\ fin'[f].verdict = fin[f].verdict
           /\ fin[f].note => fin'[f].note
    <3>1. CASE stop(f) BY <3>1, Stops
    <3>2. CASE step(f, pc) BY <3>2, GoesOn
    <3> QED BY <2>2, <3>1, <3>2
  <2> QED BY <2>1, <2>2, <2>3, <2>4, MarkedKept
<1>21. ASSUME NEW f \in Finalizer, ReportOutcome(f) PROVE Marked'
  <2>1. UNCHANGED caller /\ resolver' \subseteq resolver /\ stop(f)
    BY <1>21 DEF ReportOutcome
  <2> QED BY <2>1, Stops, MarkedKept
<1>22. ASSUME NEW f \in Finalizer, NotifyApproversExpired(f) PROVE Marked'
  <2>1. UNCHANGED caller /\ resolver' \subseteq resolver /\ stop(f)
    BY <1>22 DEF NotifyApproversExpired
  <2> QED BY <2>1, Stops, MarkedKept
<1>23. ASSUME NEW f \in Finalizer, FinalizerFails(f) PROVE Marked'
  <2>1. UNCHANGED caller /\ resolver' \subseteq resolver /\ stop(f)
    BY <1>23 DEF FinalizerFails
  <2> QED BY <2>1, Stops, MarkedKept
<1>24. ASSUME SweepReads PROVE Marked'
  BY <1>24 DEF SweepReads, Marked, Blocking
<1>25. ASSUME NEW a \in Approval, SweepTakes(a) PROVE Marked'
  <2>1. UNCHANGED <<caller, resolver>> BY <1>25 DEF SweepTakes
  <2>2. \A g \in Finalizer \ {Sweep} : fin'[g] = fin[g]
    BY <1>25 DEF SweepTakes, begin, TypeOK
  <2>3. /\ Sweep \in Finalizer
        /\ fin'[Sweep].pc = "authorize" \/ fin'[Sweep].verdict # "approved"
           \/ fin'[Sweep].note = orphaned(fin'[Sweep].a, fin'[Sweep].verdict)
        /\ fin'[Sweep].a \in Approval
    BY <1>25 DEF SweepTakes, begin, TypeOK
  <2> QED BY <2>1, <2>2, <2>3 DEF Marked, orphaned, Blocking
<1>26. ASSUME NEW s \in Subject, RevokeAllowance(s) PROVE Marked'
  BY <1>26 DEF RevokeAllowance, mem, Marked, Blocking
<1>27. ASSUME NEW p \in People, SetApprover(p) PROVE Marked'
  BY <1>27 DEF SetApprover, mem, Marked, Blocking
<1>28. ASSUME Restart PROVE Marked'
  BY <1>28, IdleIsThread DEF Restart, Marked, Idle
<1>29. CASE UNCHANGED vars
  BY <1>29 DEF vars, Marked, Blocking
<1> QED
  BY <1>1, <1>2, <1>3, <1>4, <1>5, <1>6, <1>7, <1>8, <1>9, <1>10, <1>11,
     <1>12, <1>13, <1>14, <1>15, <1>16, <1>17, <1>18, <1>19, <1>20, <1>21,
     <1>22, <1>23, <1>24, <1>25, <1>26, <1>27, <1>28, <1>29
  DEF Next, Gate, CallerStep, FinalizerStep, SweepStep

(* A card of a command or message whose waiter a restart took away is, once *)
(* it is approved, edited only to say so: the edits of finalizeApproval    *)
(* carry the note, and no other step touches such a card.                  *)
THEOREM LostAreNoted == Spec => LostCardsAreNoted
<1>1. Init => Marked
  BY DEF Init, Marked, Idle
<1>2. IInv /\ Marked /\ [Next]_vars => Marked'
  BY NextMarked
<1>3. IInv /\ Marked /\ [Next]_vars =>
        [\A a \in Approval, p \in People :
           /\ Blocking(a) /\ caller[a] = "lost" /\ status[a] = "approved"
           /\ card'[a][p] # card[a][p]
           => card'[a][p] = "orphaned"]_vars
  <2> SUFFICES ASSUME IInv, Marked, [Next]_vars, NEW a \in Approval, NEW p \in People,
                      Blocking(a), caller[a] = "lost", status[a] = "approved",
                      card'[a][p] # card[a][p]
               PROVE  card'[a][p] = "orphaned"
    OBVIOUS
  <2>1. PICK f \in Finalizer : Edited(f, a, p)
    BY NextDrawn DEF Drawn
  <2>2. fin[f].a = a
    BY <2>1 DEF Edited
  <2>3. ~ReportOutcome(f)
    BY <2>2 DEF ReportOutcome, IInv, ThreadInv, Executor
  <2>4. /\ fin[f].pc = "edit"
        /\ card'[a][p] = IF fin[f].note THEN "orphaned" ELSE fin[f].verdict
    BY <2>1, <2>3 DEF Edited, EditCards, at
  <2>5. fin[f].verdict = "approved"
    BY <2>2, <2>4 DEF IInv, ThreadInv, WinnerVerdict, Won
  <2> QED
    BY <2>2, <2>4, <2>5 DEF Marked
<1> QED
  BY <1>1, <1>2, <1>3, Invariant, PTL DEF Spec, LostCardsAreNoted
=============================================================================

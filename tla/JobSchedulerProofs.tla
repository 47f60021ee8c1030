------------------------- MODULE JobSchedulerProofs -------------------------
(***************************************************************************)
(* Proofs about JobScheduler for any set of jobs and any number of         *)
(* changes, firings and faults, whoever creates the jobs.                  *)
(***************************************************************************)
EXTENDS JobScheduler, FiniteSetTheorems, TLAPS

Entry == [ver : Nat, state : {"none", "armed", "fired"}]

(* The entries of the maps.                                                *)
LEMMA Entries == /\ Unset \in Entry
                 /\ \A v \in Nat : Armed(v) \in Entry
                 /\ \A e \in Entry : [e EXCEPT !.state = "fired"] \in Entry
BY DEF Entry, Unset, Armed

(* A firing adds a turn.                                                   *)
LEMMA BeginTyped ==
  ASSUME NEW j \in Job, NEW by \in {"timer", "webhook"}, turns \subseteq Turn,
         fires \in [Job -> Nat], begin(j, by)
  PROVE  turns' \subseteq Turn /\ fires' \in [Job -> Nat]
BY DEF begin, Turn

(* Its end takes it away.                                                  *)
LEMMA EndsTyped ==
  ASSUME NEW t \in turns, turns \subseteq Turn, busy \subseteq Job, ends(t)
  PROVE  turns' \subseteq Turn /\ busy' \subseteq Job
BY DEF ends

(* addJob() leaves an entry, and leaks a version at most.                  *)
LEMMA AddTyped ==
  ASSUME NEW j \in Job, NEW v \in Nat, timer \in [Job -> Entry],
         leaked \in [Job -> SUBSET Nat]
  PROVE  added(j, v) \in Entry /\ overwritten(j) \in SUBSET Nat
BY Entries DEF added, overwritten, Entry

(* So does a reconcile.                                                    *)
LEMMA ReconciledTyped ==
  ASSUME NEW j \in Job, timer \in [Job -> Entry], seenVer \in [Job -> Nat]
  PROVE  reconciled(j) \in Entry
<1>1. CASE j \notin seen
  BY <1>1, Entries DEF reconciled
<1>2. CASE j \in seen /\ timer[j] # Unset /\ ~changed(j)
  BY <1>2 DEF reconciled
<1>3. CASE j \in seen /\ ~(timer[j] # Unset /\ ~changed(j))
  <2> reconciled(j) = IF arms(j) THEN Armed(seenVer[j]) ELSE Unset
    BY <1>3 DEF reconciled
  <2> QED
    BY Entries
<1> QED
  BY <1>1, <1>2, <1>3

(* The initial state is well typed.                                        *)
LEMMA InitType == Init => TypeOK
BY DEF Init, TypeOK, Zero, Unset

(* Every step keeps the types.                                             *)
LEMMA StepType == TypeOK /\ [Next]_vars => TypeOK'
<1> SUFFICES ASSUME TypeOK, [Next]_vars PROVE TypeOK'
  OBVIOUS
<1> USE DEF rows, snap, live, work, tools
<1> timer \in [Job -> Entry] /\ leaked \in [Job -> SUBSET Nat]
  BY DEF TypeOK, Entry
<1> seenVer \in [Job -> Nat] /\ turns \subseteq Turn /\ fires \in [Job -> Nat]
  BY DEF TypeOK
<1>1. ASSUME NEW j \in Job, CreateSchedule(j) PROVE TypeOK'
  BY <1>1 DEF TypeOK, CreateSchedule
<1>2. ASSUME NEW j \in Job, ToggleSchedule(j) PROVE TypeOK'
  BY <1>2, ConstantsOK DEF ConstantsOK, TypeOK, ToggleSchedule, Op
<1>3. ASSUME NEW j \in Job, DeleteSchedule(j) PROVE TypeOK'
  BY <1>3 DEF TypeOK, DeleteSchedule, Op
<1>4. ASSUME NEW j \in Job, UpdateSchedule(j) PROVE TypeOK'
  BY <1>4 DEF TypeOK, UpdateSchedule, Op
<1>5. ASSUME NEW j \in Job, ToolCreatesRow(j) PROVE TypeOK'
  BY <1>5 DEF TypeOK, ToolCreatesRow
<1>6. ASSUME NEW j \in Job, CancelRemovesJob(j) PROVE TypeOK'
  <2> timer' \in [Job -> Entry]
    BY <1>6, Entries DEF CancelRemovesJob
  <2> QED
    BY <1>6 DEF TypeOK, CancelRemovesJob, Op, Entry
<1>7. ASSUME NEW j \in Job, ToolAddsJob(j) PROVE TypeOK'
  <2> timer' \in [Job -> Entry] /\ leaked' \in [Job -> SUBSET Nat]
    BY <1>7, AddTyped DEF ToolAddsJob
  <2> QED
    BY <1>7 DEF TypeOK, ToolAddsJob, Entry
<1>8. ASSUME NEW j \in Job, CancelWritesRow(j) PROVE TypeOK'
  BY <1>8 DEF TypeOK, CancelWritesRow
<1>9. ASSUME NEW j \in Job, CronFires(j) PROVE TypeOK'
  BY <1>9, BeginTyped DEF TypeOK, CronFires
<1>10. ASSUME NEW j \in Job, IntervalFires(j) PROVE TypeOK'
  BY <1>10, BeginTyped DEF TypeOK, IntervalFires
<1>11. ASSUME NEW j \in Job, WebhookFires(j) PROVE TypeOK'
  BY <1>11, BeginTyped DEF TypeOK, WebhookFires
<1>12. ASSUME NEW j \in Job, NEW v \in 0 .. MaxOps, OnceFires(j, v) PROVE TypeOK'
  <2>1. timer' \in [Job -> Entry] /\ leaked' \in [Job -> SUBSET Nat]
    <3>1. CASE timer' = [timer EXCEPT ![j].state = "fired"] /\ UNCHANGED leaked
      BY <3>1, Entries
    <3>2. CASE leaked' = [leaked EXCEPT ![j] = @ \ {v}] /\ UNCHANGED timer
      BY <3>2
    <3> QED
      BY <1>12, <3>1, <3>2 DEF OnceFires
  <2>2. turns' \subseteq Turn /\ fires' \in [Job -> Nat]
    BY <1>12, BeginTyped DEF OnceFires
  <2> QED
    BY <1>12, <2>1, <2>2 DEF TypeOK, OnceFires, Entry
<1>13. ASSUME NEW j \in Job, RunAtPasses(j) PROVE TypeOK'
  BY <1>13 DEF TypeOK, RunAtPasses
<1>14. ASSUME NEW t \in turns, AgentBegins(t) PROVE TypeOK'
  <2>1. turns' \subseteq Turn /\ busy' \subseteq Job /\ ran' \in [Job -> Nat]
    <3>1. CASE t.job \in kept
      <4>1. [t EXCEPT !.at = "agent"] \in Turn /\ t.job \in Job
        BY DEF Turn
      <4>2. ran' = [ran EXCEPT ![t.job] = @ + 1] \/ ran' = ran
        BY <1>14, <3>1 DEF AgentBegins
      <4>3. ran' \in [Job -> Nat]
        BY <4>1, <4>2 DEF TypeOK
      <4> QED
        BY <1>14, <3>1, <4>1, <4>3 DEF AgentBegins, TypeOK
    <3>2. CASE t.job \notin kept
      BY <1>14, <3>2, EndsTyped DEF AgentBegins, TypeOK
    <3> QED
      BY <3>1, <3>2
  <2> QED
    BY <1>14, <2>1 DEF TypeOK, AgentBegins
<1>15. ASSUME NEW t \in turns, TurnEnds(t) PROVE TypeOK'
  BY <1>15, EndsTyped DEF TypeOK, TurnEnds, Fault
<1>16. CASE InitReads
  BY <1>16 DEF TypeOK, InitReads, Reads, enabled
<1>17. CASE InitAdds
  <2> /\ timer' \in [Job -> Entry]
      /\ leaked' \in [Job -> SUBSET Nat]
      /\ signature' \in [Job -> Nat]
    BY <1>17, AddTyped DEF TypeOK, InitAdds
  <2> QED
    BY <1>17 DEF TypeOK, InitAdds, Applied, Zero, Entry
<1>18. CASE ReconcileReads
  BY <1>18 DEF TypeOK, ReconcileReads, Reads, enabled
<1>19. CASE ReconcileApplies
  <2> timer' \in [Job -> Entry] /\ signature' \in [Job -> Nat]
    BY <1>19, ReconciledTyped DEF TypeOK, ReconcileApplies
  <2> QED
    BY <1>19 DEF TypeOK, ReconcileApplies, Applied, Zero, Entry
<1>20. CASE ReconcileFails
  BY <1>20 DEF TypeOK, ReconcileFails, Fault, Zero
<1>21. CASE Stop
  BY <1>21 DEF TypeOK, Stop, Fault, Zero, Unset
<1>22. CASE UNCHANGED vars
  BY <1>22 DEF TypeOK, vars
<1> QED
  BY <1>1, <1>2, <1>3, <1>4, <1>5, <1>6, <1>7, <1>8, <1>9, <1>10, <1>11, <1>12,
     <1>13, <1>14, <1>15, <1>16, <1>17, <1>18, <1>19, <1>20, <1>21, <1>22
     DEF Next, UserStep, Fires, OnceStep

(* Every variable of the scheduler keeps its type.                         *)
THEOREM TypeCorrect == Spec => []TypeOK
BY InitType, StepType, PTL DEF Spec

-----------------------------------------------------------------------------
(* A turn that a timer of an interval job began is in flight only while    *)
(* the job is in intervalJobRunning.                                       *)
OwnTurn(t) == Kind[t.job] = "interval" /\ t.by = "timer"

Guarded == \A t \in turns : OwnTurn(t) => t.job \in busy

OverlapInv == TypeOK /\ Guarded /\ IntervalNeverOverlaps

(* Nothing is in flight at the start.                                      *)
LEMMA InitOverlap == Init => OverlapInv
BY InitType DEF Init, OverlapInv, Guarded, IntervalNeverOverlaps

(* A turn of another kind of job, or of a webhook, disturbs nothing.       *)
LEMMA BeginOther ==
  ASSUME OverlapInv, NEW j \in Job, NEW by, begin(j, by),
         Kind[j] # "interval" \/ by # "timer", UNCHANGED busy
  PROVE  Guarded' /\ IntervalNeverOverlaps'
BY DEF OverlapInv, Guarded, OwnTurn, IntervalNeverOverlaps, begin

(* The end of a turn takes its job out of busy, where no other turn of the *)
(* job depends on it.                                                      *)
LEMMA EndsGuarded ==
  ASSUME OverlapInv, NEW t \in turns, ends(t)
  PROVE  Guarded' /\ IntervalNeverOverlaps'
<1>1. CASE OwnTurn(t)
  BY <1>1 DEF OverlapInv, Guarded, OwnTurn, IntervalNeverOverlaps, ends
<1>2. CASE ~OwnTurn(t)
  BY <1>2 DEF OverlapInv, Guarded, OwnTurn, IntervalNeverOverlaps, ends
<1> QED
  BY <1>1, <1>2

(* Only what touches turns or busy matters.                                *)
LEMMA StepOverlap == OverlapInv /\ [Next]_vars => OverlapInv'
<1> SUFFICES ASSUME OverlapInv, [Next]_vars PROVE Guarded' /\ IntervalNeverOverlaps'
  BY StepType DEF OverlapInv
<1> USE DEF work
<1> turns \subseteq Turn
  BY DEF OverlapInv, TypeOK
<1>0. ASSUME UNCHANGED <<turns, busy>> PROVE Guarded' /\ IntervalNeverOverlaps'
  BY <1>0 DEF OverlapInv, Guarded, IntervalNeverOverlaps
<1>1. ASSUME NEW j \in Job, UserStep(j) \/ ToolAddsJob(j) \/ CancelWritesRow(j)
                             \/ RunAtPasses(j)
      PROVE  UNCHANGED <<turns, busy>>
  BY <1>1 DEF UserStep, CreateSchedule, ToggleSchedule, DeleteSchedule,
     UpdateSchedule, ToolCreatesRow, CancelRemovesJob, ToolAddsJob,
     CancelWritesRow, RunAtPasses
<1>2. ASSUME NEW j \in Job, CronFires(j) \/ WebhookFires(j)
      PROVE  Guarded' /\ IntervalNeverOverlaps'
  BY <1>2, BeginOther DEF CronFires, WebhookFires
<1>3. ASSUME NEW j \in Job, NEW v, OnceFires(j, v)
      PROVE  Guarded' /\ IntervalNeverOverlaps'
  BY <1>3, BeginOther DEF OnceFires
<1>4. ASSUME NEW j \in Job, IntervalFires(j)
      PROVE  Guarded' /\ IntervalNeverOverlaps'
  <2>1. \A t \in turns : OwnTurn(t) => t.job # j
    BY <1>4 DEF IntervalFires, free, OverlapInv, Guarded
  <2>2. \A t \in turns' : OwnTurn(t) /\ t.job = j => t \notin turns
    BY <2>1
  <2> QED
    BY <1>4, <2>1 DEF IntervalFires, begin, OverlapInv, Guarded, OwnTurn,
       IntervalNeverOverlaps
<1>5. ASSUME NEW t \in turns, AgentBegins(t)
      PROVE  Guarded' /\ IntervalNeverOverlaps'
  <2>1. CASE t.job \notin kept
    BY <1>5, <2>1, EndsGuarded DEF AgentBegins
  <2>2. CASE t.job \in kept
    <3> DEFINE u == [t EXCEPT !.at = "agent"]
    <3>1. u.job = t.job /\ u.by = t.by
      BY DEF Turn
    <3>2. turns' = (turns \ {t}) \union {u} /\ busy' = busy
      BY <1>5, <2>2 DEF AgentBegins
    <3> HIDE DEF u
    <3> QED
      BY <3>1, <3>2 DEF OverlapInv, Guarded, OwnTurn, IntervalNeverOverlaps
  <2> QED
    BY <2>1, <2>2
<1>6. ASSUME NEW t \in turns, TurnEnds(t)
      PROVE  Guarded' /\ IntervalNeverOverlaps'
  BY <1>6, EndsGuarded DEF TurnEnds
<1>7. ASSUME InitReads \/ InitAdds \/ ReconcileReads \/ ReconcileApplies
             \/ ReconcileFails \/ UNCHANGED vars
      PROVE  UNCHANGED <<turns, busy>>
  BY <1>7 DEF InitReads, InitAdds, Applied, ReconcileReads, ReconcileApplies,
     ReconcileFails, vars
<1>8. CASE Stop
  BY <1>8 DEF Stop, Guarded, IntervalNeverOverlaps
<1> QED
  BY <1>0, <1>1, <1>2, <1>3, <1>4, <1>5, <1>6, <1>7, <1>8
     DEF Next, Fires, OnceStep

(* An interval job never overlaps itself, whatever edits, cancellations,   *)
(* re-created and leaked timers come between.                              *)
THEOREM NoOverlap == Spec => []IntervalNeverOverlaps
<1>1. OverlapInv => IntervalNeverOverlaps
  BY DEF OverlapInv
<1> QED
  BY InitOverlap, StepOverlap, <1>1, PTL DEF Spec

-----------------------------------------------------------------------------
(* What holds of a job's timers, whoever made the job.  The entry of the   *)
(* map was armed for a usable schedule, with the version jobSignatures     *)
(* remembers, unless the job's time has passed.                            *)
Fits(j) ==
  /\ timer[j].state = "none" => timer[j] = Unset
  /\ timer[j].state = "armed" =>
       j \notin Broken /\ (timer[j].ver = signature[j] \/ j \in due)
  /\ timer[j].state = "fired" => Kind[j] = "once"
  /\ j \in due => Kind[j] = "once"

(* Only addJob() of a tool finds an entry to overwrite, and it comes once  *)
(* in the life of a job: one timer leaks at most.                          *)
Leaks(j) ==
  /\ leaked[j] # {} => j \in ByTool
  /\ \A v, w \in leaked[j] : v = w
  /\ j \in adding => j \in ByTool /\ leaked[j] = {}
  /\ row[j] = "none" => leaked[j] = {} /\ j \notin adding

(* A process starts without timers, and init() reads no row that a tool is *)
(* about to add.                                                           *)
Boots(j) ==
  /\ phase = "down" => timer[j] = Unset /\ leaked[j] = {} /\ j \notin adding
  /\ phase = "booting" /\ j \in seen => timer[j] = Unset /\ j \notin adding
  /\ j \in seen => row[j] # "none"

Tidy(j) == Fits(j) /\ Leaks(j) /\ Boots(j)

TidyInv == TypeOK /\ \A j \in Job : Tidy(j)

(* A timer that is cleared, armed from the row read, or left alone.        *)
LEMMA FitsAgain ==
  ASSUME NEW j \in Job, Fits(j), due' = due, timer[j] \in Entry,
         \/ timer'[j] = Unset
         \/ /\ j \notin Broken
            /\ timer'[j] = Armed(signature'[j])
         \/ /\ timer'[j] = timer[j]
            /\ timer[j].state = "armed" =>
                 signature'[j] = signature[j] \/ j \in due
  PROVE  Fits(j)'
BY DEF Fits, Unset, Armed

(* Steps that do not touch the timers, nor forget a row.                   *)
LEMMA TidyElse ==
  ASSUME TidyInv, UNCHANGED <<live, adding, seen, phase>>, due' = due,
         \A j \in Job : row'[j] = "none" => row[j] = "none"
  PROVE  \A j \in Job : Tidy(j)'
BY DEF TidyInv, Tidy, Fits, Leaks, Boots, live

(* Only a read of the rows, or its end, changes phase and seen.            *)
LEMMA TidyReads ==
  ASSUME TidyInv, UNCHANGED <<live, adding, rows>>,
         \/ seen' = {} /\ phase' \notin {"down", "booting"}
         \/ seen' = enabled /\ (phase' = "booting" => phase = "down")
            /\ phase' # "down"
  PROVE  \A j \in Job : Tidy(j)'
BY DEF TidyInv, Tidy, Fits, Leaks, Boots, live, rows, enabled

(* init() finds no timer to overwrite.                                     *)
LEMMA TidyInit ==
  ASSUME TidyInv, InitAdds
  PROVE  \A j \in Job : Tidy(j)'
<1> USE DEF rows, tools
<1> TAKE j \in Job
<1>1. /\ Tidy(j) /\ timer[j] \in Entry
      /\ phase' = "idle" /\ seen' = {} /\ UNCHANGED <<row, due, adding>>
  BY DEF TidyInv, TypeOK, Entry, InitAdds, Applied
<1>2. CASE j \notin seen
  <2>1. timer'[j] = timer[j] /\ signature'[j] = signature[j] /\ leaked'[j] = leaked[j]
    BY <1>2 DEF InitAdds
  <2> QED
    BY <1>1, <2>1, FitsAgain DEF Tidy, Leaks, Boots
<1>3. CASE j \in seen
  <2>1. timer[j] = Unset
    BY <1>1, <1>3 DEF Tidy, Boots, InitAdds
  <2>2. leaked'[j] = leaked[j]
    BY <1>3, <2>1 DEF InitAdds, overwritten, Unset
  <2>3. /\ timer'[j] = IF arms(j) THEN Armed(seenVer[j]) ELSE Unset
        /\ signature'[j] = seenVer[j]
    BY <1>3, <2>1 DEF InitAdds, added
  <2>4. Fits(j)'
    BY <1>1, <2>3, FitsAgain DEF Tidy, arms
  <2> QED
    BY <1>1, <2>2, <2>4 DEF Tidy, Leaks, Boots
<1> QED
  BY <1>2, <1>3

(* reconcile() keeps the timers whose signature still fits.                *)
LEMMA TidyReconcile ==
  ASSUME TidyInv, ReconcileApplies
  PROVE  \A j \in Job : Tidy(j)'
<1> USE DEF rows, tools
<1> TAKE j \in Job
<1>1. /\ Tidy(j) /\ timer[j] \in Entry
      /\ phase' = "idle" /\ seen' = {} /\ UNCHANGED <<row, due, adding, leaked>>
      /\ signature'[j] = IF j \in seen THEN seenVer[j] ELSE 0
      /\ timer'[j] = reconciled(j)
  BY DEF TidyInv, TypeOK, Entry, ReconcileApplies, Applied
<1>2. Fits(j)'
  <2>1. CASE j \notin seen
    BY <1>1, <2>1, FitsAgain DEF reconciled, Tidy
  <2>2. CASE j \in seen /\ timer[j] # Unset /\ ~changed(j)
    BY <1>1, <2>2, FitsAgain DEF reconciled, changed, Tidy
  <2>3. CASE j \in seen /\ ~(timer[j] # Unset /\ ~changed(j))
    <3> timer'[j] = IF arms(j) THEN Armed(seenVer[j]) ELSE Unset
      BY <1>1, <2>3 DEF reconciled
    <3> QED
      BY <1>1, <2>3, FitsAgain DEF arms, Tidy
  <2> QED
    BY <2>1, <2>2, <2>3
<1> QED
  BY <1>1, <1>2 DEF Tidy, Leaks, Boots

(* A tool adds the job it made: what it overwrites leaks, the first time   *)
(* and the last.                                                           *)
LEMMA TidyAdded ==
  ASSUME TidyInv, NEW j \in Job, ToolAddsJob(j)
  PROVE  \A i \in Job : Tidy(i)'
<1> USE DEF rows, snap
<1>1. /\ Tidy(j) /\ timer[j] \in Entry /\ j \in adding
      /\ timer'[j] = added(j, 0) /\ signature'[j] = 0
      /\ leaked'[j] = overwritten(j) /\ adding' = adding \ {j}
      /\ UNCHANGED <<row, due, phase, seen>>
  BY DEF TidyInv, TypeOK, Entry, ToolAddsJob
<1>2. Fits(j)'
  <2>1. CASE arms(j)
    BY <1>1, <2>1, FitsAgain DEF added, arms, Tidy
  <2>2. CASE ~arms(j)
    BY <1>1, <2>2, FitsAgain DEF added, arms, Tidy, Fits
  <2> QED
    BY <2>1, <2>2
<1>3. Leaks(j)' /\ Boots(j)'
  BY <1>1 DEF Tidy, Leaks, Boots, overwritten
<1>4. ASSUME NEW i \in Job, i # j PROVE Tidy(i)'
  BY <1>4 DEF ToolAddsJob, TidyInv, TypeOK, Tidy, Fits, Leaks, Boots
<1> QED
  BY <1>2, <1>3, <1>4 DEF Tidy

(* A timer fires: an armed entry is spent, or the one that leaked is gone. *)
LEMMA TidyFired ==
  ASSUME TidyInv, NEW j \in Job, NEW v, OnceFires(j, v)
  PROVE  \A i \in Job : Tidy(i)'
<1> USE DEF rows, snap, tools
<1> TAKE i \in Job
<1>1. /\ Tidy(i) /\ Kind[j] = "once" /\ UNCHANGED <<row, due, phase, seen, adding>>
      /\ signature' = signature
  BY DEF TidyInv, OnceFires
<1>2. CASE timer[j] = Armed(v) /\ leaked' = leaked
           /\ timer' = [timer EXCEPT ![j].state = "fired"]
  <2>1. timer \in [Job -> Entry]
    BY DEF TidyInv, TypeOK, Entry
  <2>2. i # j => timer'[i] = timer[i]
    BY <1>2, <2>1
  <2>3. timer'[j].state = "fired" /\ timer[j] # Unset
    BY <1>2, <2>1 DEF Armed, Unset
  <2> QED
    BY <1>1, <1>2, <2>2, <2>3 DEF Tidy, Fits, Leaks, Boots
<1>3. CASE leaked' = [leaked EXCEPT ![j] = @ \ {v}] /\ timer' = timer
  <2>1. leaked'[i] \subseteq leaked[i]
    BY <1>3 DEF TidyInv, TypeOK
  <2> QED
    BY <1>1, <1>3, <2>1 DEF Tidy, Fits, Leaks, Boots
<1> QED
  BY <1>2, <1>3 DEF OnceFires

(* No timer exists at the start.                                           *)
LEMMA InitTidy == Init => TidyInv
BY InitType DEF Init, TidyInv, Tidy, Fits, Leaks, Boots, Unset

(* Every step leaves the timers tidy.                                      *)
LEMMA StepTidy == TidyInv /\ [Next]_vars => TidyInv'
<1> SUFFICES ASSUME TidyInv, [Next]_vars PROVE \A j \in Job : Tidy(j)'
  BY StepType DEF TidyInv
<1> USE DEF rows, snap, live, work, tools
<1> row \in [Job -> {"none", "enabled", "disabled", "deleted"}]
  BY DEF TidyInv, TypeOK
<1>1. ASSUME NEW j \in Job, UserStep(j), ~CancelRemovesJob(j), ~ToolCreatesRow(j)
      PROVE  \A i \in Job : Tidy(i)'
  BY <1>1, TidyElse DEF UserStep, CreateSchedule, ToggleSchedule,
     DeleteSchedule, UpdateSchedule, kept
<1>2. ASSUME NEW j \in Job, CancelRemovesJob(j)
      PROVE  \A i \in Job : Tidy(i)'
  <2> timer \in [Job -> Entry] /\ signature \in [Job -> Nat]
    BY DEF TidyInv, TypeOK, Entry
  <2> QED
    BY <1>2, Entries DEF CancelRemovesJob, TidyInv, Tidy, Fits, Leaks, Boots, Unset
<1>3. ASSUME NEW j \in Job, ToolCreatesRow(j)
      PROVE  \A i \in Job : Tidy(i)'
  BY <1>3 DEF ToolCreatesRow, TidyInv, Tidy, Fits, Leaks, Boots
<1>4. ASSUME NEW j \in Job, CancelWritesRow(j)
      PROVE  \A i \in Job : Tidy(i)'
  BY <1>4, TidyElse DEF CancelWritesRow
<1>5. ASSUME NEW j \in Job, Fires(j)
      PROVE  \A i \in Job : Tidy(i)'
  BY <1>5, TidyElse DEF Fires, CronFires, IntervalFires, WebhookFires
<1>6. ASSUME NEW j \in Job, RunAtPasses(j)
      PROVE  \A i \in Job : Tidy(i)'
  BY <1>6 DEF RunAtPasses, TidyInv, Tidy, Fits, Leaks, Boots
<1>7. ASSUME NEW t \in turns, AgentBegins(t) \/ TurnEnds(t)
      PROVE  \A i \in Job : Tidy(i)'
  BY <1>7, TidyElse DEF AgentBegins, TurnEnds
<1>8. CASE InitReads \/ ReconcileReads \/ ReconcileFails
  BY <1>8, TidyReads DEF InitReads, ReconcileReads, ReconcileFails, Reads
<1>9. CASE Stop
  BY <1>9 DEF Stop, TidyInv, Tidy, Fits, Leaks, Boots, Unset
<1>10. CASE UNCHANGED vars
  BY <1>10, TidyElse DEF vars
<1> QED
  BY <1>1, <1>2, <1>3, <1>4, <1>5, <1>6, <1>7, <1>8, <1>9, <1>10,
     TidyAdded, TidyFired, TidyInit, TidyReconcile DEF Next, UserStep, OnceStep

(* Timers out of everybody's reach are those of jobs that tools made, and  *)
(* there is one for a job at most.                                         *)
LeaksAreFew == \A j \in Job : /\ leaked[j] # {} => j \in ByTool
                              /\ \A v, w \in leaked[j] : v = w

(* addJob() leaks a timer only when a tool adds a job that a reconcile has *)
(* armed already, once in the life of the job.                             *)
THEOREM OneLeaks == Spec => []LeaksAreFew
<1>1. TidyInv => LeaksAreFew
  BY DEF TidyInv, Tidy, Leaks, LeaksAreFew
<1> QED
  BY InitTidy, StepTidy, <1>1, PTL DEF Spec

(* A step that applies rows which are still current.                       *)
Repairs ==
  /\ phase = "reconciling" /\ phase' = "idle" /\ faults' = faults
  /\ seen = enabled /\ \A j \in seen : seenVer[j] = ver[j]
  => \A j \in Job : \/ /\ running(j)' = shouldRun(j) \union leaked[j]
                       /\ leaked[j] # {} => j \in ByTool
                    \/ Kind[j] = "once" /\ (j \in due \/ timer[j].state = "fired")

(* Only ReconcileApplies is such a step.                                   *)
LEMMA OnlyReconcileApplies ==
  ASSUME TypeOK, [Next]_vars,
         phase = "reconciling", phase' = "idle", faults' = faults
  PROVE  ReconcileApplies
<1> USE DEF rows, snap, live, work, tools
<1>1. ASSUME NEW j \in Job, UserStep(j) \/ ToolAddsJob(j) \/ CancelWritesRow(j)
                             \/ Fires(j) \/ OnceStep(j) \/ RunAtPasses(j)
      PROVE  phase' = phase
  BY <1>1 DEF UserStep, CreateSchedule, ToggleSchedule, DeleteSchedule,
     UpdateSchedule, ToolCreatesRow, CancelRemovesJob, ToolAddsJob,
     CancelWritesRow, RunAtPasses, Fires, CronFires, IntervalFires,
     WebhookFires, OnceStep, OnceFires
<1>2. ASSUME NEW t \in turns, AgentBegins(t) \/ TurnEnds(t)
      PROVE  phase' = phase
  BY <1>2 DEF AgentBegins, TurnEnds
<1>3. ~InitReads /\ ~InitAdds /\ ~ReconcileReads /\ ~Stop
  BY DEF InitReads, InitAdds, ReconcileReads, Reads, Stop
<1>4. ~ReconcileFails
  BY DEF ReconcileFails, Fault, TypeOK
<1>5. phase' # phase
  OBVIOUS
<1> QED
  BY <1>1, <1>2, <1>3, <1>4, <1>5 DEF Next, vars

(* It leaves the right timers.                                             *)
LEMMA ReconcileIsRepair == TidyInv /\ [Next]_vars => Repairs
<1> SUFFICES ASSUME TidyInv, [Next]_vars,
                    phase = "reconciling", phase' = "idle", faults' = faults,
                    seen = enabled, \A j \in seen : seenVer[j] = ver[j],
                    NEW j \in Job,
                    ~(Kind[j] = "once" /\ (j \in due \/ timer[j].state = "fired"))
             PROVE  /\ running(j)' = shouldRun(j) \union leaked[j]
                    /\ leaked[j] # {} => j \in ByTool
  BY DEF Repairs
<1>1. ReconcileApplies
  BY OnlyReconcileApplies DEF TidyInv
<1>2. /\ leaked'[j] = leaked[j] /\ timer'[j] = reconciled(j)
      /\ Fits(j) /\ (leaked[j] # {} => j \in ByTool)
  BY <1>1 DEF ReconcileApplies, TidyInv, Tidy, Leaks
<1>3. j \notin due /\ (arms(j) <=> j \notin Broken)
  BY <1>2 DEF arms, Fits
<1>4. CASE j \notin seen
  BY <1>2, <1>4 DEF reconciled, running, shouldRun, Unset
<1>5. CASE j \in seen /\ timer[j] # Unset /\ ~changed(j)
  <2>1. timer[j].state = "armed" /\ timer[j].ver = ver[j] /\ j \notin Broken
    BY <1>2, <1>3, <1>5 DEF TidyInv, TypeOK, Fits, changed
  <2> QED
    BY <1>2, <1>3, <1>5, <2>1 DEF reconciled, running, shouldRun
<1>6. CASE j \in seen /\ ~(timer[j] # Unset /\ ~changed(j))
  <2>1. timer'[j] = IF arms(j) THEN Armed(ver[j]) ELSE Unset
    BY <1>2, <1>6 DEF reconciled
  <2>2. shouldRun(j) = IF arms(j) THEN {ver[j]} ELSE {}
    BY <1>6 DEF shouldRun
  <2> QED
    BY <1>2, <2>1, <2>2 DEF running, Armed, Unset
<1> QED
  BY <1>4, <1>5, <1>6

(* A reconcile whose rows are still current leaves exactly the right timer *)
(* running for every job, beside what leaked before.                       *)
THEOREM RepairsAll == Spec => ReconcileRepairs
<1>1. ReconcileRepairs <=> [][Repairs]_vars
  BY DEF ReconcileRepairs, Repairs
<1> QED
  BY <1>1, InitTidy, StepTidy, ReconcileIsRepair, PTL DEF Spec

-----------------------------------------------------------------------------
(* A job is in line: what runs for it is what its row asks for (a leaked   *)
(* timer of the same version, see LeaksAreFew, is not told apart).         *)
InLine(j) == running(j) = shouldRun(j)

(* What init() or reconcile() read of it is still what its row says.       *)
current(j) == IF j \in seen THEN j \in enabled /\ seenVer[j] = ver[j]
                            ELSE j \notin enabled

(* What puts it out of line.                                               *)
Excused(j) ==
  \/ row'[j] # row[j] \/ ver'[j] # ver[j]
  \/ j \in cancelling' \ cancelling
  \/ j \in adding \ adding' /\ ~(j \in enabled /\ ver[j] = 0)
  \/ phase \in {"booting", "reconciling"} /\ phase' = "idle" /\ ~current(j)
  \/ phase' = "down"

(* What can put a job that is in line out of line: a change of its row, a  *)
(* cancellation, a tool's addJob() that comes after the row was changed, a *)
(* read that was overtaken by a change of the row, or a stop.  No change   *)
(* of another job, no turn, no failed read and no current reconcile does   *)
(* (scheduler.ts 114-135); a one-shot job is left aside from its time on.  *)
(* With ReconcileRepairs it is the safety half of MapsEventuallyInLine.    *)
OnlyChangesUnsettle ==
  [][\A j \in Job \ (due' \union Far) :
       InLine(j) => InLine(j)' \/ Excused(j)]_vars

(* Nothing that InLine speaks of changes.                                  *)
LEMMA InLineElse ==
  ASSUME NEW j \in Job, InLine(j), j \notin due, j \notin due',
         timer'[j] = timer[j], leaked'[j] = leaked[j],
         row'[j] = row[j], ver'[j] = ver[j]
  PROVE  InLine(j)'
BY DEF InLine, running, shouldRun, enabled, arms

(* An apply of rows that are current for the job keeps it in line.         *)
LEMMA InLineApplies ==
  ASSUME TidyInv, NEW j \in Job, InLine(j), j \notin due, current(j),
         InitAdds \/ ReconcileApplies
  PROVE  InLine(j)'
<1>1. UNCHANGED <<row, ver, due>>
  BY DEF InitAdds, ReconcileApplies, Applied, rows
<1>2. shouldRun(j)' = shouldRun(j)
  BY <1>1 DEF shouldRun, enabled, arms
<1>3. /\ timer[j] \in Entry /\ Fits(j)
      /\ phase = "booting" /\ j \in seen => timer[j] = Unset
  BY DEF TidyInv, TypeOK, Entry, Tidy, Boots
<1>4. running(j) = IF j \in enabled /\ arms(j) THEN {ver[j]} ELSE {}
  BY DEF InLine, shouldRun
<1>5. leaked[j] \subseteq running(j)
  BY DEF running
<1>6. CASE ReconcileApplies
  <2>1. timer'[j] = reconciled(j) /\ leaked'[j] = leaked[j]
    BY <1>6 DEF ReconcileApplies
  <2>2. CASE timer'[j] = timer[j]
    BY <1>2, <2>1, <2>2 DEF InLine, running
  <2>3. CASE timer'[j] # timer[j]
    <3>1. timer'[j] = IF j \in enabled /\ arms(j) THEN Armed(ver[j]) ELSE Unset
      BY <2>1, <2>3 DEF reconciled, current
    <3>2. running(j)' = leaked[j] \union (IF j \in enabled /\ arms(j)
                                          THEN {ver[j]} ELSE {})
      BY <2>1, <3>1 DEF running, Armed, Unset
    <3>3. running(j)' = running(j)
      BY <1>4, <1>5, <3>2
    <3> QED
      BY <1>2, <3>3 DEF InLine
  <2> QED
    BY <2>2, <2>3
<1>7. CASE InitAdds
  <2>1. CASE j \notin seen
    <3>1. timer'[j] = timer[j] /\ leaked'[j] = leaked[j]
      BY <1>7, <2>1 DEF InitAdds
    <3> QED
      BY <1>2, <3>1 DEF InLine, running
  <2>2. CASE j \in seen
    <3>1. timer[j] = Unset
      BY <1>3, <1>7, <2>2 DEF InitAdds
    <3>2. leaked'[j] = leaked[j]
      BY <1>7, <2>2, <3>1 DEF InitAdds, overwritten, Unset
    <3>3. timer'[j] = IF arms(j) THEN Armed(ver[j]) ELSE Unset
      BY <1>7, <2>2, <3>1 DEF InitAdds, added, current
    <3>4. running(j)' = leaked[j] \union (IF arms(j) THEN {ver[j]} ELSE {})
      BY <3>2, <3>3 DEF running, Armed, Unset
    <3>5. running(j)' = running(j)
      BY <1>4, <1>5, <2>2, <3>4 DEF current
    <3> QED
      BY <1>2, <3>5 DEF InLine
  <2> QED
    BY <2>1, <2>2
<1> QED
  BY <1>6, <1>7

(* A tool that adds the job it made finds it as it left it, or an excuse.  *)
LEMMA InLineAdded ==
  ASSUME TidyInv, NEW j \in Job, InLine(j), j \notin due,
         j \in enabled, ver[j] = 0, ToolAddsJob(j)
  PROVE  InLine(j)'
<1>1. UNCHANGED <<row, ver, due>> /\ leaked[j] = {}
  BY DEF ToolAddsJob, rows, TidyInv, Tidy, Leaks
<1>2. shouldRun(j)' = shouldRun(j)
  BY <1>1 DEF shouldRun, enabled, arms
<1>3. timer'[j] = added(j, 0) /\ leaked'[j] = overwritten(j)
  BY DEF ToolAddsJob, TidyInv, TypeOK
<1>4. CASE arms(j)
  <2>1. running(j) = {0} /\ shouldRun(j) = {0}
    BY <1>4 DEF InLine, shouldRun
  <2>2. timer[j].state = "armed" /\ timer[j].ver = 0
    BY <1>1, <2>1 DEF running
  <2>3. running(j)' = {0}
    BY <1>1, <1>3, <1>4, <2>2 DEF running, added, overwritten, Armed
  <2> QED
    BY <1>2, <2>1, <2>3 DEF InLine
<1>5. CASE ~arms(j)
  BY <1>2, <1>3, <1>5 DEF InLine, running, added, overwritten
<1> QED
  BY <1>4, <1>5

(* Every step keeps a job in line or has an excuse.                        *)
LEMMA StepInLine ==
  ASSUME TidyInv, [Next]_vars, NEW j \in Job, j \notin due', j \notin Far,
         InLine(j), ~Excused(j)
  PROVE  InLine(j)'
<1> USE DEF rows, snap, live, work, tools
<1>0. /\ timer \in [Job -> Entry] /\ leaked \in [Job -> SUBSET Nat]
      /\ row'[j] = row[j] /\ ver'[j] = ver[j]
  BY DEF TidyInv, TypeOK, Entry, Excused
<1>1. due \subseteq due'
  <2>1. ASSUME NEW i \in Job, UserStep(i) PROVE due' = due
    BY <2>1 DEF UserStep, CreateSchedule, ToggleSchedule, DeleteSchedule,
       UpdateSchedule, ToolCreatesRow, CancelRemovesJob
  <2>2. ASSUME NEW i \in Job, ToolAddsJob(i) \/ CancelWritesRow(i) \/ Fires(i)
        PROVE  due' = due
    BY <2>2 DEF ToolAddsJob, CancelWritesRow, Fires, CronFires, IntervalFires,
       WebhookFires
  <2>3. ASSUME NEW i \in Job, OnceStep(i) \/ RunAtPasses(i)
        PROVE  due \subseteq due'
    BY <2>3 DEF OnceStep, OnceFires, RunAtPasses
  <2>4. ASSUME NEW t \in turns, AgentBegins(t) \/ TurnEnds(t) PROVE due' = due
    BY <2>4 DEF AgentBegins, TurnEnds
  <2>5. ASSUME InitReads \/ InitAdds \/ ReconcileReads \/ ReconcileApplies
               \/ ReconcileFails \/ Stop \/ UNCHANGED vars
        PROVE  due' = due
    BY <2>5 DEF InitReads, InitAdds, ReconcileReads, ReconcileApplies,
       ReconcileFails, Stop, Applied, vars
  <2> QED
    BY <2>1, <2>2, <2>3, <2>4, <2>5 DEF Next
<1>2. j \notin due
  BY <1>1
<1>3. ASSUME timer'[j] = timer[j], leaked'[j] = leaked[j] PROVE InLine(j)'
  BY <1>0, <1>2, <1>3, InLineElse
<1>4. ASSUME NEW i \in Job, UserStep(i) PROVE InLine(j)'
  <2>1. CASE CancelRemovesJob(i)
    <3>1. i # j
      BY <2>1 DEF CancelRemovesJob, Excused
    <3> QED
      BY <1>0, <1>3, <2>1, <3>1 DEF CancelRemovesJob
  <2>2. CASE ~CancelRemovesJob(i)
    BY <1>3, <1>4, <2>2 DEF UserStep, CreateSchedule, ToggleSchedule,
       DeleteSchedule, UpdateSchedule, ToolCreatesRow
  <2> QED
    BY <2>1, <2>2
<1>5. ASSUME NEW i \in Job, ToolAddsJob(i) PROVE InLine(j)'
  <2>1. CASE i # j
    BY <1>0, <1>3, <1>5, <2>1 DEF ToolAddsJob
  <2>2. CASE i = j
    <3>1. j \in enabled /\ ver[j] = 0
      BY <1>5, <2>2 DEF ToolAddsJob, Excused
    <3> QED
      BY <1>2, <1>5, <2>2, <3>1, InLineAdded
  <2> QED
    BY <2>1, <2>2
<1>6. ASSUME NEW i \in Job, CancelWritesRow(i) \/ Fires(i) \/ RunAtPasses(i)
      PROVE  InLine(j)'
  BY <1>3, <1>6 DEF CancelWritesRow, Fires, CronFires, IntervalFires,
     WebhookFires, RunAtPasses
<1>7. ASSUME NEW i \in Job, NEW v, OnceFires(i, v) PROVE InLine(j)'
  <2>1. i # j
    BY <1>2, <1>7 DEF OnceFires
  <2> QED
    BY <1>0, <1>3, <1>7, <2>1 DEF OnceFires
<1>8. ASSUME NEW t \in turns, AgentBegins(t) \/ TurnEnds(t) PROVE InLine(j)'
  BY <1>3, <1>8 DEF AgentBegins, TurnEnds
<1>9. CASE InitReads \/ ReconcileReads \/ ReconcileFails \/ UNCHANGED vars
  BY <1>3, <1>9 DEF InitReads, ReconcileReads, ReconcileFails, vars
<1>10. CASE InitAdds \/ ReconcileApplies
  <2>1. current(j)
    BY <1>10 DEF InitAdds, ReconcileApplies, Applied, Excused
  <2> QED
    BY <1>2, <1>10, <2>1, InLineApplies
<1>11. ~Stop
  BY DEF Stop, Excused
<1> QED
  BY <1>4, <1>5, <1>6, <1>7, <1>8, <1>9, <1>10, <1>11 DEF Next, OnceStep

(* Only a change of its own row, a race with that change, or a stop puts a *)
(* job out of line.                                                        *)
THEOREM StaysInLine == Spec => OnlyChangesUnsettle
<1> DEFINE Kept == \A j \in Job \ (due' \union Far) :
                     InLine(j) => InLine(j)' \/ Excused(j)
<1>1. TidyInv /\ [Next]_vars => [Kept]_vars
  BY StepInLine
<1>2. OnlyChangesUnsettle <=> [][Kept]_vars
  BY DEF OnlyChangesUnsettle
<1> HIDE DEF Kept
<1> QED
  BY <1>1, <1>2, InitTidy, StepTidy, PTL DEF Spec

-----------------------------------------------------------------------------
(* The chances of a one-shot job: turns begun, turns that have yet to      *)
(* reach the agent, an armed entry, and a timer that leaked.  None of them *)
(* returns once its time has passed, because addJob() does not arm what is *)
(* past, and each step only turns one into the next.                       *)
Chance(t, j) == t.job = j /\ t.by = "timer"

probing(j) == {t \in turns : Chance(t, j) /\ t.at = "probe"}
armed(j)   == IF timer[j].state = "armed" THEN 1 ELSE 0
loose(j)   == IF leaked[j] = {} THEN 0 ELSE 1

Shots(j) ==
  /\ j \notin due => ran[j] = 0 /\ \A t \in turns : ~Chance(t, j)
  /\ ran[j] + Cardinality(probing(j)) + armed(j) + loose(j) <= shots(j)

Shooting == {j \in Job \ Far : Kind[j] = "once"}

ShotsInv == /\ TidyInv
            /\ IsFiniteSet(turns)
            /\ \A j \in Shooting : Shots(j)

(* The counts are numbers.                                                 *)
LEMMA ProbingCount ==
  ASSUME IsFiniteSet(turns), NEW j
  PROVE  IsFiniteSet(probing(j)) /\ Cardinality(probing(j)) \in Nat
<1> probing(j) \subseteq turns
  BY DEF probing
<1> QED
  BY FS_Subset, FS_CardinalityType

(* Before its time a job has at most one armed entry, and a leaked timer   *)
(* if a tool made it.                                                      *)
LEMMA ShotsBefore ==
  ASSUME NEW j \in Job, Tidy(j), j \notin due, ran[j] = 0,
         \A t \in turns : ~Chance(t, j)
  PROVE  Shots(j)
<1>1. probing(j) = {}
  BY DEF probing
<1>2. Cardinality(probing(j)) = 0
  BY <1>1, FS_EmptySet
<1>3. armed(j) + loose(j) <= shots(j)
  BY DEF armed, loose, shots, Tidy, Leaks
<1> QED
  BY <1>2, <1>3 DEF Shots, armed, loose

(* Turns and counts as they were, and nothing armed or leaked after its    *)
(* time.                                                                   *)
LEMMA ShotsTimers ==
  ASSUME ShotsInv, TidyInv', NEW j \in Shooting, UNCHANGED <<ran, turns, due>>,
         j \in due => /\ timer'[j].state = "armed" => timer[j].state = "armed"
                      /\ leaked'[j] # {} => leaked[j] # {}
  PROVE  Shots(j)'
<1> j \in Job /\ Shots(j) /\ ran[j] \in Nat /\ Tidy(j)'
  BY DEF ShotsInv, TidyInv, TypeOK, Shooting
<1>1. CASE j \notin due
  <2> Tidy(j)' /\ j \notin due' /\ ran'[j] = 0 /\ \A t \in turns' : ~Chance(t, j)
    BY <1>1 DEF Shots
  <2>1. probing(j)' = {}
    BY DEF probing, Chance
  <2>2. Cardinality(probing(j)') = 0
    BY <2>1, FS_EmptySet
  <2>3. armed(j)' + loose(j)' <= shots(j)
    BY DEF armed, loose, shots, Tidy, Leaks
  <2> QED
    BY <2>2, <2>3 DEF Shots, armed, loose, Chance, shots
<1>2. CASE j \in due
  <2>1. probing(j)' = probing(j) /\ Cardinality(probing(j)) \in Nat
    BY ProbingCount DEF ShotsInv, probing, Chance
  <2>2. armed(j)' <= armed(j) /\ loose(j)' <= loose(j)
    BY <1>2 DEF armed, loose
  <2> QED
    BY <1>2, <2>1, <2>2 DEF Shots, armed, loose, shots
<1> QED
  BY <1>1, <1>2

(* A firing, or the start or end of a turn, of another job or a webhook;   *)
(* or the end of one of the job's own.                                     *)
LEMMA ShotsTurns ==
  ASSUME ShotsInv, NEW j \in Shooting, UNCHANGED due,
         timer'[j] = timer[j], leaked'[j] = leaked[j], ran'[j] = ran[j],
         \A t \in turns' : t \in turns \/ ~Chance(t, j)
  PROVE  Shots(j)'
<1> j \in Job /\ Shots(j) /\ ran[j] \in Nat
  BY DEF ShotsInv, TidyInv, TypeOK, Shooting
<1>1. probing(j)' \subseteq probing(j)
  BY DEF probing, Chance
<1>2. /\ Cardinality(probing(j)') <= Cardinality(probing(j))
      /\ Cardinality(probing(j)') \in Nat /\ Cardinality(probing(j)) \in Nat
  BY <1>1, ProbingCount, FS_Subset, FS_CardinalityType DEF ShotsInv
<1> QED
  BY <1>2 DEF Shots, armed, loose, shots, Chance

(* A timer that fires becomes a turn at its probe.                         *)
LEMMA ShotsFired ==
  ASSUME ShotsInv, NEW j \in Job, NEW v, OnceFires(j, v)
  PROVE  IsFiniteSet(turns') /\ \A i \in Shooting : Shots(i)'
<1> USE DEF rows
<1> /\ timer \in [Job -> Entry] /\ leaked \in [Job -> SUBSET Nat]
    /\ ran \in [Job -> Nat] /\ IsFiniteSet(turns)
  BY DEF ShotsInv, TidyInv, TypeOK, Entry
<1> DEFINE u == [job |-> j, n |-> fires[j] + 1, by |-> "timer", at |-> "probe"]
<1>1. /\ turns' = turns \union {u} /\ j \in due \union Far
      /\ UNCHANGED <<due, ran>>
  BY DEF OnceFires, begin
<1>2. u.job = j
  OBVIOUS
<1> HIDE DEF u
<1>3. IsFiniteSet(turns')
  BY <1>1, FS_AddElement
<1>4. ASSUME j \in Shooting PROVE Shots(j)'
  <2>1. j \in due /\ Shots(j) /\ ran[j] \in Nat /\ Tidy(j)
    BY <1>1, <1>4 DEF Shooting, ShotsInv, TidyInv
  <2>2. probing(j)' \subseteq probing(j) \union {u}
    BY <1>1 DEF probing, Chance
  <2>3. /\ IsFiniteSet(probing(j)) /\ Cardinality(probing(j)) \in Nat
        /\ IsFiniteSet(probing(j) \union {u})
        /\ Cardinality(probing(j) \union {u}) <= Cardinality(probing(j)) + 1
    <3> DEFINE P == probing(j)
    <3>1. IsFiniteSet(P) /\ Cardinality(P) \in Nat
      BY ProbingCount
    <3> HIDE DEF P
    <3>2. /\ IsFiniteSet(P \union {u})
          /\ Cardinality(P \union {u}) \in {Cardinality(P), Cardinality(P) + 1}
      BY <3>1, FS_AddElement
    <3> QED
      BY <3>1, <3>2 DEF P
  <2>4. /\ Cardinality(probing(j)') <= Cardinality(probing(j)) + 1
        /\ Cardinality(probing(j)') \in Nat
    BY <2>2, <2>3, FS_Subset, FS_CardinalityType
  <2>5. armed(j)' + loose(j)' + 1 <= armed(j) + loose(j)
    <3>1. CASE timer[j] = Armed(v) /\ UNCHANGED leaked
               /\ timer' = [timer EXCEPT ![j].state = "fired"]
      BY <3>1 DEF armed, loose, Armed
    <3>2. CASE v \in leaked[j] /\ UNCHANGED timer
               /\ leaked' = [leaked EXCEPT ![j] = @ \ {v}]
      <4>1. leaked'[j] = {}
        BY <2>1, <3>2 DEF Tidy, Leaks
      <4> QED
        BY <3>2, <4>1 DEF armed, loose
    <3> QED
      BY <3>1, <3>2 DEF OnceFires
  <2> QED
    BY <1>1, <2>1, <2>3, <2>4, <2>5 DEF Shots, armed, loose, shots
<1>5. ASSUME NEW i \in Shooting, i # j PROVE Shots(i)'
  <2>1. timer'[i] = timer[i] /\ leaked'[i] = leaked[i] /\ ran'[i] = ran[i]
    BY <1>1, <1>5 DEF OnceFires, Shooting
  <2> QED
    BY <1>1, <1>2, <1>5, <2>1, ShotsTurns DEF Chance
<1> QED
  BY <1>3, <1>4, <1>5

(* A turn that reaches the agent was one at its probe.                     *)
LEMMA ShotsBegins ==
  ASSUME ShotsInv, NEW t \in turns, AgentBegins(t)
  PROVE  IsFiniteSet(turns') /\ \A i \in Shooting : Shots(i)'
<1> USE DEF rows, live
<1>1. /\ UNCHANGED <<timer, leaked, due>> /\ t.at = "probe" /\ t \in Turn
      /\ ran \in [Job -> Nat] /\ IsFiniteSet(turns)
  BY DEF ShotsInv, AgentBegins, TidyInv, TypeOK
<1>2. CASE t.job \notin kept
  <2>1. turns' = turns \ {t} /\ ran' = ran
    BY <1>2 DEF AgentBegins, ends
  <2> QED
    BY <1>1, <2>1, FS_RemoveElement, ShotsTurns
<1>3. CASE t.job \in kept
  <2> DEFINE u == [t EXCEPT !.at = "agent"]
  <2>1. u.job = t.job /\ u.by = t.by /\ u.at = "agent" /\ t.job \in Job
    BY <1>1 DEF Turn
  <2>2. turns' = (turns \ {t}) \union {u}
    BY <1>3 DEF AgentBegins
  <2>3. ran' = IF t.by = "timer" THEN [ran EXCEPT ![t.job] = @ + 1] ELSE ran
    BY <1>3 DEF AgentBegins
  <2> HIDE DEF u
  <2>4. IsFiniteSet(turns')
    BY <1>1, <2>2, FS_RemoveElement, FS_AddElement
  <2>5. ASSUME NEW i \in Shooting, Chance(t, i) PROVE Shots(i)'
    <3>1. Shots(i) /\ i \in Job /\ i \in due /\ ran[i] \in Nat
      BY <1>1, <2>5 DEF ShotsInv, Shots, Shooting
    <3>2. ran'[i] = ran[i] + 1
      BY <1>1, <2>3, <2>5, <3>1 DEF Chance
    <3>3. probing(i)' = probing(i) \ {t} /\ t \in probing(i)
      BY <1>1, <2>1, <2>2, <2>5 DEF probing, Chance
    <3>4. /\ Cardinality(probing(i)') = Cardinality(probing(i)) - 1
          /\ Cardinality(probing(i)) \in Nat
      BY <1>1, <3>3, ProbingCount, FS_RemoveElement
    <3> QED
      BY <1>1, <3>1, <3>2, <3>4 DEF Shots, armed, loose, shots
  <2>6. ASSUME NEW i \in Shooting, ~Chance(t, i) PROVE Shots(i)'
    <3>1. ran'[i] = ran[i]
      BY <1>1, <2>3, <2>6 DEF Chance, Turn, Shooting
    <3> QED
      BY <1>1, <2>1, <2>2, <2>6, <3>1, ShotsTurns DEF Chance
  <2> QED
    BY <2>4, <2>5, <2>6
<1> QED
  BY <1>2, <1>3

(* A one-shot job has had no chance at the start.                          *)
LEMMA InitShots == Init => ShotsInv
<1> SUFFICES ASSUME Init PROVE IsFiniteSet(turns) /\ \A j \in Shooting : Shots(j)
  BY InitTidy DEF ShotsInv
<1> QED
  BY InitTidy, ShotsBefore, FS_EmptySet DEF Init, Zero, Shooting, TidyInv

(* No step adds a chance to a job whose time has passed.                   *)
LEMMA StepShots == ShotsInv /\ [Next]_vars => ShotsInv'
<1> SUFFICES ASSUME ShotsInv, [Next]_vars
             PROVE  IsFiniteSet(turns') /\ \A i \in Shooting : Shots(i)'
  BY StepTidy DEF ShotsInv
<1> USE DEF rows, snap, live, work, tools
<1> DEFINE Goal == IsFiniteSet(turns') /\ \A i \in Shooting : Shots(i)'
<1>0. TidyInv' /\ IsFiniteSet(turns)
  BY StepTidy DEF ShotsInv
<1> Shooting \subseteq Job
  BY DEF Shooting
<1>1. ASSUME NEW j \in Job, UserStep(j) \/ CancelWritesRow(j), ~CancelRemovesJob(j)
      PROVE  Goal
  BY <1>0, <1>1, ShotsTimers DEF UserStep, CreateSchedule, ToggleSchedule,
     DeleteSchedule, UpdateSchedule, ToolCreatesRow, CancelWritesRow
<1>2. ASSUME NEW j \in Job, CancelRemovesJob(j)
      PROVE  Goal
  <2>1. \A i \in Job : timer'[i].state = "armed" => timer[i].state = "armed"
    BY <1>2 DEF CancelRemovesJob, Unset, ShotsInv, TidyInv, TypeOK
  <2> QED
    BY <1>0, <1>2, <2>1, ShotsTimers DEF CancelRemovesJob
<1>3. ASSUME NEW j \in Job, ToolAddsJob(j)
      PROVE  Goal
  <2>1. ASSUME NEW i \in Shooting, i \in due
        PROVE  /\ timer'[i].state = "armed" => timer[i].state = "armed"
               /\ leaked'[i] # {} => leaked[i] # {}
    BY <1>3, <2>1 DEF ToolAddsJob, added, overwritten, arms, ShotsInv, TidyInv,
       TypeOK, Shooting
  <2> QED
    BY <1>0, <1>3, <2>1, ShotsTimers DEF ToolAddsJob
<1>4. ASSUME NEW j \in Job, CronFires(j) \/ IntervalFires(j) \/ WebhookFires(j)
      PROVE  Goal
  <2>1. PICK by \in {"timer", "webhook"} : /\ begin(j, by)
                                           /\ by = "timer" => Kind[j] # "once"
    BY <1>4 DEF CronFires, IntervalFires, WebhookFires
  <2> DEFINE u == [job |-> j, n |-> fires[j] + 1, by |-> by, at |-> "probe"]
  <2>2. turns' = turns \union {u} /\ IsFiniteSet(turns')
    BY <1>0, <2>1, FS_AddElement DEF begin
  <2>3. \A i \in Shooting : ~Chance(u, i)
    BY <2>1 DEF Shooting, Chance
  <2> HIDE DEF u
  <2>4. UNCHANGED <<due, timer, leaked, ran>>
    BY <1>4 DEF CronFires, IntervalFires, WebhookFires
  <2> QED
    BY <2>2, <2>3, <2>4, ShotsTurns
<1>5. ASSUME NEW j \in Job, OnceStep(j)
      PROVE  Goal
  BY <1>5, ShotsFired DEF OnceStep
<1>6. ASSUME NEW j \in Job, RunAtPasses(j)
      PROVE  Goal
  <2>1. UNCHANGED <<timer, leaked, ran, turns>> /\ due \subseteq due'
    BY <1>6 DEF RunAtPasses
  <2> QED
    BY <1>0, <2>1 DEF ShotsInv, Shots, probing, armed, loose, Chance
<1>7. ASSUME NEW t \in turns, AgentBegins(t)
      PROVE  Goal
  BY <1>7, ShotsBegins
<1>8. ASSUME NEW t \in turns, TurnEnds(t)
      PROVE  Goal
  <2>1. turns' = turns \ {t} /\ UNCHANGED <<due, timer, leaked, ran>>
    BY <1>8 DEF TurnEnds, ends
  <2> QED
    BY <1>0, <2>1, FS_RemoveElement, ShotsTurns
<1>9. CASE InitReads \/ ReconcileReads \/ ReconcileFails \/ UNCHANGED vars
  BY <1>0, <1>9, ShotsTimers DEF InitReads, ReconcileReads, ReconcileFails, vars
<1>10. CASE InitAdds
  <2>1. ASSUME NEW i \in Shooting, i \in due
        PROVE  /\ timer'[i].state = "armed" => timer[i].state = "armed"
               /\ leaked'[i] # {} => leaked[i] # {}
    BY <1>10, <2>1 DEF InitAdds, added, overwritten, arms, Shooting
  <2> QED
    BY <1>0, <1>10, <2>1, ShotsTimers DEF InitAdds, Applied
<1>11. CASE ReconcileApplies
  <2>1. ASSUME NEW i \in Shooting, i \in due, timer'[i].state = "armed"
        PROVE  timer[i].state = "armed"
    <3>1. ~arms(i) /\ timer'[i] = reconciled(i)
      BY <1>11, <2>1 DEF ReconcileApplies, arms, Shooting
    <3>2. reconciled(i) \in {timer[i], Unset}
      <4>1. CASE i \in seen /\ ~(timer[i] # Unset /\ ~changed(i))
        BY <3>1, <4>1 DEF reconciled
      <4> QED
        BY <4>1 DEF reconciled
    <3> QED
      BY <2>1, <3>1, <3>2 DEF Unset
  <2> QED
    BY <1>0, <1>11, <2>1, ShotsTimers DEF ReconcileApplies, Applied
<1>12. CASE Stop
  <2>1. turns' = {} /\ IsFiniteSet(turns')
    BY <1>12, FS_EmptySet DEF Stop
  <2>2. \A i \in Shooting : /\ timer'[i] = Unset /\ leaked'[i] = {}
                            /\ ran'[i] = ran[i] /\ Shots(i) /\ ran[i] \in Nat
                            /\ due' = due
    BY <1>12 DEF Stop, ShotsInv, TidyInv, TypeOK
  <2>3. \A i \in Shooting : /\ probing(i)' = {} /\ Cardinality(probing(i)') = 0
                            /\ armed(i)' = 0 /\ loose(i)' = 0
    BY <2>1, <2>2, FS_EmptySet DEF probing, armed, loose, Unset
  <2>4. \A i \in Shooting : Cardinality(probing(i)) \in Nat
    BY <1>0, ProbingCount
  <2> QED
    BY <2>1, <2>2, <2>3, <2>4 DEF Shots, armed, loose, shots
<1> QED
  BY <1>1, <1>2, <1>3, <1>4, <1>5, <1>6, <1>7, <1>8, <1>9, <1>10, <1>11, <1>12
     DEF Next, UserStep, Fires

(* A one-shot job of the dashboard gives the agent at most one turn and    *)
(* one of a tool at most two, across edits, toggles, cancellations, races  *)
(* with a reconcile, failures and restarts.                                *)
THEOREM BoundedShots == Spec => []ShotsAreBounded
<1>1. ShotsInv => ShotsAreBounded
  <2> SUFFICES ASSUME ShotsInv, NEW j \in Shooting PROVE ran[j] <= shots(j)
    BY DEF ShotsAreBounded, Shooting
  <2> ran[j] \in Nat /\ Cardinality(probing(j)) \in Nat /\ Shots(j)
    BY ProbingCount DEF ShotsInv, TidyInv, TypeOK, Shooting
  <2> QED
    BY DEF Shots, armed, loose, shots
<1> QED
  BY InitShots, StepShots, <1>1, PTL DEF Spec

(* So where tools create no jobs and no delay overflows, no job runs twice *)
(* (SchedulerTwice shows that it may where they do).                       *)
THEOREM OnceOnly ==
  ASSUME ByTool = {}, Far = {}
  PROVE  Spec => []OnceAtMostOnce
<1>1. ShotsAreBounded => OnceAtMostOnce
  BY DEF ShotsAreBounded, OnceAtMostOnce, shots
<1> QED
  BY BoundedShots, <1>1, PTL
=============================================================================

---------------------------- MODULE JobScheduler ----------------------------
(***************************************************************************)
(* Scheduled jobs of the gateway:                                          *)
(*   src/pulse/src/cron/scheduler.ts           live timers, reconcile      *)
(*   src/pulse/src/cron/job-runner.ts          what a firing does          *)
(*   src/pulse/src/cron/job-store.ts           the rows                    *)
(*   src/pulse/src/cron/webhook-trigger.ts     firing from outside         *)
(*   src/pulse/src/agent/tools/built-in/schedule.ts   the agent's tools    *)
(*   src/dashboard/src/app/dashboard/agents/[id]/schedules/actions.ts      *)
(*                                                                         *)
(* A job is a row of scheduled_jobs.  The dashboard, another process, only *)
(* writes rows; the agent's tools write rows and also call the scheduler;  *)
(* every 30 seconds reconcile() reads the enabled rows and, after that     *)
(* await, brings the timers in line with what it read.                     *)
(***************************************************************************)
EXTENDS Naturals, FiniteSets

CONSTANTS Job,         \* the jobs of a run
          Kind,        \* Job -> ScheduleType
          ByTool,      \* jobs an agent creates; the others the dashboard does
          Far,         \* once jobs due in more than 2^31-1 ms
          Broken,      \* jobs whose schedule is missing or does not parse
          Conditional, \* jobs with a precondition
          MaxOps,      \* bound: edits, toggles, deletions and cancellations
          MaxFires,    \* Job -> bound: its firings if it recurs, its webhooks
          MaxFaults    \* bound: restarts and failed reads

ScheduleType == {"cron", "interval", "once"}

ASSUME ConstantsOK == /\ Kind \in [Job -> ScheduleType]
                      /\ ByTool \subseteq {j \in Job : Kind[j] # "interval"}
                      /\ Far \subseteq {j \in Job : Kind[j] = "once"}
                      /\ MaxOps \in Nat
                      /\ MaxFires \in [Job -> Nat]
                      /\ MaxFaults \in Nat

VARIABLES
  (* Postgres *)
  row,        \* scheduled_jobs: is the row there, is it enabled
  ver,        \* how often it was edited
  due,        \* jobs whose run_at has passed
  (* the scheduler's memory *)
  phase,      \* where init() and reconcile() stand
  seen,       \* the enabled rows they read,
  seenVer,    \*   and their versions
  timer,      \* the entry of the jobs / timers map
  signature,  \* the entry of jobSignatures
  leaked,     \* versions of running timers that are in neither map
  busy,       \* intervalJobRunning
  turns,      \* the calls of executeJob in flight
  (* the agent's tool calls *)
  adding,     \* schedule_job / schedule_once wrote the row
  cancelling, \* cancel_job removed the timer
  (* ghosts *)
  ran,        \* agent turns begun by a timer
  fires, ops, faults

rows  == <<row, ver, due>>
tools == <<adding, cancelling>>
live  == <<timer, signature, leaked>>
work  == <<busy, turns, ran, fires>>
snap  == <<seen, seenVer>>
vars  == <<rows, phase, snap, live, work, tools, ops, faults>>

Unset == [ver |-> 0, state |-> "none"]
Armed(v) == [ver |-> v, state |-> "armed"]

Turn == [job : Job, n : Nat, by : {"timer", "webhook"},
         at : {"probe", "agent"}]

(* Everything a variable may hold.                                         *)
TypeOK == /\ row \in [Job -> {"none", "enabled", "disabled", "deleted"}]
          /\ ver \in [Job -> Nat]
          /\ due \subseteq Job
          /\ phase \in {"down", "booting", "idle", "reconciling"}
          /\ seen \subseteq Job
          /\ seenVer \in [Job -> Nat]
          /\ timer \in [Job -> [ver : Nat, state : {"none", "armed", "fired"}]]
          /\ signature \in [Job -> Nat]
          /\ leaked \in [Job -> SUBSET Nat]
          /\ busy \subseteq Job
          /\ turns \subseteq Turn
          /\ adding \subseteq Job
          /\ cancelling \subseteq Job
          /\ ran \in [Job -> Nat]
          /\ fires \in [Job -> Nat]
          /\ ops \in Nat
          /\ faults \in Nat
Zero == [j \in Job |-> 0]

Init == /\ row = [j \in Job |-> "none"]
        /\ ver = Zero
        /\ due = {}
        /\ phase = "down"
        /\ seen = {}
        /\ seenVer = Zero
        /\ timer = [j \in Job |-> Unset]
        /\ signature = Zero
        /\ leaked = [j \in Job |-> {}]
        /\ busy = {}
        /\ turns = {}
        /\ adding = {}
        /\ cancelling = {}
        /\ ran = Zero
        /\ fires = Zero
        /\ ops = 0
        /\ faults = 0

Op    == ops < MaxOps /\ ops' = ops + 1
Fault == faults < MaxFaults /\ faults' = faults + 1

enabled == {j \in Job : row[j] = "enabled"}
kept    == {j \in Job : row[j] \in {"enabled", "disabled"}}

-----------------------------------------------------------------------------
(* The dashboard: only the rows are written.                               *)

CreateSchedule(j) == /\ j \notin ByTool
                     /\ row[j] = "none"
                     /\ row' = [row EXCEPT ![j] = "enabled"]
                     /\ UNCHANGED <<ver, due, phase, snap, live, work, tools,
                                    ops, faults>>

ToggleSchedule(j) ==
  /\ j \in kept
  /\ Op
  /\ row' = [row EXCEPT ![j] = IF @ = "enabled" THEN "disabled" ELSE "enabled"]
  /\ UNCHANGED <<ver, due, phase, snap, live, work, tools, faults>>

DeleteSchedule(j) == /\ j \in kept
                     /\ Op
                     /\ row' = [row EXCEPT ![j] = "deleted"]
                     /\ UNCHANGED <<ver, due, phase, snap, live, work, tools,
                                    faults>>

(* The precondition and the tools of a job; its schedule cannot be edited. *)
UpdateSchedule(j) == /\ j \in kept
                     /\ Op
                     /\ ver' = [ver EXCEPT ![j] = @ + 1]
                     /\ UNCHANGED <<row, due, phase, snap, live, work, tools,
                                    faults>>

-----------------------------------------------------------------------------
(* The live scheduler.                                                     *)

(* Mutant: a one-shot job is armed even when its time has passed.          *)
arms_Always(j) == j \notin Broken

(* addJob() has something to arm: a schedule that parses and, for a        *)
(* one-shot job, a delay above zero.                                       *)
arms(j) == j \notin Broken /\ (Kind[j] = "once" => j \notin due)

(* Mutants: the signature leaves out what was edited; or compares the Date *)
(* objects of run_at instead of their times.                               *)
changed_Never(j) == FALSE
changed_Always(j) == TRUE

changed(j) == signature[j] # seenVer[j]

(* Mutant: a timer that is cleared keeps its entry in the map.             *)
reconciled_Kept(j) ==
  CASE j \notin seen -> [timer[j] EXCEPT !.state = "cleared"]
    [] j \in seen /\ timer[j] # Unset /\ ~changed(j) -> timer[j]
    [] OTHER -> IF arms(j) THEN Armed(seenVer[j]) ELSE Unset

(* Every enabled row that was read has a timer made from it; a row that    *)
(* was not read has none.  scheduledIds is taken after the await, and what *)
(* follows runs in one go.                                                 *)
reconciled(j) ==
  CASE j \notin seen -> Unset
    [] j \in seen /\ timer[j] # Unset /\ ~changed(j) -> timer[j]
    [] OTHER -> IF arms(j) THEN Armed(seenVer[j]) ELSE Unset

Reads(from, to) == /\ phase = from
                   /\ phase' = to
                   /\ seen' = enabled
                   /\ seenVer' = [j \in Job |-> IF j \in enabled THEN ver[j] ELSE 0]

Applied == /\ phase' = "idle"
           /\ seen' = {}
           /\ seenVer' = Zero
           /\ UNCHANGED <<rows, work, tools, ops, faults>>

(* addJob() puts the new timer in the map; one that is already there stays *)
(* armed, out of everybody's reach.                                        *)
overwritten(j) == IF arms(j) /\ timer[j].state = "armed"
                  THEN leaked[j] \union {timer[j].ver} ELSE leaked[j]

added(j, v) == IF arms(j) THEN Armed(v) ELSE timer[j]

(* init(): the read, and an addJob() of every row it returned.             *)
InitReads == /\ Reads("down", "booting")
             /\ UNCHANGED <<rows, live, work, tools, ops, faults>>

InitAdds ==
  /\ phase = "booting"
  /\ timer' = [j \in Job |-> IF j \in seen THEN added(j, seenVer[j]) ELSE timer[j]]
  /\ signature' = [j \in Job |-> IF j \in seen THEN seenVer[j] ELSE signature[j]]
  /\ leaked' = [j \in Job |-> IF j \in seen THEN overwritten(j) ELSE leaked[j]]
  /\ Applied

(* reconcile(): the 30-second tick, skipped while one is in flight.        *)
ReconcileReads == /\ Reads("idle", "reconciling")
                  /\ UNCHANGED <<rows, live, work, tools, ops, faults>>

ReconcileApplies ==
  /\ phase = "reconciling"
  /\ timer' = [j \in Job |-> reconciled(j)]
  /\ signature' = [j \in Job |-> IF j \in seen THEN seenVer[j] ELSE 0]
  /\ UNCHANGED leaked
  /\ Applied

ReconcileFails == /\ phase = "reconciling"
                  /\ Fault
                  /\ phase' = "idle"
                  /\ seen' = {}
                  /\ seenVer' = Zero
                  /\ UNCHANGED <<rows, live, work, tools, ops>>

(* The gateway stops or crashes; every timer and turn dies with it.        *)
Stop == /\ phase # "down"
        /\ Fault
        /\ phase' = "down"
        /\ seen' = {}
        /\ seenVer' = Zero
        /\ timer' = [j \in Job |-> Unset]
        /\ signature' = Zero
        /\ leaked' = [j \in Job |-> {}]
        /\ busy' = {}
        /\ turns' = {}
        /\ adding' = {}
        /\ cancelling' = {}
        /\ UNCHANGED <<rows, ran, fires, ops>>

-----------------------------------------------------------------------------
(* The agent's tools: createJob() and then addJob(); removeJob() and then  *)
(* the UPDATE or DELETE.                                                   *)

ToolCreatesRow(j) == /\ phase # "down"
                     /\ j \in ByTool
                     /\ row[j] = "none"
                     /\ row' = [row EXCEPT ![j] = "enabled"]
                     /\ adding' = adding \union {j}
                     /\ UNCHANGED <<ver, due, phase, snap, live, work,
                                    cancelling, ops, faults>>

ToolAddsJob(j) == /\ j \in adding
                  /\ adding' = adding \ {j}
                  /\ timer' = [timer EXCEPT ![j] = added(j, 0)]
                  /\ signature' = [signature EXCEPT ![j] = 0]
                  /\ leaked' = [leaked EXCEPT ![j] = overwritten(j)]
                  /\ UNCHANGED <<rows, phase, snap, work, cancelling, ops, faults>>

CancelRemovesJob(j) == /\ phase # "down"
                       /\ j \in kept \ cancelling
                       /\ Op
                       /\ cancelling' = cancelling \union {j}
                       /\ timer' = [timer EXCEPT ![j] = Unset]
                       /\ signature' = [signature EXCEPT ![j] = 0]
                       /\ UNCHANGED <<rows, phase, snap, leaked, work, adding,
                                      faults>>

CancelWritesRow(j) ==
  /\ j \in cancelling
  /\ cancelling' = cancelling \ {j}
  /\ \E to \in {"disabled", "deleted"} :
        row' = [row EXCEPT ![j] = IF @ = "deleted" THEN @ ELSE to]
  /\ UNCHANGED <<ver, due, phase, snap, live, work, adding, ops, faults>>

-----------------------------------------------------------------------------
(* Firings.                                                                *)

(* Mutant: an interval tick does not look whether the last one is over.    *)
free_Always(j) == TRUE

free(j) == j \notin busy

running(j) == leaked[j] \union
              (IF timer[j].state = "armed" THEN {timer[j].ver} ELSE {})

begin(j, by) == /\ turns' = turns \union {[job |-> j, n |-> fires[j] + 1,
                                           by |-> by, at |-> "probe"]}
                /\ fires' = [fires EXCEPT ![j] = @ + 1]

(* croner skips a run whose predecessor's promise is pending, but addJob() *)
(* gives it a callback that returns at once: nothing is ever skipped.      *)
CronFires(j) == /\ Kind[j] = "cron"
                /\ running(j) # {}
                /\ fires[j] < MaxFires[j]
                /\ begin(j, "timer")
                /\ UNCHANGED <<rows, phase, snap, live, busy, ran, tools,
                               ops, faults>>

IntervalFires(j) == /\ Kind[j] = "interval"
                    /\ running(j) # {}
                    /\ free(j)
                    /\ fires[j] < MaxFires[j]
                    /\ begin(j, "timer")
                    /\ busy' = busy \union {j}
                    /\ UNCHANGED <<rows, phase, snap, live, ran, tools,
                                   ops, faults>>

(* setTimeout at run_at, or at once when the delay overflows 31 bits.  The *)
(* entry of a fired timer stays in the map.                                *)
OnceFires(j, v) ==
  /\ Kind[j] = "once"
  /\ j \in due \union Far
  /\ \/ /\ timer[j] = Armed(v)
        /\ timer' = [timer EXCEPT ![j].state = "fired"]
        /\ UNCHANGED leaked
     \/ /\ v \in leaked[j]
        /\ leaked' = [leaked EXCEPT ![j] = @ \ {v}]
        /\ UNCHANGED timer
  /\ begin(j, "timer")
  /\ UNCHANGED <<rows, phase, snap, signature, busy, ran, tools, ops, faults>>

(* POST /webhooks/cron/:token, served once init() is done.                 *)
WebhookFires(j) == /\ phase \in {"idle", "reconciling"}
                   /\ j \in enabled
                   /\ fires[j] < MaxFires[j]
                   /\ begin(j, "webhook")
                   /\ UNCHANGED <<rows, phase, snap, live, busy, ran, tools,
                                  ops, faults>>

ends(t) == /\ turns' = turns \ {t}
           /\ busy' = IF t.by = "timer" /\ Kind[t.job] = "interval"
                      THEN busy \ {t.job} ELSE busy

(* executeJob(): the row of job_runs needs the job's row, and the agent's  *)
(* turn begins.                                                            *)
AgentBegins(t) ==
  /\ t.at = "probe"
  /\ IF t.job \in kept
     THEN /\ turns' = (turns \ {t}) \union {[t EXCEPT !.at = "agent"]}
          /\ ran' = IF t.by = "timer" THEN [ran EXCEPT ![t.job] = @ + 1] ELSE ran
          /\ UNCHANGED busy
     ELSE ends(t) /\ UNCHANGED ran
  /\ UNCHANGED <<rows, phase, snap, live, fires, tools, ops, faults>>

(* The turn is over, the precondition says there is nothing to do, or the  *)
(* database fails before the agent was asked.                              *)
TurnEnds(t) ==
  /\ \/ /\ t.at = "agent" \/ t.job \in Conditional
        /\ UNCHANGED faults
     \/ /\ t.at = "probe"
        /\ Fault
  /\ ends(t)
  /\ UNCHANGED <<rows, phase, snap, live, ran, fires, tools, ops>>

RunAtPasses(j) == /\ Kind[j] = "once"
                  /\ j \notin due
                  /\ due' = due \union {j}
                  /\ UNCHANGED <<row, ver, phase, snap, live, work, tools,
                                 ops, faults>>

-----------------------------------------------------------------------------
UserStep(j) == \/ CreateSchedule(j) \/ ToggleSchedule(j) \/ DeleteSchedule(j)
               \/ UpdateSchedule(j) \/ ToolCreatesRow(j) \/ CancelRemovesJob(j)

Fires(j) == \/ CronFires(j) \/ IntervalFires(j) \/ WebhookFires(j)

OnceStep(j) == \E v \in 0 .. MaxOps : OnceFires(j, v)

Next == \/ \E j \in Job : \/ UserStep(j) \/ ToolAddsJob(j) \/ CancelWritesRow(j)
                         \/ Fires(j) \/ OnceStep(j) \/ RunAtPasses(j)
        \/ \E t \in turns : AgentBegins(t) \/ TurnEnds(t)
        \/ InitReads \/ InitAdds
        \/ ReconcileReads \/ ReconcileApplies \/ ReconcileFails
        \/ Stop

Spec == Init /\ [][Next]_vars

(* The process is restarted by its supervisor, ticks come every 30 seconds *)
(* and clocks advance; nobody has to touch a job, no recurring job has to  *)
(* fire and no turn has to end.                                            *)
FairSpec == /\ Spec
            /\ WF_vars(InitReads) /\ WF_vars(InitAdds)
            /\ WF_vars(ReconcileReads) /\ WF_vars(ReconcileApplies)
            /\ \A j \in Job : /\ WF_vars(ToolAddsJob(j))
                              /\ WF_vars(CancelWritesRow(j))
                              /\ WF_vars(OnceStep(j))
                              /\ WF_vars(RunAtPasses(j))
            /\ WF_vars(\E t \in turns : AgentBegins(t))

-----------------------------------------------------------------------------
(* Safety.                                                                 *)

(* An interval job never has two of its own turns in flight, whatever      *)
(* edits, cancellations and re-created timers come between: the guard is   *)
(* kept by job, not by timer.                                              *)
IntervalNeverOverlaps ==
  \A t, u \in turns : /\ t.job = u.job /\ Kind[t.job] = "interval"
                      /\ t.by = "timer" /\ u.by = "timer"
                      => t = u

(* A one-shot job gives the agent at most one turn, across edits, toggles  *)
(* and restarts: addJob() does not arm what is past.                       *)
OnceAtMostOnce == \A j \in Job : Kind[j] = "once" => ran[j] <= 1

(* What the race of a tool's addJob() with a reconcile can do at worst: a  *)
(* one-shot job that an agent made runs twice; one that the dashboard made *)
(* runs once, whatever becomes of the others.                              *)
shots(j) == IF j \in ByTool THEN 2 ELSE 1

ShotsAreBounded == \A j \in Job \ Far : Kind[j] = "once" => ran[j] <= shots(j)

shouldRun(j) == IF j \in enabled /\ arms(j) THEN {ver[j]} ELSE {}

(* A reconcile whose rows are still current when it applies them leaves    *)
(* exactly the right timer running for every job (a one-shot job that is   *)
(* due and about to fire aside): no edit is overlooked, no disabled or     *)
(* deleted job goes on, nothing runs twice.  It has no hold on what leaked *)
(* before, which only a job made by a tool can have.  The page of the      *)
(* dashboard's docs on schedules (automation--schedules.md:35) says that   *)
(* its changes wait for a restart; in the code they wait for a reconcile.  *)
ReconcileRepairs ==
  [][/\ phase = "reconciling" /\ phase' = "idle" /\ faults' = faults
     /\ seen = enabled /\ \A j \in seen : seenVer[j] = ver[j]
     => \A j \in Job : \/ /\ running(j)' = shouldRun(j) \union leaked[j]
                          /\ leaked[j] # {} => j \in ByTool
                       \/ Kind[j] = "once" /\ (j \in due \/ timer[j].state = "fired")
    ]_vars

-----------------------------------------------------------------------------
(* Liveness, under FairSpec.                                               *)

(* When people stop changing jobs, the maps hold, for every recurring job, *)
(* a timer made from the last version of an enabled row and no other,      *)
(* whether a tool or the dashboard (see above) changed the row.            *)
MapsEventuallyInLine ==
  <>[](\A j \in Job : Kind[j] # "once" =>
         (timer[j].state = "armed" /\ shouldRun(j) = {timer[j].ver})
         \/ (timer[j].state = "none" /\ shouldRun(j) = {}))

(* Once it is armed, and no reconcile is on its way that read the rows     *)
(* when it was not enabled, an unconditional one-shot job runs, unless its *)
(* row is disabled, deleted or edited first or a fault intervenes.         *)
ArmedJobRuns ==
  \A j \in Job : /\ Kind[j] = "once" /\ j \notin Conditional
                 /\ timer[j].state = "armed"
                 /\ phase = "reconciling" => j \in seen
                 ~> ran[j] > 0 \/ row[j] # "enabled" \/ ver[j] # 0 \/ faults > 0

=============================================================================

# A TLA+ verification project for Pulse AI

Pulse AI is a multi-tenant gateway (`src/pulse/src`, TypeScript on Node.js)
that connects people on Telegram, e-mail and a web client to language-model
agents, with a Next.js dashboard (`src/dashboard`) that writes the same Postgres
tables from a process of its own. This directory models the parts of the gateway
whose difficulty is in the order of events: what happens between two `await`s,
what another process does to a row meanwhile, and what a restart forgets.

Conventions: a step of a model is the code between two `await`s of one
handler, because Node runs that code alone. Postgres statements are atomic.
Variables, actions and helpers carry the names of the source where TLA+ allows it.

## 1. Inventory

| component | state | operations | hard behaviour | what makes it correct |
|---|---|---|---|---|
| approval workflow (`channels/approval-service.ts`, `agent/tools/approval-gate.ts`, gates in `channels/telegram/adapter.ts` and `servers/tools.ts`) | `pending_approvals`, `approval_allowances`; the `resolvers` map and its timeouts; Telegram cards | create, await, tap, click, time out, sweep, grant, revoke, run | five kinds of deciders race for a row; a restart drops waiters; every call may fail | one verdict, at most one run, run only with a sanction, cards and alerts say what happened, every row is decided |
| job scheduler (`cron/*`, `agent/tools/built-in/schedule.ts`, dashboard schedules) | `scheduled_jobs`, `job_runs`; maps `jobs`, `timers`, `jobSignatures`, set `intervalJobRunning` | init, reconcile, add, remove, fire, run, webhook, tools, dashboard edits | two processes write the rows; reconcile reads, awaits, applies | timers come to match the rows, no overlap, one-shot jobs run once |
| delegation (`agent/orchestration/agent-delegation.ts`) | in-memory root budgets and counters, `agent_delegations` | delegate, count tokens, sweep idle roots | parallel fan-outs check the caps before an await and count after it | a budget's caps bound the tree |
| message queue and worker (`queue/*`) | BullMQ jobs in Redis, leases | enqueue, process, retry, stall, forget | at-least-once delivery, a lease that runs out under a turn, a worker that starts before its adapters | one turn of a message at a time, each message is heard |
| agent runtime (`agent/runtime.ts`, `index.ts`) | `conversations`, the await at which each turn stands | find or create a conversation, refuse, answer, bill, apologise, shut down | concurrent first messages of a contact; the reply goes out before the bill; errors handled inside the turn | charged if and only if answered; an error only where something failed or a race was lost |
| run recorder (`agent/run-recorder.ts`) | `agent_runs`; the map `activeRunsByConversation` | start, bind, credit, checkpoint, finish, sweep stale runs | overlapping runs of a conversation; the sweep against a late finish | every run is closed, rows agree with turns, tool calls stay in the conversation |
| billing and tenant access (`billing/tenant-access.ts`) | `tenant_balances`, usage and ledger rows | check before a turn, charge after it, charge of a memory capture | check and charge are a turn apart; the check fails open | a bounded overdraft |
| commitments (`commitments/*`, their tools, the scheduler's tick) | `commitments`, the tenant's settings, the flag `commitmentTickRunning` | create, close, fall due, edit settings, tick, deliver | the message goes out before its row is written; settings and lists are read once per run | told once unless something failed; a switch-off holds; what is due is taken up |
| Telegram adapter, pairing, people (`channels/telegram/*`, `channels/people-service.ts`, dashboard approvals) | `allowlists`, `pairing_codes`, `people` | message, pairing command, approve, reject, remove, set access, delete a person | check-then-act on codes, entries and people by several updates and an admin in another process | an approval takes effect, one notice per row, one live code |
| heartbeat, routing, providers, plugins, gateway, memory, tools, credentials, skills, command line | timers, caches, registries | see `PROJECT.json` | caches that go stale | not modelled, section 5 |
| dashboard, desktop client | none that is not a row | forms | another process | its writes to the rows modelled are actions of the modules that own them, but for those that section 5 names |

How they interact: the worker, the heartbeat, the scheduler, delegation and the
web client all call `AgentRuntime.processMessage`; a tool of a turn may enter the
approval workflow, the scheduler (`addJob`), or delegation. The scheduler's
one-minute tick is the approval workflow's sweep. The dashboard interacts with
all of them through Postgres only.

The hazards, each at its line and with the properties that watch it, are in
`PROJECT.json`.

## 2. Modules

| module | role |
|---|---|
| `ApprovalContract` | what the approval workflow promises: verdicts and performances, nothing else |
| `Approvals` | the workflow itself; implements `ApprovalContract` |
| `MCApprovals`, `Approvals*.cfg` | its instances for TLC |
| `ApprovalsProofs` | its theorems |
| `JobScheduler` | rows, timers, reconcile, turns, tools |
| `MCJobScheduler`, `Scheduler*.cfg` | its instances for TLC |
| `JobSchedulerProofs` | its theorems |
| `Delegation` | calls of `delegateTask`, the budgets of their roots, sub-runs |
| `MCDelegation`, `Delegation.cfg` | its instance for TLC |
| `DelegationProofs` | its theorems |
| `MessageQueue` | jobs, leases, attempts, redelivery: BullMQ as the code configures it |
| `RunRecorder` | rows and bindings of runs; extends `MessageQueue`, whose deliveries are the turns |
| `TenantBilling` | the balance, its check and its charges; extends `RunRecorder` |
| `Turns` | `processMessage` and the process around it, composing the three above |
| `TurnContract` | what a turn promises to its contact and to who pays for it |
| `MCTurns`, `Turns*.cfg` | instances of `Turns` for TLC |
| `TurnsProofs`, `TurnsSafetyProofs` | its refinement and types; what concurrent turns do to each other |
| `Commitments` | follow-ups, settings, the tick and the delivery run |
| `MCCommitments`, `Commitments.cfg`, `CommitmentsProofs` | its instance and its theorems |
| `Admission` | pairing and people gates of direct messages, and the dashboard's side of them |
| `MCAdmission`, `Admission.cfg`, `AdmissionProofs` | its instance and its theorems |
| `ApprovalsCardProofs` | theorems about what `Approvals` tells people |

`MessageQueue`, `RunRecorder`, `TenantBilling` and `Turns` are one system, each module
with the variables it owns; an action of `Turns` is a step of a turn together with what
it does to the others' variables. The remaining components do not share variables
with it or with each other. A turn of the agent, which the scheduler, delegation and
the delivery of commitments start too, is a pair of steps there (it begins, it ends).
The scheduler's one-minute tick appears in `Approvals` as `SweepReads`.

### 2.1 Approvals

An approval is one gated action. Its caller (`caller[a]`) is at one of the awaits
of the gate and of `createApproval`: `insert` (the row), `list` (the approvers),
`post` (one card per approver, then their ids), `await`,
`waiting` on the promise. A *tool call* ends with `queued`: whoever approves it
executes it. A *command* or a *message* blocks on the promise in `resolver`.

Every thread that may finalize a row is an element of `Finalizer`: approvers who
tap a card, dashboard admins, the timer of each waiting caller and the sweep.
`fin[f].pc` runs through `authorize`, `update` (the conditional UPDATE),
`settle` (timer, promise, map entry), `edit` (the cards) and then what an
approval entails: `check`/`grant` of a standing allowance, `execute` and then
`report` or `regret`, or the sweep's `alert`. The tool call of `execute` has four ends:
it is carried out; it returns an error as its result, which passes for done; it
throws, before or after its effect (`regret`); or there is no runtime to run it, and
nothing is reported. All but the first count as faults.

Faults (`MaxFaults`) are failed database or Telegram calls and restarts; each
ends its handler where the code lets the error escape and is skipped where the
code catches it. An approver's taps on the same card are one thread: grammY
handles them independently, but a second tap of the same person adds nothing to
those of another person, who is a thread of his own.

Left out: the wording of cards, the encoding of `callback_data`, the tenant check
on a tap (one tenant), and development polling, where updates are handled one by
one.

### 2.2 JobScheduler

`row`, `ver` and `due` are the row of each job, how often it was edited, and
whether `run_at` has passed. `timer[j]` is the entry of the `jobs` or `timers` map
with the version its closure captured; a one-shot timer that fired stays in the map
(`"fired"`). `leaked[j]` are timers that run and are in no map any more. `phase`
says where `init` or `reconcile` stand and `seen`, `seenVer` what they read.
`turns` are the calls of `executeJob`: at the `probe` of the precondition or with
the `agent`. A job's kind never changes (`updateSchedule` edits the
precondition and tools only).

`Far` are one-shot jobs more than 2^31-1 ms ahead, `Broken` those whose schedule is
missing or rejected (a cron expression that does not parse, an interval that is
not a number). croner, `setTimeout` and `setInterval` are modelled from how
`addJob` uses them: croner's `protect` waits for the promise of its callback, and
the callback given to it returns none.

`Stop` is a crash as well as `shutdown()` and ends the turns in flight. A turn of a
process that is shutting down may in fact go on beside its successor's first turns
for the moment it takes to exit; that overlap is left out.

Left out: `reload()`, which nothing calls; the commitment tick; the contents of a turn.

### 2.3 Delegation

A call of `delegateTask` is at one of its awaits, `pc[c]`: the policy query
(`policy`, skipped by `route_to_channel`), the target's profile (`profile`), the
promise of the limits (`limits`), the `insert` of the row, the sub-run (`running`,
then `billing` once it has reported its tokens), the row's update (`record`) and,
should that fail, the second update of the error handler (`rescue`). `job[c]` are
its arguments: source and target agent, the sub-run `up` that makes the call, and the
root that the runtime hands down. A sub-run may make several calls at once, since
the runtime executes the tool calls of one answer in parallel; its turn ends when
these have (`active(c) = {}`), or breaks before.

A `RootBudget` is an object that calls keep a reference to after the map has
forgotten it, so the objects are kept apart from the map: `held[c]` names the
budget that a call holds by the call that created it, `budget[o]` is the object
and `entry[r]` the map `rootBudgets`. `lookup` is the state of its
`limitsPromise`. `window[v]` is the count of `delegationCounters`; 0 stands both
for no entry and for one whose minute is over (`WindowElapses`).

Each action is what runs between two awaits. `GetRootBudget` is the profile's
answer, the synchronous get-or-create and the start of the lookup; `Admit` the
check of the caps; `Spawn` the insert's answer and `hops++`, `inFlight++`;
`TurnEnds` and `TurnBreaks` the `finally` that gives the place back. `Sweep` is the
half-hourly timer. It may come at any time except while a call that holds the
budget is at `limits` or `insert`: those are single statements, and half an hour is
longer than a statement takes; sub-runs may take longer.

Left out: restarts (they empty the maps, and no code reads the rows again), a
gateway whose runtime is not set, and the search for a channel's lead.

### 2.4 Turns: queue, runtime, recorder, billing

A turn `<<m, n>>` is the n-th delivery of message `m`. `pc[t]` is the await of
`processMessage` at which it stands: `open` (the insert of its row), `access` (the
tenant's row and `checkTenantAccess`), `find` and `create` the conversation, `user`
(its message and the checks that follow), the `placeholder` of a streamed answer,
`chat` (the model and its tools), `reply`, `bill`, `refuse` (a message to who may not
go on), `apologise` (the catch block's message), `finish` (the finally block's
`finishRun`) and `settle` (BullMQ completes the job). `outcome` is how it ended and
`said` what got through to the contact.

`conv` has the contacts with a conversation: the table's unique index makes the second
of two racing inserts throw. `bound` is `activeRunsByConversation`, the map by which a
tool call that comes in through the operator bridge finds a run; `credit` remembers
which run each call was added to. `bridge` has the turns with such a call under way: the
handler of a tool goes on when a watchdog, the absolute maximum or the end of the Codex
process ends its turn (`codex-app-server.ts:914-938`), so `BridgeReturns` may come when
the turn is over and another one has the conversation. `crowd` is the largest number of
turns that were in flight together. `old` are rows older than half an hour; `Sweep` fails
those that still run and `finishRun` overrules it. `capture[t]` is the memory capture
that a reply starts in the background, with a charge of its own.

`phase` is the process: the worker polls before the adapters are in their map
(`boot`), and `shutdown()` closes the adapters before it waits for the worker
(`closing`), so replies bounce then. `Crash` loses the map, the turns and the
captures; rows, jobs and balances stay. A lost lease of a turn that goes on is a fault
(an outage of Redis or a blocked process); of a turn that is gone it is not.

Left out: the callers of `processMessage` other than the queue, which do not count
against `Workers`; the price of a turn (one credit here); the limiter's and the
backoff's delays; group chats; the deletion of a conversation in the dashboard
(`delete-conversation.ts`), which during a turn makes its next insert throw and so is
one of the faults, and between turns makes the next one a first one.

### 2.5 Commitments

`status` and `now` are the rows and the clock (follow-ups are numbered as they fall
due), `config` the tenant's settings. A run stands at `tenants`, `due`, `token` or in
its loop: `craft` (a turn of the model that words the check-in), `send`, then `mark`,
or `skip` for a row that is marked delivered without a message. `cfg[r]` and
`left[r]` are the settings and the list as the run read them. `running` is the
scheduler's flag. `Runs` has two elements so that two runs could overlap: that they do
not is a result. `told` and `late` count messages: about a follow-up, and since the
settings were last changed.

### 2.6 Admission

One contact writes to one bot. Each update in progress (`pc[u]`) passes the pairing
gate (`check`, `find` and `insert` a code, `findEntry` and `insertEntry`) and the
people gate (`person`, then `touch` or `create`, and `reread` for the loser of the
race). Each dashboard action in progress (`at[a]`) approves (`code`, then `entry`) or
rejects (the entry, then the `codes`). `removed` remembers that an admin took the
contact off the list, `expired` which codes are older than an hour. The adapter's
cache of the policy is a choice in `Arrive`. `DeletePerson` deletes the row in `people`
at any time (`people/actions.ts:236-252`), also between the reads and writes of an
update; `deleted` counts that, and `read[u]` is the row that the update found, so that
`TouchPerson` tells its row from a later one and `RereadPerson` may find none.

## 3. Runs

"Fair" runs use `FairSpec`. The two "violated" runs check one promise of the code's
own comments or texts and end with a counterexample; `findings` of `PROJECT.json`
quotes the promise and tells the story. Four further findings, which need no run, name
places where a doc or a comment disagrees with the code and a property holds of what the
code does. The one to know first: the docs of the dashboard say that a schedule created,
enabled or disabled there takes effect at the next restart
(`automation--schedules.md:35`); the code reconciles every 30 seconds
(`scheduler.ts:97-108`), which `ReconcileRepairs` and `MapsEventuallyInLine` check.

| run | instance | shows |
|---|---|---|
| ApprovalsTool (fair) | one tool call, two approvers, sweep, 1 fault | runs at most once and only with a sanction; cards and alerts true; runs if approved and nothing fails |
| ApprovalsWait (fair) | one command, approver, admin, timer, sweep, 2 faults | every row is decided and a timely waiter hears the row's verdict; a card says that the waiter was lost only if it was, and a card edited after that says nothing else |
| ApprovalsPair | two calls of one tool with a shared allowance, 1 fault | refinement of `ApprovalContract` |
| ApprovalsHang (fair, violated) | a tap during `createApproval` | the waiter never returns |
| SchedulerDash | interval + one-shot job of the dashboard, one-shot job of a tool, 1 change, 1 fault | no overlap, at most one turn of a one-shot job and two of a tool's, a current reconcile repairs everything but what leaked |
| SchedulerLive (fair) | a tool's cron job + a one-shot job, 2 changes, 1 fault | the maps come to be right; an armed one-shot job is not lost |
| SchedulerTwice (violated) | a one-shot job of a tool | fires twice |
| Delegation | three calls, two agents, two roots, window 2, 1 fault, sweeps | counters exact, one budget and one set of limits for racers, caps passed by a fan-out at most |
| TurnsPair | two messages of one contact, credit for one turn, two workers, bridge calls, captures, 1 fault | refinement of `TurnContract`; turns that come one after the other overdraw nothing, two in flight together one credit; who fails when nothing broke; whose run a tool call is added to, however late it comes |
| TurnsLive (fair) | one message, two webhook calls, up to two turns, checkpoints, 1 fault | one turn at a time; rows agree with turns; every run is closed; every message is heard |
| Commitments (fair) | two follow-ups, cap 1, two runs, 2 edits, 2 faults | told once but for faults; what goes out after the switch-off; what is due is taken up |
| Admission | two updates, one dashboard action, three codes, 1 deletion of the person, 1 fault | an approval takes effect, but for three cases that are named; one notice for each row of the person; one code at a time |

Each property of a passing run has a mutant in `PROJECT.json`: a definition of the
model changed as a bug in the code would change it, under which TLC finds the
property violated.

The models also show, without a run of their own:

  - cards stay open on a decided row when a tap is decided before `StoreIds`;
  - an approver whose card's id was not stored before the restart is not told that the
    action cannot run: no card is edited, and the toast says "Approved."
    (`adapter.ts:266`); an admin in the dashboard is never told;
    `LostCardsAreNoted` holds of the cards that are edited;
  - a tool that returns an error as its result is reported as done, one that throws
    after its effect as failed, and without a runtime nothing is reported
    (`approval-service.ts:468-483`);
  - two approvers who both tap "Allow always" may leave two active allowances;
  - a tool's cron job that reconcile armed first is armed twice, and the
    overwritten timer outlives every edit of the job (`leaked`);
  - a reconcile that read the rows before a tool's insert removes the one-shot timer
    the tool has just armed (`scheduler.ts:134`), and the job is lost when its time
    passes before the next tick; hence `ByTool = {c1}` in SchedulerLive;
  - the same happens to a one-shot job that is switched off and on again around the
    read of a reconcile: it loses its armed timer; hence the second premise of
    `ArmedJobRuns`, that no reconcile is on its way which read the job as disabled;
  - a reconcile that read the rows before `cancel_job` writes them arms the
    cancelled job again until the next tick;
  - the depth that `delegateTask` checks is always 0, contrary to
    `docs/HOWTO.md:1998`, so a chain of delegations is ended by the window and the
    hop cap only;
  - the window counts per conversation, and each sub-run is a conversation of its
    own, though the comment at `agent-delegation.ts:20` speaks of the root's;
  - a budget re-created after an idle sweep, by a sub-run that is still going,
    takes the caps of that sub-run's agent;
  - a rejected lookup of the limits refuses all later delegations of its root until
    the idle sweep;
  - a sub-run whose turn breaks is recorded as `completed`, because
    `processMessage` handles its own errors;
  - a cron job overlaps itself in spite of croner's `protect`, because the callback
    returns no promise (`scheduler.ts:148-151`);
  - a one-shot job more than 2^31-1 ms ahead fires at once (`scheduler.ts:175`);
  - an approved tool call that never runs, when a call fails between the verdict and
    the execution (`approval-service.ts:411`): nothing takes it up again;
  - a hop cap of one passed by two calls of one answer (`agent-delegation.ts:154`);
    `CapsUpToFanOut` is what remains true;
  - a job is tried again only if the worker threw before the turn began: a turn handles
    its own errors, so the "retry mechanism for failed messages" of
    `message-queue.ts:24` retries none of them;
  - a bridge call of a run whose binding another run overwrote and removed is credited to
    nobody (`run-recorder.ts:109`), and one that was made meanwhile to the other run;
  - so is one whose tool outlives its turn: it is credited to nobody, or to the next run
    of the conversation if that has begun;
  - an answer whose bill fails is free, and an error message follows it;
  - a streamed answer whose last edit fails leaves the placeholder and is charged;
  - the replies of turns in flight at a shutdown are lost, because the adapters are
    closed first (`index.ts:227`);
  - a follow-up that was closed between a run's read and its UPDATE is sent and becomes
    delivered;
  - a check-in whose turn fails is sent as the runtime's own error text, and a message
    that could not be sent is marked delivered (`commitment-delivery.ts:60`, `:97`), as
    `automation--commitments.md:24` of the dashboard's docs says; line 26 says that an
    unresolved one stays pending and is picked up at every check, but whatever was
    taken up once is delivered and does not come up again;
  - a follow-up made by the built-in tool stores no channel, so channel mode never
    sends it;
  - the dashboard approves expired codes, though the adapter says that a code "expires
    in 1 hour" (`approvePairingCode` in `pairing.ts`, which checks, has no caller);
  - while an expired code is pending, every message of its contact makes another;
  - an approval of a contact who was taken off the list changes nothing and reports
    success;
  - a person whom the dashboard deletes is made anew by the next message and may be sent
    the notice a second time; a deletion between the lost insert and the second read
    makes the gate fail open without any fault (`people-service.ts:137-139`).

### Bounds

`MaxFaults` bounds restarts and failed calls, `MaxOps` what people and tools do to
existing jobs, `MaxFires` the webhooks of each job and its firings if it recurs (a
one-shot job fires as often as it has timers). One fault
lets any single await fail or any single point be the last before a restart; two
let a restart be followed by a failure of the recovery. Approvals do not share
state except through the standing allowance of a subject and the sweep's list,
which two calls of one tool (ApprovalsPair) exercise. Jobs share only the read of
the rows; two jobs in one run show a read that concerns only one of them. A job
that leaks a timer needs one tool, one reconcile and no change; a stale read
needs one change, a switch off and on around a read needs two (SchedulerLive). Two
firings are enough for an overlap.

Three delegations are two racers and a call that comes before or after them, or
a call with two calls of its sub-run. `FanOut` bounds the calls of a root that are
between their start and their sub-run: the model decides how many tool calls an
answer has, the code does not, so this is a parameter of the result and not
only of the search. The agents' caps are those that matter: one hop, one place, one
token. The calls are interchangeable (`AnyJob` and the constants name none), so
symmetry over them is sound for the invariants checked.

Two messages of a contact are a racer and another; one message with two deliveries is a
turn and its twin, which a lost lease or a forgotten job makes possible. One credit is
enough for a check that is stale when the charge comes. A charge costs one credit: the
bound on the overdraft counts charges, not their size. `HalfAnHour` passes only while
the model answers or after the end, because no other await takes that long. A
completed job may be forgotten at any time, because at most a hundred are kept
(`message-queue.ts:37-40`), even while a turn of it that lost its lease goes on. Two
follow-ups under a cap of one are one that is sent and one that is left; two faults are a
failed UPDATE and a restart. Two updates are a race; a third code needs an expired one.
The Admission run has one dashboard action at a time because two make it slow, and the
theorems cover any number; its `TypeOK` is proved and in no run.

The deadlock check is off everywhere because every run ends when nobody asks for
anything any more. Symmetry is used in the Delegation and Admission runs only, which
check no liveness.

### Fairness

Whatever Node has begun it goes on with: weak fairness of each handler's next step
and of armed timers. Clocks advance (`TtlElapses`, `RunAtPasses`). The ticks of the
scheduler (the sweep, reconcile) recur for ever, and the process supervisor restarts a
process that stopped. Nothing is assumed of people, of the model's turns or of
recurring firings, and no fault has to happen. In `Turns` the model's answer is a
step like the others (its clients have timeouts, and a break is one of its outcomes),
BullMQ polls and looks for lost leases, the process boots again, and the stale sweep
recurs; that webhooks come, that checkpoints land and that captures end is not assumed.
In `Commitments` the five-minute tick recurs and a run's awaits end; nobody has to
create, close or edit anything. `Delegation` and `Admission` are checked for safety only.

## 4. Proofs

`ApprovalsProofs` proves, for any sets of approvals, people and admins and any
number of faults: `TypeCorrect`, `RunsAtMostOnce`, `RunsAreSanctioned`,
`OutcomesAreVerdicts` and `Implements` (the refinement of `ApprovalContract`),
from `ConstantsOK` alone, and four results that no run checks: `RolesHold`,
`DecidedByRight`, `GrantsHaveAuthors` and `WaitersAreTold`. "At most once" is not inductive: what has to be carried
along is who may still run an action. The inductive invariant `IInv` says that a
thread past its UPDATE is the only one for its row and carries the verdict in it,
that a blocking action is run by its waiter alone and a tool call by its winner
alone, and that until then its count is zero. `Roles` says who may be after what: a
timer or the sweep expires, and only what is due; people and admins approve or deny;
only "Allow always" grants. With it, a row changes only by its caller's insert, by a
person or admin who found it pending, or by the clock (`VerdictsHaveAuthors`), and an
allowance has an author (`GrantsAreSanctioned`). `NoWakeupIsLost` is the safety core of
`TimelyWaiterReturns`: a waiter whose promise is in the map, with its row pending or
its winner about to settle, stays so until it is told the row's verdict or the process
restarts. ApprovalsHang is a waiter that never was in that state.

`JobSchedulerProofs` proves `TypeCorrect`, `NoOverlap`, `RepairsAll`, `BoundedShots`,
`OneLeaks` and `StaysInLine` for any jobs, made by tools or by the dashboard.
The strengthening for `NoOverlap` is that a job with a timer's turn in flight is in
`busy`, and has only one. The others rest on `TidyInv`: an armed entry of a map is for
a usable schedule and has the version that `jobSignatures` remembers (`Fits`); a timer
leaks only when a tool adds a job, which happens once in the job's life, so what leaked
has one version (`Leaks`); and none is left before `init` adds them (`Boots`).
`BoundedShots` counts the chances of a one-shot job (`Shots`): turns begun, turns still
at their probe, an armed entry and a leaked timer make one together, or two if a tool
made the job, because `addJob` does not arm what is past, and each step only turns one
chance into the next. `Far` jobs are left out (`scheduler.ts:175` fires them early, so
they may be armed again). `OnceOnly` is its consequence where tools make no jobs;
SchedulerTwice shows that the hypothesis is needed. `StaysInLine` says what may put a
job with the right timer out of line: a change of its row, a cancellation, an `addJob`
of a tool or a read overtaken by such a change, or a stop, and nothing that happens to
other jobs. With `RepairsAll` it is the safety half of `MapsEventuallyInLine`.

`DelegationProofs` proves `TypeCorrect`, `CountersAreExact`, `RacersShareABudget`,
`RacersShareLimits` and `CapsAreBounded` for any finite set of calls, any agents and
caps and any `FanOut`. The bound on the caps is not inductive, since counters go up
after the check: `Bounded` says that the calls let through and not yet counted have
their places taken already. When one more is let through, the cap was not reached,
so what was counted is at most `limit - 1`, and all those under way with it, itself
included, fit in `FanOut` (`Room`). They are in one budget by `Holds`, which says
that a call between its lookup and its sub-run holds the current budget of its
root, and that a budget's creator holds it; `Known` says that nobody is let
through before the limits are. Counters are compared with sets of calls by the
lemma `Moving`: one call changes its place, and a count changes by one or not at
all. `Tree` adds what a tree of calls looks like: a sub-run is counted on a budget of its
own root even after sweeps (`BudgetsStayApart`), it hangs on a turn of that root that was
started and, while nothing fails, waits for it (`OrphansAreFaults`), and its row tells
its fate, but for one that could not be closed twice (`RowsAreTrue`). `EachMoves` says
once what a call that goes on may do to its place and its row.

`ApprovalsCardProofs` proves `CardTruth`, `NoteIsTrue`, `NoBareApproval`, `AlertIsTrue`
and `LostCardsAreNoted` on top of `IInv`. A text is true when it is written because its thread won
the row; it stays true because nobody can run the action any more, which `Texts` says of
a card with a tool call's result (no winner is left) and of one with the note (the waiter
is lost). `Noted` says that a thread with the note never finds the waiter back, from
`Waiter` (a caller on its way to its decision is in the map) and `Held` (who knows a card
knows that its caller stored it). `Reported` says that a tool call on its way to be
reported as done has run, unless something failed. `Marked` says that whoever goes on to
approve an action whose waiter is gone has the note, so that the edits of its cards,
which are all that is left to do by then, carry it. What a step may do to a thread, a row and a card is said
once (`NextThreads`, `NextSteady`, `NextDrawn`), and the claims follow from that.

`TurnsProofs` and `TurnsSafetyProofs` prove types, the refinement of `TurnContract`
(`KeepsContract`), `ToolCallsStayInTheThread`, `NoTwins`, `OnlyRacersFail`,
`RowsTellTheTruth` and `OverdraftIsBounded`, for any finite set of messages and any number
of deliveries, contacts, workers, webhook calls and faults. Each action is first shown to
be one step of the queue, of the recorder and of the balance (`QueueStep`, `RunStep`,
`BillStep`), so that an invariant of a component is proved once for its few steps.
`Staged` ties a turn's place to what it has said, and carries the refinement. `Binding`
says that the run that is bound is an open one of its conversation, and that an open run
that had the conversation for itself is the one that is bound; so a late call of the
bridge (`Joining`: only turns that joined a conversation make any) finds an open run of
its own conversation or none. The overdraft is bounded because the turns between their
check and their charge are in flight, of which there were never more than `crowd`
(`Crowd`, at most `Workers`); the check of the last of them found a positive balance.
Four more results are in no run. `WordsAgree` and `OverStays` are proved of `TurnContract`
and carried over by the refinement: what the contact is told agrees with the result and
the charge, and a turn that is over is not taken up again. `ExactLedger` says that the
balance is what the tenant began with less the recorded charges, and `DoneIsDone` that
BullMQ completes a job only if its last delivery ran to its end, because the lease is
always that delivery's (`Ending`).

`CommitmentsProofs` proves types, `ToldOnce` and `SwitchOffHolds`. `Alone` says that a
run in progress is the only one and has the flag; `Fresh`, that a follow-up which may
come up again was told of only as often as something failed; `Counted`, that what went
out after the switch-off is in the run's own count, but for failures. `FlagNeverSticks`
says that the scheduler's flag is set exactly while one run goes on.

`AdmissionProofs` proves types, `NoticeOnce`, `ApprovalTakesEffect` and `OneCodeAtATime`.
`Noticed` says that while the person has no row, every notice belongs to a deleted one.
`Entered` says that a contact with a code has an entry or is one of the named cases, and
`Room` counts codes together with the inserts under way, so that an update that begins
an insert has found no live code.

Only model-checked: all liveness, which with `ENABLED` is out of the prover's reach
(`EveryRowIsDecided`, `TimelyWaiterReturns`, `ApprovedToolRuns`, `MapsEventuallyInLine`,
`ArmedJobRuns`, `EveryRunCloses`, `EveryMessageIsHeard`, `DueIsTakenUp`). Every safety
property of the passing runs is a theorem. The theorems without a run state properties
that TLC found to hold on the instances of the same module's runs before they were
proved.

## 5. Not modelled

`PROJECT.json` lists each part with its reason. In short:

  - user interfaces and wording: the dashboard's pages, the desktop client, the web
    client's token streaming. The dashboard's writes to the rows modelled are actions of
    the modules, but for the deletion of conversations (2.4), the owner's entry that the
    onboarding makes, and groups;
  - vendors' APIs: model providers, IMAP and SMTP, SSH, Telegram beyond a send that
    arrives or fails;
  - functions without a state of their own: routing rules, active hours, the tool
    policy, command policies made of regular expressions, truth-gate checks on texts;
  - ranking of memories in floating-point arithmetic;
  - the heartbeat, whose ticks only start turns;
  - of the agent runtime, what happens inside the model's own loop; of the Telegram
    adapter, groups, photos, the lazy loading of bots and the onboarding of owners;
  - `openclaw_ref`, a vendored copy of another project that nothing runs. It and the
    dashboard are most of the repository's lines, which is why the share of lines
    that the models cover is small.

## 6. Plan

Done: the approval workflow, the scheduler, delegation, the turn with its queue, recorder
and balance, commitments, admission. What would come next, in this order:

1. the lazy loading of bots (`TelegramAdapter.loadBot`), where two requests may both
   find no bot for a connection;
2. the composition of `Turns` with `Approvals`: a tool call that is queued in one turn
   and executed after it;
3. the fallback of model providers and the routing rules as operators with reference
   definitions.

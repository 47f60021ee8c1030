------------------------------ MODULE Commitments ------------------------------
(***************************************************************************)
(* Follow-ups that an agent promised: the rows of commitments              *)
(* (src/pulse/src/commitments/commitment-service.ts), the tools that make  *)
(* and close them, the tick of the scheduler (src/pulse/src/cron/          *)
(* scheduler.ts) and the run it starts, which delivers what is due         *)
(* (commitment-delivery.ts).  One tenant; the runs are told apart so that  *)
(* two of them could overlap if the scheduler let them.                    *)
(***************************************************************************)
EXTENDS Naturals, FiniteSets

CONSTANTS
    Last,       \* follow-ups are numbered 1 .. Last in the order they fall due
    Addressed,  \* those made in a Telegram conversation by the plugin's tool
    Runs,       \* delivery runs
    MaxPerDay,  \* the largest maxPerDay that parseCommitmentsConfig lets through
    MaxEdits,   \* bound on changes of the settings
    MaxFaults   \* bound on failed calls and ends of the process

ASSUME CommitmentConstants ==
    /\ Last \in Nat
    /\ Addressed \subseteq 1 .. Last
    /\ MaxPerDay \in Nat
    /\ MaxEdits \in Nat
    /\ MaxFaults \in Nat

VARIABLES
    status,   \* of each row, "none" before there is one
    now,      \* the follow-ups up to this one have fallen due
    config,   \* the tenant's settings; "off" is disabled or internal
    running,  \* commitmentTickRunning
    pc,       \* where each run stands
    cfg,      \* the settings as the run read them
    bot,      \* whether the run found a bot token
    left,     \* what is left of getDueCommitments' list
    at,       \* the follow-up the run is at, 0 if none
    sent,     \* the run's counter
    told,     \* how many messages were sent about each follow-up
    late,     \* messages sent since the settings were changed, if that was to "off"
    edits,    \* changes of the settings so far
    faults    \* faults so far

rowVars == <<status, now>>
runVars == <<pc, cfg, bot, left, at, sent>>
ghosts == <<told, late>>
vars == <<rowVars, config, running, runVars, ghosts, edits, faults>>

Items == 1 .. Last
Off == [mode |-> "off", max |-> 0]
Config == {Off} \cup [mode : {"owner", "channel"}, max : 0 .. MaxPerDay]
Places == {"idle", "tenants", "due", "token", "loop", "craft", "send", "mark", "skip"}

TypeOK ==
    /\ status \in [Items -> {"none", "pending", "closed", "delivered"}]
    /\ now \in 0 .. Last
    /\ config \in Config
    /\ running \in BOOLEAN
    /\ pc \in [Runs -> Places]
    /\ cfg \in [Runs -> Config]
    /\ bot \in [Runs -> BOOLEAN]
    /\ left \in [Runs -> SUBSET Items]
    /\ at \in [Runs -> 0 .. Last]
    /\ sent \in [Runs -> 0 .. MaxPerDay]
    /\ told \in [Items -> Nat]
    /\ late \in Nat
    /\ edits \in 0 .. MaxEdits
    /\ faults \in 0 .. MaxFaults

Init ==
    /\ status = [c \in Items |-> "none"]
    /\ now = 0
    /\ config = Off
    /\ running = FALSE
    /\ pc = [r \in Runs |-> "idle"]
    /\ cfg = [r \in Runs |-> Off]
    /\ bot = [r \in Runs |-> FALSE]
    /\ left = [r \in Runs |-> {}]
    /\ at = [r \in Runs |-> 0]
    /\ sent = [r \in Runs |-> 0]
    /\ told = [c \in Items |-> 0]
    /\ late = 0
    /\ edits = 0
    /\ faults = 0

\* A call that fails, of those that may.
Fault == faults < MaxFaults /\ faults' = faults + 1
NoFault == UNCHANGED faults

Goes(r, place) == pc' = [pc EXCEPT ![r] = place]

-----------------------------------------------------------------------------
(* The rows, the clock and the settings. *)

\* commitment_create, of the plugin or built in.
Create(c) ==
    /\ status[c] = "none"
    /\ status' = [status EXCEPT ![c] = "pending"]
    /\ UNCHANGED <<now, config, running, runVars, ghosts, edits, faults>>

\* commitment_complete, done or dismissed: an unconditional UPDATE, whatever the
\* row's status.
Complete(c) ==
    /\ status[c] # "none"
    /\ status' = [status EXCEPT ![c] = "closed"]
    /\ UNCHANGED <<now, config, running, runVars, ghosts, edits, faults>>

FallsDue ==
    /\ now < Last
    /\ now' = now + 1
    /\ UNCHANGED <<status, config, running, runVars, ghosts, edits, faults>>

\* saveCommitmentsSettingsAction of the dashboard, another process.
Edit(new) ==
    /\ edits < MaxEdits
    /\ edits' = edits + 1
    /\ config' = new
    /\ late' = 0
    /\ UNCHANGED <<rowVars, running, runVars, told, faults>>

-----------------------------------------------------------------------------
(* The tick. *)

\* Mutant: an interval that does not look at the flag.
Tick_Unguarded(r) ==
    /\ pc[r] = "idle"
    /\ running' = TRUE
    /\ Goes(r, "tenants")
    /\ UNCHANGED <<rowVars, config, cfg, bot, left, at, sent, ghosts, edits, faults>>

\* Every five minutes, unless the last run is still at it.
Tick(r) ==
    /\ pc[r] = "idle"
    /\ ~running
    /\ running' = TRUE
    /\ Goes(r, "tenants")
    /\ UNCHANGED <<rowVars, config, cfg, bot, left, at, sent, ghosts, edits, faults>>

\* The run is over, and its variables with it.
Gone(r) ==
    /\ Goes(r, "idle")
    /\ cfg' = [cfg EXCEPT ![r] = Off]
    /\ bot' = [bot EXCEPT ![r] = FALSE]
    /\ left' = [left EXCEPT ![r] = {}]
    /\ at' = [at EXCEPT ![r] = 0]
    /\ sent' = [sent EXCEPT ![r] = 0]

\* Mutant: the flag is cleared by a run that succeeds only.
Aborts_KeepsFlag(r) == Fault /\ Gone(r) /\ UNCHANGED running

\* The outer catch, and the scheduler's finally.
Aborts(r) == Fault /\ Gone(r) /\ running' = FALSE

Ends(r) == NoFault /\ Gone(r) /\ running' = FALSE

GoesOn(r, place) == NoFault /\ Goes(r, place) /\ UNCHANGED running

\* The tenants with their settings; a tenant that is off is passed over.
ReadTenants(r) ==
    /\ pc[r] = "tenants"
    /\ \/ /\ config.mode # "off"
          /\ cfg' = [cfg EXCEPT ![r] = config]
          /\ GoesOn(r, "due")
          /\ UNCHANGED <<bot, left, at, sent>>
       \/ config.mode = "off" /\ Ends(r)
       \/ Aborts(r)
    /\ UNCHANGED <<rowVars, config, ghosts, edits>>

\* getDueCommitments.
Due == {c \in Items : c <= now /\ status[c] = "pending"}

ReadDue(r) ==
    /\ pc[r] = "due"
    /\ \/ /\ Due # {}
          /\ left' = [left EXCEPT ![r] = Due]
          /\ GoesOn(r, "token")
          /\ UNCHANGED <<cfg, bot, at, sent>>
       \/ Due = {} /\ Ends(r)
       \/ Aborts(r)
    /\ UNCHANGED <<rowVars, config, ghosts, edits>>

\* telegramBotToken: the tenant's connection may be missing or unreadable.
ReadToken(r) ==
    /\ pc[r] = "token"
    /\ \/ /\ \E b \in BOOLEAN : bot' = [bot EXCEPT ![r] = b]
          /\ GoesOn(r, "loop")
          /\ UNCHANGED <<cfg, left, at, sent>>
       \/ Aborts(r)
    /\ UNCHANGED <<rowVars, config, ghosts, edits>>

\* The next follow-up.  An owner without a contact is an owner without a bot.
Handle(r, c) ==
    /\ left' = [left EXCEPT ![r] = @ \ {c}]
    /\ at' = [at EXCEPT ![r] = c]
    /\ GoesOn(r, IF cfg[r].mode = "owner" THEN IF bot[r] THEN "send" ELSE "mark"
                 ELSE IF c \in Addressed /\ bot[r] THEN "craft" ELSE "skip")
    /\ UNCHANGED <<cfg, bot, sent>>

First(S) == {c \in S : \A d \in S : c <= d}

\* Mutant: the cap is compared after one more.
Loop_OneMore(r) ==
    /\ pc[r] = "loop"
    /\ \/ sent[r] <= cfg[r].max /\ \E c \in First(left[r]) : Handle(r, c)
       \/ (left[r] = {} \/ sent[r] > cfg[r].max) /\ Ends(r)
    /\ UNCHANGED <<rowVars, config, ghosts, edits>>

Loop(r) ==
    /\ pc[r] = "loop"
    /\ \/ sent[r] < cfg[r].max /\ \E c \in First(left[r]) : Handle(r, c)
       \/ (left[r] = {} \/ sent[r] >= cfg[r].max) /\ Ends(r)
    /\ UNCHANGED <<rowVars, config, ghosts, edits>>

\* craftCheckIn: a text, or none.  What processMessage has to say of its own
\* failure or refusal comes back as a text too.
Craft(r) ==
    /\ pc[r] = "craft"
    /\ Goes(r, "send") \/ Goes(r, "mark")
    /\ NoFault
    /\ UNCHANGED <<rowVars, config, running, cfg, bot, left, at, sent, ghosts, edits>>

\* sendTelegramText; its result is ignored.
Send(r) ==
    /\ pc[r] = "send"
    /\ \/ /\ told' = [told EXCEPT ![at[r]] = @ + 1]
          /\ late' = IF config.mode = "off" THEN late + 1 ELSE late
          /\ NoFault
       \/ Fault /\ UNCHANGED ghosts
    /\ Goes(r, "mark")
    /\ UNCHANGED <<rowVars, config, running, cfg, bot, left, at, sent, edits>>

\* Mutant: the counter is forgotten.
Mark_Uncounted(r) ==
    /\ pc[r] \in {"mark", "skip"}
    /\ Goes(r, "loop")
    /\ status' = [status EXCEPT ![at[r]] = "delivered"]
    /\ NoFault
    /\ UNCHANGED <<now, config, running, cfg, bot, left, at, sent, ghosts, edits>>

\* setCommitmentStatus, over whatever status the row has by now.  If it fails the
\* error is caught, nothing is counted and the row is still pending.
Mark(r) ==
    /\ pc[r] \in {"mark", "skip"}
    /\ Goes(r, "loop")
    /\ \/ /\ status' = [status EXCEPT ![at[r]] = "delivered"]
          /\ sent' = [sent EXCEPT ![r] = IF pc[r] = "mark" THEN @ + 1 ELSE @]
          /\ NoFault
       \/ Fault /\ UNCHANGED <<status, sent>>
    /\ UNCHANGED <<now, config, running, cfg, bot, left, at, ghosts, edits>>

\* The process ends, at any point of a run, and starts again.
Crash ==
    /\ Fault
    /\ running' = FALSE
    /\ pc' = [r \in Runs |-> "idle"]
    /\ cfg' = [r \in Runs |-> Off]
    /\ bot' = [r \in Runs |-> FALSE]
    /\ left' = [r \in Runs |-> {}]
    /\ at' = [r \in Runs |-> 0]
    /\ sent' = [r \in Runs |-> 0]
    /\ UNCHANGED <<rowVars, config, ghosts, edits>>

-----------------------------------------------------------------------------
Step(r) ==
    \/ ReadTenants(r) \/ ReadDue(r) \/ ReadToken(r) \/ Loop(r)
    \/ Craft(r) \/ Send(r) \/ Mark(r)

Next ==
    \/ \E c \in Items : Create(c) \/ Complete(c)
    \/ FallsDue
    \/ \E new \in Config : Edit(new)
    \/ \E r \in Runs : Tick(r) \/ Step(r)
    \/ Crash

Spec == Init /\ [][Next]_vars

\* The interval keeps firing and a run's awaits come to an end.
Fairness ==
    /\ WF_vars(\E r \in Runs : Tick(r))
    /\ \A r \in Runs : WF_vars(Step(r))

FairSpec == Spec /\ Fairness

-----------------------------------------------------------------------------
(* Properties *)

\* Nobody is sent a second message about a follow-up because two runs were at it:
\* only a failed UPDATE, or an end of the process, after the message went out
\* brings the same follow-up up again.  (automation--commitments.md:26 of the
\* dashboard's docs says that an unresolved one comes up at every check.)
ToldOnce == \A c \in Items : told[c] <= 1 + faults

\* Once follow-ups are switched off, what still goes out is the rest of one run:
\* as many messages as the cap allows, and one more for each failed UPDATE, which
\* the cap does not count.
SwitchOffHolds == late <= MaxPerDay + faults

\* A follow-up that is due is taken up, unless it is closed first or the settings
\* stop forbid it, whatever happened to earlier runs.
DueIsTakenUp ==
    \A c \in Items :
        status[c] = "pending" /\ c <= now
            ~> status[c] # "pending" \/ config.mode = "off" \/ config.max = 0
=============================================================================

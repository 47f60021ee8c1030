----------------------------- MODULE RunRecorder -----------------------------
(***************************************************************************)
(* src/pulse/src/agent/run-recorder.ts: the rows of agent_runs, one for    *)
(* each turn, and the map activeRunsByConversation, through which the      *)
(* operator bridge (gateway/routes/mcp.ts) finds the run a tool call       *)
(* belongs to.  The recorder never breaks a turn: a call of the database   *)
(* that fails leaves the rows as they are.                                 *)
(***************************************************************************)
EXTENDS MessageQueue

CONSTANTS
    Contacts,       \* a conversation is known by its contact
    ContactOf       \* the contact of each message

ASSUME RecorderConstants == ContactOf \in [Msgs -> Contacts]

VARIABLES
    row,      \* the status of each turn's row; "none" if there is no row
    old,      \* rows that started longer than STALE_RUN_MS ago
    partial,  \* rows with a checkpoint of a half-written answer
    saving,   \* turns whose savePartialContent is on its way
    bound,    \* activeRunsByConversation: the turn whose handle is in the map
    joined,   \* turns that bound themselves to their conversation
    credit    \* <<c, t>>: a tool call of turn c was added to the handle of t

runVars == <<row, old, partial, saving, bound, joined, credit>>

Contact(t) == ContactOf[Msg(t)]

RunTypeOK ==
    /\ row \in [Turn -> {"none", "running", "completed", "failed"}]
    /\ old \subseteq Turn
    /\ partial \subseteq Turn
    /\ saving \subseteq Turn
    /\ bound \in [Contacts -> Turn \cup {NoTurn}]
    /\ joined \subseteq Turn
    /\ credit \subseteq Turn \X (Turn \cup {NoTurn})

RunInit ==
    /\ row = [t \in Turn |-> "none"]
    /\ old = {}
    /\ partial = {}
    /\ saving = {}
    /\ bound = [c \in Contacts |-> NoTurn]
    /\ joined = {}
    /\ credit = {}

-----------------------------------------------------------------------------
\* startRun; with ok = FALSE the handle has no id and there is no row.
StartRun(t, ok) ==
    /\ row' = [row EXCEPT ![t] = IF ok THEN "running" ELSE @]
    /\ UNCHANGED <<old, partial, saving, bound, joined, credit>>

\* bindRunToConversation overwrites whatever run is bound.
BindRun(t) ==
    /\ bound' = [bound EXCEPT ![Contact(t)] = t]
    /\ joined' = joined \cup {t}
    /\ UNCHANGED <<row, old, partial, saving, credit>>

\* Mutant: an ended turn stays bound.
UnbindRun_Never(t) == UNCHANGED runVars

\* unbindRunFromConversation deletes whatever run is bound, if t ever bound one.
UnbindRun(t) ==
    /\ bound' = [bound EXCEPT ![Contact(t)] = IF t \in joined THEN NoTurn ELSE @]
    /\ UNCHANGED <<row, old, partial, saving, joined, credit>>

\* recordConversationToolCall: the call goes to the run that is bound.
RecordToolCall(t) ==
    /\ credit' = credit \cup {<<t, bound[Contact(t)]>>}
    /\ UNCHANGED <<row, old, partial, saving, bound, joined>>

\* Mutant: finishRun closes running rows only, and a swept row stays failed.
FinishRun_IfRunning(t, status) ==
    /\ row' = [row EXCEPT ![t] = IF @ = "running" THEN status ELSE @]
    /\ partial' = partial \ {t}
    /\ UNCHANGED <<old, saving, bound, joined, credit>>

\* finishRun's UPDATE is unconditional and drops the checkpoint.
FinishRun(t, status) ==
    /\ row' = [row EXCEPT ![t] = IF @ = "none" THEN @ ELSE status]
    /\ partial' = partial \ {t}
    /\ UNCHANGED <<old, saving, bound, joined, credit>>

\* savePartialContent is fired and not awaited.
SavePartial(t) ==
    /\ row[t] # "none"
    /\ saving' = saving \cup {t}
    /\ UNCHANGED <<row, old, partial, bound, joined, credit>>

PartialLands(t, ok) ==
    /\ t \in saving
    /\ saving' = saving \ {t}
    /\ partial' = IF ok THEN partial \cup {t} ELSE partial
    /\ UNCHANGED <<row, old, bound, joined, credit>>

\* Mutant: the cutoff is compared the wrong way round.
SweepStaleRuns_Young ==
    /\ row' = [t \in Turn |-> IF t \notin old /\ row[t] = "running"
                              THEN "failed" ELSE row[t]]
    /\ UNCHANGED <<old, partial, saving, bound, joined, credit>>

\* sweepStaleRuns: what is still running after half an hour has failed.
SweepStaleRuns ==
    /\ row' = [t \in Turn |-> IF t \in old /\ row[t] = "running"
                              THEN "failed" ELSE row[t]]
    /\ UNCHANGED <<old, partial, saving, bound, joined, credit>>

\* Half an hour passes since the start of a run that is still open.
RunAges(t) ==
    /\ row[t] = "running"
    /\ t \notin old
    /\ old' = old \cup {t}
    /\ UNCHANGED <<row, partial, saving, bound, joined, credit>>

\* The process ends: the map is gone, and statements on their way with it.
ForgetRuns ==
    /\ bound' = [c \in Contacts |-> NoTurn]
    /\ saving' = {}
    /\ UNCHANGED <<row, old, partial, joined, credit>>
=============================================================================

--------------------------- MODULE CommitmentsProofs ---------------------------
(***************************************************************************)
(* Theorems about Commitments, for any number of follow-ups, any runs, any *)
(* cap, and any number of edits and faults.                                *)
(***************************************************************************)
EXTENDS Commitments, TLAPS

(* One run at a time, and only while the flag is set.                      *)
Alone ==
  /\ \A r, s \in Runs : pc[r] # "idle" /\ pc[s] # "idle" => r = s
  /\ \A r \in Runs : pc[r] # "idle" => running

AtOne == {"craft", "send", "mark", "skip"}

(* What a run holds: a list once it has read one, then a follow-up of that *)
(* list, taken off it, and room below the cap to count it.                 *)
Holding == \A r \in Runs :
  /\ pc[r] \in {"idle", "tenants", "due"} => left[r] = {}
  /\ pc[r] \in AtOne => /\ at[r] \in Items \ left[r]
                        /\ sent[r] < cfg[r].max

(* A follow-up that can still come up, or that a run has yet to send, was  *)
(* sent only as often as something failed; one that is open and was sent   *)
(* once more is at the place where it is about to be marked.               *)
Fresh == \A c \in Items :
  /\ told[c] <= 1 + faults
  /\ status[c] \in {"none", "pending"} =>
        \/ told[c] <= faults
        \/ \E r \in Runs : pc[r] = "mark" /\ at[r] = c
  /\ \A r \in Runs : c \in left[r] \/ (pc[r] \in {"craft", "send"} /\ at[r] = c)
        => told[c] <= faults

(* Messages after the switch-off are counted by the run that sends them.   *)
Counted ==
  /\ config.mode # "off" => late = 0
  /\ late <= MaxPerDay + faults
  /\ \A r \in Runs : pc[r] \notin {"idle", "tenants"} =>
        late <= sent[r] + faults + (IF pc[r] = "mark" THEN 1 ELSE 0)

Inv == TypeOK /\ Alone /\ Holding /\ Fresh /\ Counted

-----------------------------------------------------------------------------
(* What the settings can be.                                               *)
LEMMA Settings == Off \in Config /\ \A x \in Config : x.max \in 0 .. MaxPerDay
  BY CommitmentConstants DEF CommitmentConstants, Config, Off

(* The invariant holds in the initial state.                               *)
LEMMA InitInv == Init => Inv
  <1> SUFFICES ASSUME Init PROVE Inv OBVIOUS
  <1> USE CommitmentConstants DEF CommitmentConstants
  <1>1. TypeOK
    <2>1. /\ status \in [Items -> {"none", "pending", "closed", "delivered"}]
          /\ told \in [Items -> Nat]
      BY DEF Init
    <2>5. now \in 0 .. Last BY DEF Init
    <2>7. running \in BOOLEAN BY DEF Init
    <2>6. config \in Config BY Settings DEF Init
    <2>2. /\ pc \in [Runs -> Places] /\ cfg \in [Runs -> Config]
          /\ bot \in [Runs -> BOOLEAN] /\ left \in [Runs -> SUBSET Items]
      BY Settings DEF Init, Places
    <2>3. at \in [Runs -> 0 .. Last] /\ sent \in [Runs -> 0 .. MaxPerDay]
      BY DEF Init
    <2>4. late \in Nat /\ edits \in 0 .. MaxEdits /\ faults \in 0 .. MaxFaults
      BY DEF Init
    <2> QED BY <2>1, <2>2, <2>3, <2>4, <2>5, <2>6, <2>7 DEF TypeOK
  <1>2. Alone BY DEF Init, Alone
  <1>3. Holding BY DEF Init, Holding, AtOne
  <1>4. Fresh BY DEF Init, Fresh
  <1>5. Counted BY DEF Init, Counted, Off
  <1> QED BY <1>1, <1>2, <1>3, <1>4, <1>5 DEF Inv

(* A new row was never told of.                                            *)
LEMMA CreateKeeps == ASSUME Inv, NEW c \in Items, Create(c) PROVE Inv'
  <1> USE DEF Inv, Create, rowVars, runVars, ghosts
  <1>1. TypeOK' BY CommitmentConstants, Settings DEF CommitmentConstants, TypeOK, Places
  <1>2. Alone' BY DEF Alone
  <1>3. Holding' BY DEF TypeOK, Alone, Holding, AtOne
  <1>4. Fresh' BY DEF TypeOK, Alone, Holding, AtOne, Fresh
  <1>5. Counted' BY CommitmentConstants, Settings
      DEF CommitmentConstants, TypeOK, Alone, Holding, AtOne, Counted
  <1> QED BY <1>1, <1>2, <1>3, <1>4, <1>5

(* A row that is closed stays out of what is due.                          *)
LEMMA CompleteKeeps == ASSUME Inv, NEW c \in Items, Complete(c) PROVE Inv'
  <1> USE DEF Inv, Complete, rowVars, runVars, ghosts
  <1>1. TypeOK' BY CommitmentConstants, Settings DEF CommitmentConstants, TypeOK, Places
  <1>2. Alone' BY DEF Alone
  <1>3. Holding' BY DEF TypeOK, Alone, Holding, AtOne
  <1>4. Fresh' BY DEF TypeOK, Alone, Holding, AtOne, Fresh
  <1>5. Counted' BY CommitmentConstants, Settings
      DEF CommitmentConstants, TypeOK, Alone, Holding, AtOne, Counted
  <1> QED BY <1>1, <1>2, <1>3, <1>4, <1>5

(* The clock touches no run.                                               *)
LEMMA FallsDueKeeps == ASSUME Inv, FallsDue PROVE Inv'
  <1> USE DEF Inv, FallsDue, rowVars, runVars, ghosts
  <1>1. TypeOK' BY CommitmentConstants, Settings DEF CommitmentConstants, TypeOK, Places
  <1>2. Alone' BY DEF Alone
  <1>3. Holding' BY DEF TypeOK, Alone, Holding, AtOne
  <1>4. Fresh' BY DEF TypeOK, Alone, Holding, AtOne, Fresh
  <1>5. Counted' BY CommitmentConstants, Settings
      DEF CommitmentConstants, TypeOK, Alone, Holding, AtOne, Counted
  <1> QED BY <1>1, <1>2, <1>3, <1>4, <1>5

(* New settings start a new count.                                         *)
LEMMA EditKeeps == ASSUME Inv, NEW new \in Config, Edit(new) PROVE Inv'
  <1> USE DEF Inv, Edit, rowVars, runVars, ghosts
  <1>1. TypeOK' BY CommitmentConstants, Settings DEF CommitmentConstants, TypeOK, Places
  <1>2. Alone' BY DEF Alone
  <1>3. Holding' BY DEF TypeOK, Alone, Holding, AtOne
  <1>4. Fresh' BY DEF TypeOK, Alone, Holding, AtOne, Fresh
  <1>5. Counted' BY CommitmentConstants, Settings
      DEF CommitmentConstants, TypeOK, Alone, Holding, AtOne, Counted
  <1> QED BY <1>1, <1>2, <1>3, <1>4, <1>5

(* The flag is what keeps a second run out.                                *)
LEMMA TickKeeps == ASSUME Inv, NEW r \in Runs, Tick(r) PROVE Inv'
  <1> USE DEF Inv, Tick, Goes, rowVars, runVars, ghosts
  <1>1. TypeOK' BY CommitmentConstants, Settings DEF CommitmentConstants, TypeOK, Places
  <1>2. Alone' BY DEF Alone
  <1>3. Holding' BY DEF TypeOK, Alone, Holding, AtOne
  <1>4. Fresh' BY DEF TypeOK, Alone, Holding, AtOne, Fresh
  <1>5. Counted' BY CommitmentConstants, Settings
      DEF CommitmentConstants, TypeOK, Alone, Holding, AtOne, Counted
  <1> QED BY <1>1, <1>2, <1>3, <1>4, <1>5

(* A run that is over before it sent anything it has not marked.           *)
LEMMA GoneKeeps ==
  ASSUME Inv, NEW r \in Runs, pc[r] \in {"tenants", "due", "token", "loop"},
         Gone(r), running' = FALSE, NoFault \/ Fault,
         UNCHANGED <<rowVars, config, ghosts, edits>>
  PROVE  Inv'
  <1> USE DEF Inv, Gone, Goes, NoFault, Fault, rowVars, ghosts
  <1>1. TypeOK'
    <2>1. (pc \in [Runs -> Places] /\ cfg \in [Runs -> Config])'
      BY Settings DEF TypeOK, Places
    <2>2. (bot \in [Runs -> BOOLEAN] /\ left \in [Runs -> SUBSET Items])'
      BY DEF TypeOK
    <2>3. (at \in [Runs -> 0 .. Last] /\ sent \in [Runs -> 0 .. MaxPerDay])'
      BY CommitmentConstants DEF CommitmentConstants, TypeOK
    <2>4. (faults \in 0 .. MaxFaults)'
      BY CommitmentConstants DEF CommitmentConstants, TypeOK
    <2> QED BY <2>1, <2>2, <2>3, <2>4 DEF TypeOK
  <1>2. Alone' BY DEF TypeOK, Alone
  <1>3. Holding' BY DEF TypeOK, Alone, Holding, AtOne
  <1>4. Fresh'
    <2>1. faults' \in Nat /\ faults' >= faults
      BY CommitmentConstants DEF CommitmentConstants, TypeOK
    <2>2. \A s \in Runs : s # r => pc[s] = "idle"
      BY DEF Alone
    <2>3. \A s \in Runs : left'[s] = {} /\ pc'[s] = "idle"
      BY <2>2 DEF TypeOK, Holding
    <2>4. \A s \in Runs : pc[s] # "mark"
      BY <2>2
    <2> QED BY <2>1, <2>3, <2>4 DEF TypeOK, Fresh
  <1>5. Counted' BY CommitmentConstants DEF CommitmentConstants, TypeOK, Alone, Counted
  <1> QED BY <1>1, <1>2, <1>3, <1>4, <1>5

(* The settings are read; a run of a tenant that is off is over.           *)
LEMMA ReadTenantsKeeps == ASSUME Inv, NEW r \in Runs, ReadTenants(r) PROVE Inv'
  <1>1. CASE Gone(r)
    <2>1. running' = FALSE /\ (NoFault \/ Fault)
          /\ pc[r] = "tenants" /\ UNCHANGED <<rowVars, config, ghosts, edits>>
      BY <1>1 DEF ReadTenants, Ends, Aborts, GoesOn, Gone, Goes, Inv, TypeOK
    <2> QED BY <1>1, <2>1, GoneKeeps
  <1>2. CASE config.mode # "off" /\ GoesOn(r, "due")
             /\ cfg' = [cfg EXCEPT ![r] = config] /\ UNCHANGED <<bot, left, at, sent>>
    <2> USE <1>2 DEF Inv, ReadTenants, GoesOn, Goes, NoFault, rowVars, ghosts
    <2>1. TypeOK' BY DEF TypeOK, Places
    <2>2. Alone' BY DEF TypeOK, Alone
    <2>3. Holding' BY DEF TypeOK, Alone, Holding, AtOne
    <2>4. Fresh' BY DEF TypeOK, Alone, Holding, Fresh
    <2>5. Counted' BY DEF TypeOK, Alone, Counted
    <2> QED BY <2>1, <2>2, <2>3, <2>4, <2>5
  <1> QED BY <1>1, <1>2 DEF ReadTenants, Ends, Aborts

(* What is due was told of no oftener than something failed.               *)
LEMMA ReadDueKeeps == ASSUME Inv, NEW r \in Runs, ReadDue(r) PROVE Inv'
  <1>1. CASE Gone(r) /\ running' = FALSE /\ (NoFault \/ Fault)
    <2> QED BY <1>1, GoneKeeps DEF ReadDue
  <1>2. CASE GoesOn(r, "token") /\ left' = [left EXCEPT ![r] = Due]
             /\ UNCHANGED <<cfg, bot, at, sent>>
    <2> USE <1>2 DEF Inv, ReadDue, GoesOn, Goes, NoFault, rowVars, ghosts
    <2>1. TypeOK' BY DEF TypeOK, Places, Due
    <2>2. Alone' BY DEF TypeOK, Alone
    <2>3. Holding' BY DEF TypeOK, Alone, Holding, AtOne
    <2>4. Fresh'
      <3>1. \A s \in Runs : pc[s] # "mark" /\ pc'[s] # "mark"
        BY DEF TypeOK, Alone
      <3>2. \A c \in Due : told[c] <= faults
        BY <3>1 DEF Fresh, Due
      <3>3. \A s \in Runs : s # r => left'[s] = left[s] /\ pc'[s] = pc[s]
        BY DEF TypeOK
      <3> QED BY <3>1, <3>2, <3>3 DEF TypeOK, Fresh
    <2>5. Counted' BY DEF TypeOK, Alone, Counted
    <2> QED BY <2>1, <2>2, <2>3, <2>4, <2>5
  <1> QED BY <1>1, <1>2 DEF ReadDue, Ends, Aborts

(* The token decides nothing but who may be sent to.                       *)
LEMMA ReadTokenKeeps == ASSUME Inv, NEW r \in Runs, ReadToken(r) PROVE Inv'
  <1>1. CASE Gone(r) /\ running' = FALSE /\ (NoFault \/ Fault)
    <2> QED BY <1>1, GoneKeeps DEF ReadToken
  <1>2. CASE GoesOn(r, "loop") /\ (\E b \in BOOLEAN : bot' = [bot EXCEPT ![r] = b])
             /\ UNCHANGED <<cfg, left, at, sent>>
    <2> USE <1>2 DEF Inv, ReadToken, GoesOn, Goes, NoFault, rowVars, ghosts
    <2>1. TypeOK' BY DEF TypeOK, Places
    <2>2. Alone' BY DEF TypeOK, Alone
    <2>3. Holding' BY DEF TypeOK, Alone, Holding, AtOne
    <2>4. Fresh' BY DEF TypeOK, Alone, Holding, Fresh
    <2>5. Counted' BY DEF TypeOK, Alone, Counted
    <2> QED BY <2>1, <2>2, <2>3, <2>4, <2>5
  <1> QED BY <1>1, <1>2 DEF ReadToken, Ends, Aborts

(* A follow-up leaves the list when its turn comes.                        *)
LEMMA LoopKeeps == ASSUME Inv, NEW r \in Runs, Loop(r) PROVE Inv'
  <1>1. CASE Ends(r)
    <2> QED BY <1>1, GoneKeeps DEF Loop, Ends
  <1>2. ASSUME NEW c \in First(left[r]), Handle(r, c), sent[r] < cfg[r].max
        PROVE  Inv'
    <2> USE <1>2 DEF Inv, Loop, Handle, GoesOn, Goes, NoFault, rowVars, ghosts
    <2>1. c \in left[r] /\ c \in Items BY DEF TypeOK, First
    <2>2. pc'[r] \in AtOne /\ pc' = [pc EXCEPT ![r] = pc'[r]]
      BY DEF TypeOK, AtOne
    <2>3. TypeOK'
      <3>1. (pc \in [Runs -> Places])' BY <2>2 DEF TypeOK, AtOne, Places
      <3>2. (at \in [Runs -> 0 .. Last])'
        BY <2>1, CommitmentConstants DEF CommitmentConstants, TypeOK, Items
      <3>3. (left \in [Runs -> SUBSET Items])' BY DEF TypeOK
      <3> QED BY <3>1, <3>2, <3>3 DEF TypeOK
    <2>4. Alone' BY <2>2 DEF TypeOK, Alone
    <2>5. Holding' BY <2>1, <2>2 DEF TypeOK, Alone, Holding, AtOne
    <2>6. Fresh'
      <3>1. \A s \in Runs : pc[s] # "mark" BY DEF Alone
      <3>2. told[c] <= faults BY <2>1 DEF Fresh
      <3>3. \A s \in Runs : left'[s] \subseteq left[s]
        BY DEF TypeOK
      <3>4. \A s \in Runs : pc'[s] \in {"craft", "send"} => s = r /\ at'[s] = c
        BY <2>2 DEF TypeOK, Alone
      <3> QED BY <3>1, <3>2, <3>3, <3>4 DEF TypeOK, Fresh
    <2>7. Counted' BY <2>2 DEF TypeOK, Alone, Counted
    <2> QED BY <2>3, <2>4, <2>5, <2>6, <2>7
  <1> QED BY <1>1, <1>2 DEF Loop

(* Whether there is a text to send or not.                                 *)
LEMMA CraftKeeps == ASSUME Inv, NEW r \in Runs, Craft(r) PROVE Inv'
  <1> USE DEF Inv, Craft, Goes, NoFault, rowVars, ghosts
  <1>1. TypeOK' BY DEF TypeOK, Places
  <1>2. Alone' BY DEF TypeOK, Alone
  <1>3. Holding' BY DEF TypeOK, Alone, Holding, AtOne
  <1>4. Fresh' BY DEF TypeOK, Alone, Holding, AtOne, Fresh
  <1>5. Counted' BY DEF TypeOK, Alone, Counted
  <1> QED BY <1>1, <1>2, <1>3, <1>4, <1>5

(* A message goes out: it is the first since the last failure.             *)
LEMMA SendKeeps == ASSUME Inv, NEW r \in Runs, Send(r) PROVE Inv'
  <1> USE DEF Inv, Send, Goes, NoFault, Fault, rowVars, ghosts
  <1>1. /\ faults \in Nat /\ faults' \in 0 .. MaxFaults /\ faults' >= faults
        /\ pc' = [pc EXCEPT ![r] = "mark"]
    BY CommitmentConstants DEF CommitmentConstants, TypeOK
  <1>2. /\ at[r] \in Items /\ told[at[r]] <= faults /\ at[r] \notin left[r]
    BY DEF Holding, AtOne, Fresh
  <1>3. TypeOK'
    <2>1. told' \in [Items -> Nat] /\ late' \in Nat BY <1>2 DEF TypeOK
    <2>2. pc' \in [Runs -> Places] BY <1>1 DEF TypeOK, Places
    <2> QED BY <1>1, <2>1, <2>2 DEF TypeOK
  <1>4. Alone' BY <1>1 DEF TypeOK, Alone
  <1>5. Holding' BY <1>1 DEF TypeOK, Alone, Holding, AtOne
  <1>6. Fresh'
    <2>1. \A s \in Runs : pc'[s] \notin {"craft", "send"}
      BY <1>1 DEF TypeOK, Alone
    <2>2. \A s \in Runs : at[r] \notin left[s]
      BY <1>2 DEF Alone, Holding
    <2>3. \A c \in Items : c # at[r] => told'[c] = told[c]
      BY DEF TypeOK
    <2>4. told'[at[r]] <= 1 + faults'
      BY <1>1, <1>2 DEF TypeOK
    <2>5. pc'[r] = "mark" /\ \A s \in Runs : pc[s] # "mark"
      BY <1>1 DEF TypeOK, Alone
    <2>6. \A c \in Items : told[c] \in Nat /\ told'[c] \in Nat
      BY <1>3 DEF TypeOK
    <2> QED BY <1>1, <2>1, <2>2, <2>3, <2>4, <2>5, <2>6 DEF Fresh
  <1>7. Counted'
    <2>1. sent[r] < cfg[r].max /\ cfg[r].max \in 0 .. MaxPerDay
      BY Settings DEF TypeOK, Holding, AtOne
    <2>2. late <= sent[r] + faults /\ sent[r] \in Nat
      BY <1>1, CommitmentConstants DEF CommitmentConstants, TypeOK, Counted
    <2>3. late' <= late + 1 /\ (faults' = faults \/ late' = late) BY DEF TypeOK
    <2>4. \A s \in Runs : pc'[s] # "idle" => s = r
      BY <1>1 DEF TypeOK, Alone
    <2> QED BY CommitmentConstants, <1>1, <2>1, <2>2, <2>3, <2>4
            DEF CommitmentConstants, TypeOK, Counted
  <1> QED BY <1>3, <1>4, <1>5, <1>6, <1>7

(* It is marked and counted, or that fails and it may come up once more.   *)
LEMMA MarkKeeps == ASSUME Inv, NEW r \in Runs, Mark(r) PROVE Inv'
  <1> USE DEF Inv, Mark, Goes, NoFault, Fault, rowVars, ghosts
  <1>1. /\ faults \in Nat /\ faults' \in 0 .. MaxFaults /\ faults' >= faults
        /\ pc' = [pc EXCEPT ![r] = "loop"]
    BY CommitmentConstants DEF CommitmentConstants, TypeOK
  <1>2. at[r] \in Items /\ sent[r] < cfg[r].max /\ cfg[r].max \in 0 .. MaxPerDay
    BY Settings DEF TypeOK, Holding, AtOne
  <1>3. TypeOK'
    <2>1. status' \in [Items -> {"none", "pending", "closed", "delivered"}]
      BY DEF TypeOK
    <2>2. sent' \in [Runs -> 0 .. MaxPerDay]
      BY <1>2, CommitmentConstants DEF CommitmentConstants, TypeOK
    <2>3. pc' \in [Runs -> Places] BY <1>1 DEF TypeOK, Places
    <2> QED BY <1>1, <2>1, <2>2, <2>3 DEF TypeOK
  <1>4. Alone' BY <1>1 DEF TypeOK, Alone
  <1>5. Holding' BY <1>1 DEF TypeOK, Alone, Holding, AtOne
  <1>6. Fresh'
    <2>1. \A s \in Runs : s # r => pc[s] = "idle" BY DEF Alone
    <2>2. \A s \in Runs : pc'[s] \in {"idle", "loop"}
      BY <1>1, <2>1 DEF TypeOK
    <2>3. \A c \in Items : told[c] \in Nat BY DEF TypeOK
    <2>4. faults' = faults =>
            \A c \in Items : c # at[r] => status'[c] = status[c]
      BY DEF TypeOK
    <2>5. faults' = faults => status'[at[r]] = "delivered"
      BY <1>1, <1>2 DEF TypeOK
    <2>6. faults' = faults \/ faults' = faults + 1 OBVIOUS
    <2> QED BY <1>1, <2>1, <2>2, <2>3, <2>4, <2>5, <2>6 DEF Fresh
  <1>7. Counted'
    <2>1. \A s \in Runs : pc'[s] # "idle" => s = r
      BY <1>1 DEF TypeOK, Alone
    <2>2. late <= sent[r] + faults + (IF pc[r] = "mark" THEN 1 ELSE 0)
      BY DEF Counted
    <2>3. \/ faults' = faults + 1 /\ sent'[r] = sent[r]
          \/ faults' = faults /\ sent'[r] = IF pc[r] = "mark" THEN sent[r] + 1 ELSE sent[r]
      BY DEF TypeOK
    <2>4. sent[r] \in Nat BY CommitmentConstants DEF CommitmentConstants, TypeOK
    <2>5. pc'[r] = "loop" BY <1>1 DEF TypeOK
    <2>6. late' = late /\ late \in Nat /\ MaxPerDay \in Nat /\ config' = config
      BY CommitmentConstants DEF CommitmentConstants, TypeOK
    <2>7. late' <= sent'[r] + faults' BY <1>1, <2>2, <2>3, <2>4, <2>6
    <2>8. late' <= MaxPerDay + faults' BY <1>1, <2>6 DEF Counted
    <2>9. sent'[r] + faults' \in Nat BY <1>1, <2>3, <2>4
    <2>10. \A s \in Runs : pc'[s] \notin {"idle", "tenants"} =>
             late' <= sent'[s] + faults' + (IF pc'[s] = "mark" THEN 1 ELSE 0)
      BY <2>1, <2>5, <2>7, <2>9
    <2> QED BY <2>6, <2>8, <2>10 DEF Counted
  <1> QED BY <1>3, <1>4, <1>5, <1>6, <1>7

(* The process ends in the middle of it: that is a fault like any other.   *)
LEMMA CrashKeeps == ASSUME Inv, Crash PROVE Inv'
  <1> USE DEF Inv, Crash, Fault, rowVars, ghosts
  <1>1. TypeOK'
    <2>1. (pc \in [Runs -> Places] /\ cfg \in [Runs -> Config])'
      BY Settings DEF Places
    <2>2. (bot \in [Runs -> BOOLEAN] /\ left \in [Runs -> SUBSET Items])'
      OBVIOUS
    <2>3. (at \in [Runs -> 0 .. Last] /\ sent \in [Runs -> 0 .. MaxPerDay])'
      BY CommitmentConstants DEF CommitmentConstants
    <2>4. (faults \in 0 .. MaxFaults)'
      BY CommitmentConstants DEF CommitmentConstants, TypeOK
    <2> QED BY <2>1, <2>2, <2>3, <2>4 DEF TypeOK
  <1>2. Alone' BY DEF Alone
  <1>3. Holding' BY DEF Holding, AtOne
  <1>4. Fresh' BY CommitmentConstants DEF CommitmentConstants, TypeOK, Fresh
  <1>5. Counted' BY CommitmentConstants DEF CommitmentConstants, TypeOK, Counted
  <1> QED BY <1>1, <1>2, <1>3, <1>4, <1>5

-----------------------------------------------------------------------------
(* Every step keeps the invariant.                                         *)
LEMMA NextKeeps == Inv /\ [Next]_vars => Inv'
  <1> SUFFICES ASSUME Inv, [Next]_vars PROVE Inv' OBVIOUS
  <1>1. ASSUME NEW c \in Items, Create(c) \/ Complete(c) PROVE Inv'
    BY <1>1, CreateKeeps, CompleteKeeps
  <1>2. ASSUME NEW new \in Config, Edit(new) PROVE Inv'
    BY <1>2, EditKeeps
  <1>3. ASSUME NEW r \in Runs, Tick(r) \/ Step(r) PROVE Inv'
    BY <1>3, TickKeeps, ReadTenantsKeeps, ReadDueKeeps, ReadTokenKeeps, LoopKeeps,
       CraftKeeps, SendKeeps, MarkKeeps DEF Step
  <1>4. CASE FallsDue \/ Crash BY <1>4, FallsDueKeeps, CrashKeeps
  <1>5. CASE UNCHANGED vars
    BY <1>5 DEF vars, rowVars, runVars, ghosts, Inv, TypeOK, Alone, Holding, Fresh, Counted
  <1> QED BY <1>1, <1>2, <1>3, <1>4, <1>5 DEF Next

(* The invariant, for every behaviour.                                     *)
THEOREM Inductive == Spec => []Inv
  <1>1. Init => Inv BY InitInv
  <1>2. Inv /\ [Next]_vars => Inv' BY NextKeeps
  <1> QED BY <1>1, <1>2, PTL DEF Spec

(* Every variable has its type.                                            *)
THEOREM TypeCorrect == Spec => []TypeOK
  <1>1. Inv => TypeOK BY DEF Inv
  <1> QED BY <1>1, Inductive, PTL

(* A follow-up is told of once, and once more for each failure, for any    *)
(* number of follow-ups and runs.                                          *)
THEOREM Telling == Spec => []ToldOnce
  <1>1. Inv => ToldOnce BY DEF Inv, Fresh, ToldOnce
  <1> QED BY <1>1, Inductive, PTL

(* What goes out after the switch-off is bounded by the cap of one run and *)
(* the failures, for any cap.                                              *)
THEOREM SwitchingOff == Spec => []SwitchOffHolds
  <1>1. Inv => SwitchOffHolds BY DEF Inv, Counted, SwitchOffHolds
  <1> QED BY <1>1, Inductive, PTL

-----------------------------------------------------------------------------
(* The flag.                                                               *)

(* The flag that keeps a tick from overtaking a run is set exactly while   *)
(* one run, and only one, is going: a run that aborts at any of its awaits *)
(* cannot leave it set and end the check-ins for good, and a restart       *)
(* cannot leave two runs behind one flag.                                  *)
FlagMeansOneRun ==
  /\ running <=> \E r \in Runs : pc[r] # "idle"
  /\ \A r, s \in Runs : pc[r] # "idle" /\ pc[s] # "idle" => r = s

(* A run that ends, whichever way, leaves no run and no flag.              *)
LEMMA GoneClears ==
  ASSUME TypeOK, Alone, NEW r \in Runs, pc[r] # "idle", Gone(r), running' = FALSE
  PROVE  FlagMeansOneRun'
  BY DEF TypeOK, Places, Alone, FlagMeansOneRun, Gone, Goes

(* A run that goes on keeps both.                                          *)
LEMMA GoingOnKeeps ==
  ASSUME TypeOK, FlagMeansOneRun, NEW r \in Runs, pc[r] # "idle",
         NEW place \in Places \ {"idle"}, Goes(r, place), UNCHANGED running
  PROVE  FlagMeansOneRun'
  BY DEF TypeOK, Places, FlagMeansOneRun, Goes

(* The flag follows the run.                                               *)
LEMMA NextFlag == Inv /\ FlagMeansOneRun /\ [Next]_vars => FlagMeansOneRun'
  <1> SUFFICES ASSUME TypeOK, Alone, FlagMeansOneRun, [Next]_vars PROVE FlagMeansOneRun'
    BY DEF Inv
  <1>1. ASSUME NEW r \in Runs, Tick(r) PROVE FlagMeansOneRun'
    BY <1>1 DEF Tick, Goes, TypeOK, Places, FlagMeansOneRun
  <1>2. ASSUME NEW r \in Runs, ReadTenants(r) PROVE FlagMeansOneRun'
    BY <1>2, GoneClears, GoingOnKeeps DEF ReadTenants, Ends, Aborts, GoesOn, Places
  <1>3. ASSUME NEW r \in Runs, ReadDue(r) PROVE FlagMeansOneRun'
    BY <1>3, GoneClears, GoingOnKeeps DEF ReadDue, Ends, Aborts, GoesOn, Places
  <1>4. ASSUME NEW r \in Runs, ReadToken(r) PROVE FlagMeansOneRun'
    BY <1>4, GoneClears, GoingOnKeeps DEF ReadToken, Aborts, GoesOn, Places
  <1>5. ASSUME NEW r \in Runs, Loop(r) PROVE FlagMeansOneRun'
    <2>1. ASSUME NEW c \in First(left[r]), Handle(r, c) PROVE FlagMeansOneRun'
      <3>1. PICK place \in {"send", "mark", "craft", "skip"} :
              Goes(r, place) /\ UNCHANGED running
        BY <2>1 DEF Handle, GoesOn
      <3> QED BY <1>5, <3>1, GoingOnKeeps DEF Loop, Places
    <2> QED BY <1>5, <2>1, GoneClears DEF Loop, Ends
  <1>6. ASSUME NEW r \in Runs, Craft(r) \/ Send(r) \/ Mark(r) PROVE FlagMeansOneRun'
    <2>1. /\ pc[r] # "idle" /\ UNCHANGED running
          /\ \E place \in {"send", "mark", "loop"} : Goes(r, place)
      BY <1>6 DEF Craft, Send, Mark
    <2> QED BY <2>1, GoingOnKeeps DEF Places
  <1>7. CASE Crash BY <1>7 DEF Crash, FlagMeansOneRun
  <1>8. CASE UNCHANGED <<running, pc>> BY <1>8 DEF FlagMeansOneRun
  <1>9. CASE \/ \E c \in Items : Create(c) \/ Complete(c)
             \/ FallsDue
             \/ \E new \in Config : Edit(new)
             \/ UNCHANGED vars
    BY <1>8, <1>9 DEF Create, Complete, FallsDue, Edit, vars, runVars
  <1> QED BY <1>1, <1>2, <1>3, <1>4, <1>5, <1>6, <1>7, <1>9 DEF Next, Step

(* The flag never sticks and never guards two runs.                        *)
THEOREM FlagNeverSticks == Spec => []FlagMeansOneRun
  <1>1. Init => FlagMeansOneRun BY DEF Init, FlagMeansOneRun
  <1> QED BY <1>1, NextFlag, Inductive, PTL DEF Spec

=============================================================================

--------------------------- MODULE DelegationProofs ---------------------------
(***************************************************************************)
(* Theorems about Delegation, for any finite set of calls, any agents and  *)
(* caps, and any number of faults.                                         *)
(***************************************************************************)
EXTENDS Delegation, FiniteSetTheorems, TLAPS

Admitted == {"insert"}
Counted == Admitted \cup Spawned

(* A call holds a budget from its lookup on; the budget's creator holds it *)
(* too; until it is counted, it is the current one of its root.            *)
Holds == \A c \in Call :
  /\ pc[c] \in {"idle", "policy", "profile"} => held[c] = NoCall
  /\ pc[c] \in {"limits"} \cup Counted => held[c] # NoCall
  /\ held[c] # NoCall => held[held[c]] = held[c]
  /\ pc[c] \in {"limits", "insert"} => entry[job[c].root] = held[c]

(* The current budget of a root was created by a call of that root.        *)
Entries == \A r \in Root : entry[r] # NoCall =>
                             /\ held[entry[r]] = entry[r]
                             /\ job[entry[r]].root = r

(* A budget has the limits of its creator once they are known, none        *)
(* before; nobody is counted on a budget whose limits are not known.       *)
Known == \A o \in Call :
  /\ held[o] # o => budget[o] = Fresh
  /\ budget[o].lookup = "known" => budget[o].limits = Caps[job[o].src]
  /\ budget[o].lookup # "known" => budget[o].limits = NoLimit
  /\ pc[o] \in Counted => budget[held[o]].lookup = "known"

(* What makes the caps' bound inductive: the calls that were let through   *)
(* and are not yet counted have their places taken already.                *)
Bounded == \A o \in Call :
  LET admitted == Cardinality(holders(o, Admitted))
  IN /\ UpTo(budget[o].limits.hops, budget[o].hops + admitted)
     /\ UpTo(budget[o].limits.conc, budget[o].inFlight + admitted)

Room == \A r \in Root : Cardinality(starting(r)) <= FanOut

Inv == /\ TypeOK
       /\ Holds
       /\ Entries
       /\ Known
       /\ BudgetIsExact
       /\ Bounded
       /\ Room

-----------------------------------------------------------------------------
(* Counting.                                                               *)

(* One call changes its place: the set of those that hold a budget at some *)
(* places gains it, loses it, or stays as it is.                           *)
LEMMA Moving ==
  ASSUME ConstantsOK, TypeOK, NEW c \in Call, NEW place, NEW P, NEW o,
         Goto(c, place), held' = held
  PROVE  /\ Cardinality(holders(o, P)) \in Nat
         /\ Cardinality(holders(o, P))' \in Nat
         /\ (held[c] # o \/ (pc[c] \in P <=> place \in P))
              => holders(o, P)' = holders(o, P)
         /\ (held[c] = o /\ pc[c] \notin P /\ place \in P)
              => Cardinality(holders(o, P))' = Cardinality(holders(o, P)) + 1
         /\ (held[c] = o /\ pc[c] \in P /\ place \notin P)
              => Cardinality(holders(o, P))' = Cardinality(holders(o, P)) - 1
  <1> DEFINE S == holders(o, P)
             T == {d \in Call : held'[d] = o /\ pc'[d] \in P}
  <1>0. T = holders(o, P)'
    BY DEF holders
  <1>1. IsFiniteSet(S) /\ IsFiniteSet(T)
    <2>1. IsFiniteSet(Call) BY DEF ConstantsOK
    <2>2. S \subseteq Call /\ T \subseteq Call BY DEF holders
    <2> QED BY <2>1, <2>2, FS_Subset
  <1>2. Cardinality(S) \in Nat /\ Cardinality(T) \in Nat
    BY <1>1, FS_CardinalityType
  <1>3. \A d \in Call : pc'[d] = IF d = c THEN place ELSE pc[d]
    BY DEF Goto, TypeOK
  <1>4. ASSUME held[c] # o \/ (pc[c] \in P <=> place \in P) PROVE T = S
    BY <1>3, <1>4 DEF holders
  <1>5. ASSUME held[c] = o, pc[c] \notin P, place \in P
        PROVE  Cardinality(T) = Cardinality(S) + 1
    <2>1. T = S \cup {c} /\ c \notin S BY <1>3, <1>5 DEF holders
    <2> QED BY <2>1, <1>1, FS_AddElement
  <1>6. ASSUME held[c] = o, pc[c] \in P, place \notin P
        PROVE  Cardinality(T) = Cardinality(S) - 1
    <2>1. T = S \ {c} /\ c \in S BY <1>3, <1>6 DEF holders
    <2> QED BY <2>1, <1>1, FS_RemoveElement
  <1>7. Cardinality(T) = Cardinality(holders(o, P))'
    BY <1>0
  <1> HIDE DEF T
  <1> QED BY <1>0, <1>2, <1>4, <1>5, <1>6, <1>7

(* Nothing is counted where nobody changed place.                          *)
LEMMA Standing ==
  ASSUME NEW P, NEW o, pc' = pc, held' = held
  PROVE  Cardinality(holders(o, P))' = Cardinality(holders(o, P))
  BY DEF holders

(* Subsets of the calls are finite.                                        *)
LEMMA Countable ==
  ASSUME ConstantsOK, NEW S, S \subseteq Call
  PROVE  IsFiniteSet(S) /\ Cardinality(S) \in Nat
  <1>1. IsFiniteSet(Call) BY DEF ConstantsOK
  <1>2. IsFiniteSet(S) BY <1>1, FS_Subset
  <1> QED BY <1>2, FS_CardinalityType

(* Those that are let through but not counted share a root, so they fit in *)
(* its FanOut.                                                             *)
LEMMA AdmittedFit ==
  ASSUME ConstantsOK, Inv, NEW r \in Root, NEW S, S \subseteq starting(r)
  PROVE  Cardinality(S) <= FanOut
  <1>1. starting(r) \subseteq Call BY DEF starting
  <1>2. IsFiniteSet(starting(r)) /\ Cardinality(starting(r)) \in Nat
    BY <1>1, Countable
  <1>3. Cardinality(S) <= Cardinality(starting(r)) /\ Cardinality(S) \in Nat
    <2>1. IsFiniteSet(S) BY <1>2, FS_Subset
    <2> QED BY <1>2, <2>1, FS_Subset, FS_CardinalityType
  <1>4. Cardinality(starting(r)) <= FanOut BY DEF Inv, Room
  <1>5. FanOut \in Nat BY DEF ConstantsOK
  <1> QED BY <1>2, <1>3, <1>4, <1>5

(* A sub-run that is running has its place in its budget.                  *)
LEMMA PlaceTaken ==
  ASSUME ConstantsOK, Inv, NEW c \in Call, pc[c] \in Running
  PROVE  held[c] \in Call /\ budget[held[c]].inFlight - 1 \in Nat
  <1>1. held[c] \in Call
    BY DEF Inv, TypeOK, Holds, Counted, Admitted, Spawned, Running
  <1> DEFINE S == holders(held[c], Running)
  <1>2. S \subseteq Call /\ c \in S BY DEF holders
  <1>3. IsFiniteSet(S) /\ Cardinality(S) \in Nat BY <1>2, Countable
  <1>4. Cardinality(S) # 0 BY <1>2, <1>3, FS_EmptySet
  <1>5. budget[held[c]].inFlight = Cardinality(S)
    BY <1>1 DEF Inv, BudgetIsExact
  <1> HIDE DEF S
  <1> QED BY <1>1, <1>3, <1>4, <1>5

(* What a call is given when it starts.                                    *)
LEMMA OfferedIsJob ==
  ASSUME ConstantsOK, TypeOK, NEW j \in offered
  PROVE  j \in Job /\ conversation(j) \in Conversation
  <1>1. CASE j \in topLevel
    <2>1. PICK r \in Root, t \in Agent :
            j = [src |-> RootAgent[r], dst |-> t, up |-> NoCall, root |-> r]
      BY <1>1 DEF topLevel
    <2> QED BY <2>1 DEF ConstantsOK, Job, conversation, Conversation
  <1>2. CASE j \notin topLevel
    <2>1. PICK p \in Call : j \in nested(p)
      BY <1>2 DEF offered
    <2>2. PICK t \in Agent :
            j = [src |-> job[p].dst, dst |-> t, up |-> p, root |-> job[p].root]
      BY <2>1 DEF nested
    <2>3. job[p] \in Job BY DEF TypeOK
    <2> QED BY <2>2, <2>3 DEF ConstantsOK, Job, conversation, Conversation
  <1> QED BY <1>1, <1>2

BudgetType == [hops : Nat, inFlight : Nat, tokens : Nat, limits : Budget,
               lookup : {"asked", "known", "failed"}]

(* A budget that is given tokens, or whose lookup is settled, is a budget. *)
LEMMA TokensType ==
  ASSUME NEW f \in [Call -> BudgetType], NEW o \in Call, NEW n \in Nat
  PROVE  [f EXCEPT ![o].tokens = @ + n] \in [Call -> BudgetType]
  BY DEF BudgetType

(* So is one whose limits arrive.                                          *)
LEMMA LimitsType ==
  ASSUME NEW f \in [Call -> BudgetType], NEW o \in Call, NEW l \in Budget
  PROVE  [f EXCEPT ![o].lookup = "known", ![o].limits = l]
           \in [Call -> BudgetType]
  BY DEF BudgetType

(* And one that gives a place back.                                        *)
LEMMA PlaceType ==
  ASSUME NEW f \in [Call -> BudgetType], NEW o \in Call, f[o].inFlight - 1 \in Nat
  PROVE  [f EXCEPT ![o].inFlight = @ - 1] \in [Call -> BudgetType]
  BY DEF BudgetType

(* The invariant holds at first.                                           *)
LEMMA InitInv ==
  ASSUME ConstantsOK, Init PROVE Inv
  <1>1. AnyJob \in Job
    <2>1. PICK r \in Root : TRUE BY DEF ConstantsOK
    <2>2. RootAgent[r] \in Agent BY DEF ConstantsOK
    <2> DEFINE j0 == [src |-> RootAgent[r], dst |-> RootAgent[r],
                      up |-> NoCall, root |-> r]
    <2>3. j0 \in Job /\ j0.up = NoCall BY <2>2 DEF Job
    <2> HIDE DEF j0
    <2> QED BY <2>3 DEF AnyJob
  <1>2. TypeOK
    <2>1. Fresh \in BudgetType BY DEF Fresh, NoLimit, Budget, BudgetType
    <2>2. budget \in [Call -> BudgetType] BY <2>1 DEF Init
    <2>3. pc \in [Call -> {"idle"} \cup Starting \cup Spawned \cup Ended]
      BY DEF Init
    <2>4. window \in [Conversation -> 0..Window] BY DEF Init, ConstantsOK
    <2>5. faults \in 0..MaxFaults BY DEF Init, ConstantsOK
    <2>6. job \in [Call -> Job] BY <1>1 DEF Init
    <2>7. /\ held \in [Call -> Call \cup {NoCall}]
          /\ entry \in [Root -> Call \cup {NoCall}]
          /\ row \in [Call -> {"none", "running", "completed", "failed"}]
      BY DEF Init
    <2> QED BY <2>2, <2>3, <2>4, <2>5, <2>6, <2>7 DEF TypeOK, BudgetType
  <1>3. \A o, P : "idle" \notin P => holders(o, P) = {}
    BY DEF Init, holders
  <1>4. "idle" \notin Spawned /\ "idle" \notin Running
        /\ "idle" \notin Admitted /\ "idle" \notin Starting
    BY DEF Spawned, Running, Starting, Admitted
  <1>5. Cardinality({}) = 0 BY FS_EmptySet
  <1>6. BudgetIsExact
    <2> SUFFICES ASSUME NEW o \in Call
                 PROVE  /\ budget[o].hops = Cardinality(holders(o, Spawned))
                        /\ budget[o].inFlight = Cardinality(holders(o, Running))
      BY DEF BudgetIsExact
    <2>1. holders(o, Spawned) = {} /\ holders(o, Running) = {}
      BY <1>3, <1>4
    <2> QED BY <2>1, <1>5 DEF Init, Fresh
  <1>7. Bounded BY DEF Init, Fresh, NoLimit, Bounded, UpTo
  <1>8. Room
    <2>1. \A r \in Root : starting(r) = {} BY <1>4 DEF Init, starting
    <2>2. \A r \in Root : Cardinality(starting(r)) = 0 BY <2>1, <1>5
    <2>3. 0 <= FanOut BY DEF ConstantsOK
    <2> QED BY <2>2, <2>3 DEF Room
  <1>9. Holds BY <1>4 DEF Init, Holds, Counted, Admitted, Spawned, Running
  <1>10. Entries BY DEF Init, Entries
  <1>11. Known BY DEF Init, Known, Fresh, Counted, Admitted, Spawned, Running
  <1> QED BY <1>2, <1>6, <1>7, <1>8, <1>9, <1>10, <1>11 DEF Inv

-----------------------------------------------------------------------------
(* The steps, by what they change.                                         *)

(* A call goes on, or ends, without touching a budget.                     *)
Quiet(c) ==
  /\ UNCHANGED <<job, held, budget, entry>>
  /\ \E place \in Starting \cup Spawned \cup Ended :
       /\ Goto(c, place)
       /\ \/ pc[c] \in {"policy", "profile"} /\ place \in {"profile", "refused", "threw"}
          \/ pc[c] \in {"limits", "insert"} /\ place \in {"refused", "threw"}
          \/ /\ pc[c] \in {"record", "rescue"}
             /\ place \in Spawned \ Running

LetIn(c) == /\ pc[c] = "limits"
            /\ resolved(budget[held[c]])
            /\ ~spent(budget[held[c]])
            /\ Goto(c, "insert")
            /\ UNCHANGED <<job, held, budget, entry>>

Leave(c) == /\ pc[c] \in Running
            /\ budget' = leave(c)
            /\ Goto(c, "record")
            /\ UNCHANGED <<job, held, entry>>

(* The handlers that are one of these.                                     *)
LEMMA Kinds ==
  ASSUME NEW c \in Call, TypeOK
  PROVE  /\ CheckPolicy(c) => Quiet(c)
         /\ TooDeep(c) => Quiet(c)
         /\ RecordCompleted(c) => Quiet(c)
         /\ RecordFailed(c) => Quiet(c)
         /\ QueryFails(c) => Quiet(c)
         /\ Admit(c) => Quiet(c) \/ LetIn(c)
         /\ TurnEnds(c) => Leave(c)
         /\ TurnBreaks(c) => Leave(c)
  <1> USE DEF Starting, Spawned, Running, Ended
  <1>1. CheckPolicy(c) => Quiet(c) BY DEF CheckPolicy, Quiet
  <1>2. TooDeep(c) => Quiet(c) BY DEF TooDeep, Quiet
  <1>3. RecordCompleted(c) => Quiet(c) BY DEF RecordCompleted, Quiet
  <1>4. RecordFailed(c) => Quiet(c) BY DEF RecordFailed, Quiet
  <1>5. QueryFails(c) => Quiet(c)
    <2>1. ASSUME pc[c] = "insert", Goto(c, "threw"),
                 UNCHANGED <<job, held, budget, entry>>
          PROVE  Quiet(c)
      BY <2>1 DEF Quiet
    <2>2. ASSUME pc[c] \in {"policy", "profile"}, Goto(c, "threw"),
                 UNCHANGED <<job, held, budget, entry>>
          PROVE  Quiet(c)
      BY <2>2 DEF Quiet
    <2> QED BY <2>1, <2>2 DEF QueryFails, Quiet
  <1>6. Admit(c) => Quiet(c) \/ LetIn(c) BY DEF Admit, Quiet, LetIn
  <1>7. TurnEnds(c) => Leave(c) BY DEF TurnEnds, Leave
  <1>8. TurnBreaks(c) => Leave(c) BY DEF TurnBreaks, Leave
  <1> QED BY <1>1, <1>2, <1>3, <1>4, <1>5, <1>6, <1>7, <1>8

(* What a step does to the fields of a budget.                             *)
LEMMA LeaveBudget ==
  ASSUME TypeOK, NEW c \in Call, held[c] \in Call, budget' = leave(c)
  PROVE  \A o \in Call :
           /\ budget'[o].inFlight = IF o = held[c] THEN budget[o].inFlight - 1
                                                   ELSE budget[o].inFlight
           /\ budget'[o].hops = budget[o].hops
           /\ budget'[o].limits = budget[o].limits
           /\ budget'[o].lookup = budget[o].lookup
           /\ budget'[o].tokens = budget[o].tokens
  BY DEF TypeOK, leave

(* Spawn counts on the caller's budget and on no other.                    *)
LEMMA SpawnBudget ==
  ASSUME TypeOK, NEW c \in Call, held[c] \in Call, Spawn(c)
  PROVE  \A o \in Call :
           /\ budget'[o].inFlight = IF o = held[c] THEN budget[o].inFlight + 1
                                                   ELSE budget[o].inFlight
           /\ budget'[o].hops = IF o = held[c] THEN budget[o].hops + 1
                                               ELSE budget[o].hops
           /\ budget'[o].limits = budget[o].limits
           /\ budget'[o].lookup = budget[o].lookup
           /\ budget'[o].tokens = budget[o].tokens
  BY DEF TypeOK, Spawn

(* Tokens change no other field.                                           *)
LEMMA TokensBudget ==
  ASSUME TypeOK, NEW c \in Call, NEW n \in Nat, AddDelegatedTokens(c, n)
  PROVE  \A o \in Call :
           /\ budget'[o].inFlight = budget[o].inFlight
           /\ budget'[o].hops = budget[o].hops
           /\ budget'[o].limits = budget[o].limits
           /\ budget'[o].lookup = budget[o].lookup
           /\ budget'[o].tokens \in Nat
  BY DEF TypeOK, AddDelegatedTokens

(* A lookup changes no counter and no other budget.                        *)
LEMMA LookupBudget ==
  ASSUME TypeOK, NEW p \in Call, LimitsArrive(p) \/ LimitsFail(p)
  PROVE  \A o \in Call :
           /\ budget'[o].inFlight = budget[o].inFlight
           /\ budget'[o].hops = budget[o].hops
           /\ budget'[o].tokens = budget[o].tokens
           /\ o # p => budget'[o] = budget[o]
  BY DEF TypeOK, LimitsArrive, LimitsFail

-----------------------------------------------------------------------------
(* Types.                                                                  *)

(* Where every call goes is a place.                                       *)
LEMMA GotoType ==
  ASSUME TypeOK, NEW c \in Call,
         NEW place \in {"idle"} \cup Starting \cup Spawned \cup Ended,
         Goto(c, place)
  PROVE  pc' \in [Call -> {"idle"} \cup Starting \cup Spawned \cup Ended]
  BY DEF TypeOK, Goto

(* Faults stay within their bound.                                         *)
LEMMA FaultType ==
  ASSUME ConstantsOK, TypeOK, Fault
  PROVE  faults' \in 0..MaxFaults
  BY DEF ConstantsOK, TypeOK, Fault

(* Every step keeps the types.                                             *)
LEMMA TypeStep ==
  ASSUME ConstantsOK, Inv, Next
  PROVE  TypeOK'
  <1> USE DEF Starting, Spawned, Running, Ended
  <1> TypeOK BY DEF Inv
  <1>1. ASSUME NEW c \in Call, NEW j \in offered,
               NEW first \in {"policy", "profile"}, Delegate(c, j, first)
        PROVE  TypeOK'
    <2>1. j \in Job /\ conversation(j) \in Conversation BY OfferedIsJob
    <2>2. job' \in [Call -> Job] BY <1>1, <2>1 DEF Delegate, TypeOK
    <2>3. pc' \in [Call -> {"idle"} \cup Starting \cup Spawned \cup Ended]
      BY <1>1, GotoType DEF Delegate
    <2>4. window' \in [Conversation -> 0..Window]
      <3>1. CASE UNCHANGED window BY <3>1 DEF TypeOK
      <3>2. CASE /\ hasRoom(conversation(j))
                 /\ window' = [window EXCEPT ![conversation(j)] = @ + 1]
        <4>1. window[conversation(j)] + 1 \in 0..Window
          BY <3>2, <2>1 DEF TypeOK, hasRoom, ConstantsOK
        <4> QED BY <3>2, <4>1 DEF TypeOK
      <3> QED BY <1>1, <3>1, <3>2 DEF Delegate
    <2> QED BY <1>1, <2>2, <2>3, <2>4 DEF Delegate, TypeOK
  <1>2. ASSUME NEW c \in Call, CheckPolicy(c) PROVE TypeOK'
    BY <1>2, GotoType DEF CheckPolicy, TypeOK
  <1>3. ASSUME NEW c \in Call, TooDeep(c) PROVE TypeOK'
    BY <1>3, GotoType DEF TooDeep, TypeOK
  <1>4. ASSUME NEW c \in Call, GetRootBudget(c) PROVE TypeOK'
    <2>1. theirBudget(c, job[c].root) \in Call
      BY DEF theirBudget, TypeOK, Job
    <2>2. pc' \in [Call -> {"idle"} \cup Starting \cup Spawned \cup Ended]
      BY <1>4, GotoType DEF GetRootBudget
    <2> QED BY <1>4, <2>1, <2>2 DEF GetRootBudget, TypeOK
  <1>5. ASSUME NEW c \in Call, LimitsArrive(c) PROVE TypeOK'
    <2>1. Caps[job[c].src] \in Budget BY DEF ConstantsOK, TypeOK, Job
    <2>2. budget' \in [Call -> BudgetType]
      <3>1. budget \in [Call -> BudgetType] BY DEF TypeOK, BudgetType
      <3> QED BY <1>5, <2>1, <3>1, LimitsType DEF LimitsArrive
    <2> QED BY <1>5, <2>2 DEF LimitsArrive, TypeOK, BudgetType
  <1>6. ASSUME NEW c \in Call, LimitsFail(c) PROVE TypeOK'
    <2>1. budget' \in [Call -> BudgetType]
      BY <1>6 DEF LimitsFail, TypeOK, BudgetType
    <2>2. faults' \in 0..MaxFaults BY <1>6, FaultType DEF LimitsFail
    <2> QED BY <1>6, <2>1, <2>2 DEF LimitsFail, TypeOK, BudgetType
  <1>7. ASSUME NEW c \in Call, Admit(c) PROVE TypeOK'
    BY <1>7, GotoType DEF Admit, TypeOK
  <1>8. ASSUME NEW c \in Call, Spawn(c) PROVE TypeOK'
    <2>1. held[c] \in Call
      BY <1>8 DEF Spawn, Inv, Holds, TypeOK, Counted, Admitted
    <2>2. budget' \in [Call -> BudgetType]
      BY <1>8, <2>1 DEF Spawn, TypeOK, BudgetType
    <2>3. pc' \in [Call -> {"idle"} \cup Starting \cup Spawned \cup Ended]
      BY <1>8, GotoType DEF Spawn
    <2>4. row' \in [Call -> {"none", "running", "completed", "failed"}]
      BY <1>8 DEF Spawn, TypeOK
    <2> QED BY <1>8, <2>2, <2>3, <2>4 DEF Spawn, TypeOK, BudgetType
  <1>9. ASSUME NEW c \in Call, NEW n \in 0..MaxUse, AddDelegatedTokens(c, n)
        PROVE  TypeOK'
    <2>1. n \in Nat BY DEF ConstantsOK
    <2>2. budget' \in [Call -> BudgetType]
      <3>1. budget \in [Call -> BudgetType] BY DEF TypeOK, BudgetType
      <3>2. entry[job[c].root] \in Call \cup {NoCall} BY DEF TypeOK, Job
      <3>3. CASE entry[job[c].root] = NoCall
        BY <1>9, <3>1, <3>3 DEF AddDelegatedTokens
      <3>4. CASE entry[job[c].root] # NoCall
        BY <1>9, <2>1, <3>1, <3>2, <3>4, TokensType DEF AddDelegatedTokens
      <3> QED BY <3>3, <3>4
    <2>3. pc' \in [Call -> {"idle"} \cup Starting \cup Spawned \cup Ended]
      BY <1>9, GotoType DEF AddDelegatedTokens
    <2> QED BY <1>9, <2>2, <2>3 DEF AddDelegatedTokens, TypeOK, BudgetType
  <1>10. ASSUME NEW c \in Call, Leave(c) PROVE budget' \in [Call -> BudgetType]
    <2>1. held[c] \in Call /\ budget[held[c]].inFlight - 1 \in Nat
      BY <1>10, PlaceTaken DEF Leave
    <2>2. budget \in [Call -> BudgetType] BY DEF TypeOK, BudgetType
    <2> QED BY <1>10, <2>1, <2>2, PlaceType DEF Leave, leave
  <1>11. ASSUME NEW c \in Call, TurnEnds(c) PROVE TypeOK'
    <2>1. budget' \in [Call -> BudgetType] BY <1>10, <1>11, Kinds
    <2> QED BY <1>11, <2>1, GotoType DEF TurnEnds, TypeOK, BudgetType
  <1>12. ASSUME NEW c \in Call, TurnBreaks(c) PROVE TypeOK'
    <2>1. budget' \in [Call -> BudgetType] BY <1>10, <1>12, Kinds
    <2>2. faults' \in 0..MaxFaults BY <1>12, FaultType DEF TurnBreaks
    <2> QED BY <1>12, <2>1, <2>2, GotoType DEF TurnBreaks, TypeOK, BudgetType
  <1>13. ASSUME NEW c \in Call, RecordCompleted(c) PROVE TypeOK'
    BY <1>13, GotoType DEF RecordCompleted, TypeOK
  <1>14. ASSUME NEW c \in Call, RecordFailed(c) PROVE TypeOK'
    BY <1>14, GotoType DEF RecordFailed, TypeOK
  <1>15. ASSUME NEW c \in Call, QueryFails(c) PROVE TypeOK'
    <2>1. faults' \in 0..MaxFaults BY <1>15, FaultType DEF QueryFails
    <2>2. pc' \in [Call -> {"idle"} \cup Starting \cup Spawned \cup Ended]
      BY <1>15, GotoType DEF QueryFails
    <2> QED BY <1>15, <2>1, <2>2 DEF QueryFails, TypeOK
  <1>16. ASSUME NEW v \in Conversation, WindowElapses(v) PROVE TypeOK'
    BY <1>16 DEF WindowElapses, TypeOK, ConstantsOK
  <1>17. ASSUME NEW r \in Root, Sweep(r) PROVE TypeOK'
    BY <1>17 DEF Sweep, TypeOK
  <1> QED BY <1>1, <1>2, <1>3, <1>4, <1>5, <1>6, <1>7, <1>8, <1>9, <1>11,
             <1>12, <1>13, <1>14, <1>15, <1>16, <1>17 DEF Next

-----------------------------------------------------------------------------
(* Every step is of one of these kinds.                                    *)
LEMMA StepKinds ==
  ASSUME ConstantsOK, TypeOK, Next
  PROVE  \/ \E c \in Call, j \in offered, first \in {"policy", "profile"} :
              Delegate(c, j, first)
         \/ \E c \in Call : \/ Quiet(c) \/ GetRootBudget(c)
                             \/ LimitsArrive(c) \/ LimitsFail(c)
                             \/ LetIn(c) \/ Spawn(c) \/ Leave(c)
                             \/ \E n \in Nat : AddDelegatedTokens(c, n)
         \/ \E v \in Conversation : WindowElapses(v)
         \/ \E r \in Root : Sweep(r)
  <1>1. 0..MaxUse \subseteq Nat BY DEF ConstantsOK
  <1> QED BY <1>1, Kinds DEF Next

(* The places after a step.                                                *)
LEMMA Places ==
  ASSUME TypeOK, NEW c \in Call, NEW place, Goto(c, place)
  PROVE  \A d \in Call : pc'[d] = IF d = c THEN place ELSE pc[d]
  BY DEF TypeOK, Goto

(* Every step keeps Holds: a sweep spares budgets still to be counted on.  *)
LEMMA HoldsStep ==
  ASSUME ConstantsOK, Inv, Next
  PROVE  Holds'
  <1> TypeOK /\ Holds /\ Entries BY DEF Inv
  <1> USE DEF Spawned, Running, Ended, Counted, Admitted, Starting
  <1>1. ASSUME NEW c \in Call, NEW j \in offered,
               NEW first \in {"policy", "profile"}, Delegate(c, j, first)
        PROVE  Holds'
    <2>1. PICK place \in {"policy", "profile", "refused"} : Goto(c, place)
      BY <1>1 DEF Delegate
    <2>2. \A d \in Call : pc'[d] = IF d = c THEN place ELSE pc[d]
      BY <2>1, Places
    <2>3. \A d \in Call : d # c => job'[d] = job[d]
      BY <1>1 DEF Delegate, TypeOK
    <2> QED BY <1>1, <2>2, <2>3 DEF Delegate, Holds
  <1>2. ASSUME NEW c \in Call, Quiet(c) PROVE Holds'
    <2>1. PICK place \in Starting \cup Spawned \cup Ended :
            /\ Goto(c, place)
            /\ \/ /\ pc[c] \in {"policy", "profile"}
                  /\ place \in {"profile", "refused", "threw"}
               \/ /\ pc[c] \in {"limits", "insert"}
                  /\ place \in {"refused", "threw"}
               \/ /\ pc[c] \in {"record", "rescue"}
                  /\ place \in Spawned \ Running
      BY <1>2 DEF Quiet
    <2>2. \A d \in Call : pc'[d] = IF d = c THEN place ELSE pc[d]
      BY <2>1, Places
    <2> QED BY <1>2, <2>1, <2>2 DEF Quiet, Holds
  <1>3. ASSUME NEW c \in Call, GetRootBudget(c) PROVE Holds'
    <2> DEFINE r == job[c].root
               o == theirBudget(c, r)
    <2>1. r \in Root BY DEF TypeOK, Job
    <2>2. held[c] = NoCall BY <1>3 DEF GetRootBudget, Holds
    <2>3. /\ o \in Call /\ o # NoCall
          /\ o # c => held[o] = o
          /\ entry[r] # NoCall => o = entry[r]
      BY <2>1 DEF theirBudget, Entries, TypeOK, ConstantsOK
    <2>4. \A d \in Call : pc'[d] = IF d = c THEN "limits" ELSE pc[d]
      BY <1>3, Places DEF GetRootBudget
    <2>5. \A d \in Call : held'[d] = IF d = c THEN o ELSE held[d]
      BY <1>3 DEF GetRootBudget, TypeOK
    <2>6. \A q \in Root : entry'[q] = IF q = r THEN o ELSE entry[q]
      BY <1>3, <2>1 DEF GetRootBudget, TypeOK
    <2>7. job' = job BY <1>3 DEF GetRootBudget
    <2> HIDE DEF o, r
    <2>8. ASSUME NEW d \in Call
          PROVE  /\ pc'[d] \in {"idle", "policy", "profile"} => held'[d] = NoCall
                 /\ pc'[d] \in {"limits"} \cup Counted => held'[d] # NoCall
      BY <2>3, <2>4, <2>5 DEF Holds
    <2>9. ASSUME NEW d \in Call, held'[d] # NoCall
          PROVE  held'[held'[d]] = held'[d]
      <3>1. CASE d = c BY <2>3, <2>5, <3>1
      <3>2. CASE d # c
        <4>1. held'[d] = held[d] /\ held[d] \in Call /\ held[held[d]] = held[d]
          BY <2>5, <2>9, <3>2 DEF Holds, TypeOK
        <4>2. held[d] # c BY <2>2, <4>1 DEF ConstantsOK
        <4> QED BY <2>5, <4>1, <4>2
      <3> QED BY <3>1, <3>2
    <2>10. ASSUME NEW d \in Call, pc'[d] \in {"limits", "insert"}
           PROVE  entry'[job'[d].root] = held'[d]
      <3>1. job[d].root \in Root BY DEF TypeOK, Job
      <3>2. CASE d = c BY <2>5, <2>6, <2>7, <3>1, <3>2 DEF r
      <3>3. CASE d # c
        <4>1. entry[job[d].root] = held[d] /\ held[d] # NoCall
          BY <2>4, <2>10, <3>3 DEF Holds
        <4> QED BY <2>3, <2>5, <2>6, <2>7, <3>1, <3>3, <4>1
      <3> QED BY <3>2, <3>3
    <2> QED BY <2>8, <2>9, <2>10 DEF Holds
  <1>4. ASSUME UNCHANGED <<pc, job, held, entry>> PROVE Holds'
    BY <1>4 DEF Holds
  <1>5. ASSUME NEW c \in Call, NEW place, Goto(c, place),
               UNCHANGED <<job, held, entry>>,
               \/ pc[c] = "limits" /\ place = "insert"
               \/ pc[c] \in Counted /\ place \in Spawned
        PROVE  Holds'
    <2>1. \A d \in Call : pc'[d] = IF d = c THEN place ELSE pc[d]
      BY <1>5, Places
    <2> QED BY <1>5, <2>1 DEF Holds
  <1>6. ASSUME NEW r \in Root, Sweep(r) PROVE Holds'
    <2>1. \A q \in Root : entry'[q] = IF q = r THEN NoCall ELSE entry[q]
      BY <1>6 DEF Sweep, TypeOK
    <2>2. \A d \in Call : job[d].root \in Root BY DEF TypeOK, Job
    <2> QED BY <1>6, <2>1, <2>2 DEF Sweep, Holds
  <1>7. ASSUME NEW c \in Call, LetIn(c) PROVE Holds'
    BY <1>5, <1>7 DEF LetIn
  <1>8. ASSUME NEW c \in Call, Spawn(c) PROVE Holds'
    BY <1>5, <1>8 DEF Spawn
  <1>9. ASSUME NEW c \in Call, Leave(c) PROVE Holds'
    BY <1>5, <1>9 DEF Leave
  <1>10. ASSUME NEW c \in Call, NEW n \in Nat, AddDelegatedTokens(c, n)
         PROVE Holds'
    BY <1>5, <1>10 DEF AddDelegatedTokens
  <1>11. ASSUME NEW c \in Call, LimitsArrive(c) \/ LimitsFail(c) PROVE Holds'
    BY <1>4, <1>11 DEF LimitsArrive, LimitsFail
  <1>12. ASSUME NEW v \in Conversation, WindowElapses(v) PROVE Holds'
    BY <1>4, <1>12 DEF WindowElapses
  <1> QED BY <1>1, <1>2, <1>3, <1>6, <1>7, <1>8, <1>9, <1>10, <1>11, <1>12,
             StepKinds

(* Every step keeps Entries: a call that starts has created no budget.     *)
LEMMA EntriesStep ==
  ASSUME ConstantsOK, Inv, Next
  PROVE  Entries'
  <1> TypeOK /\ Holds /\ Entries BY DEF Inv
  <1>1. ASSUME NEW c \in Call, NEW j \in offered,
               NEW first \in {"policy", "profile"}, Delegate(c, j, first)
        PROVE  Entries'
    <2>1. held[c] = NoCall BY <1>1 DEF Delegate, Holds
    <2>2. \A d \in Call : d # c => job'[d] = job[d]
      BY <1>1 DEF Delegate, TypeOK
    <2>3. ASSUME NEW r \in Root, entry[r] # NoCall
          PROVE  entry[r] \in Call /\ entry[r] # c
      BY <2>1, <2>3 DEF Entries, TypeOK
    <2> QED BY <1>1, <2>2, <2>3 DEF Delegate, Entries
  <1>2. ASSUME NEW c \in Call, GetRootBudget(c) PROVE Entries'
    <2> DEFINE r == job[c].root
               o == theirBudget(c, r)
    <2>1. r \in Root BY DEF TypeOK, Job
    <2>2. held[c] = NoCall BY <1>2 DEF GetRootBudget, Holds
    <2>3. /\ o \in Call
          /\ o # c => held[o] = o
          /\ job[o].root = r
      BY <2>1 DEF theirBudget, Entries, TypeOK
    <2>4. \A d \in Call : held'[d] = IF d = c THEN o ELSE held[d]
      BY <1>2 DEF GetRootBudget, TypeOK
    <2>5. \A q \in Root : entry'[q] = IF q = r THEN o ELSE entry[q]
      BY <1>2, <2>1 DEF GetRootBudget, TypeOK
    <2>6. job' = job BY <1>2 DEF GetRootBudget
    <2> HIDE DEF o, r
    <2>7. ASSUME NEW q \in Root, entry[q] # NoCall
          PROVE  entry[q] \in Call /\ entry[q] # c
      BY <2>2, <2>7 DEF Entries, TypeOK
    <2> QED BY <2>3, <2>4, <2>5, <2>6, <2>7 DEF Entries
  <1>3. ASSUME NEW r \in Root, Sweep(r) PROVE Entries'
    <2>1. \A q \in Root : entry'[q] = IF q = r THEN NoCall ELSE entry[q]
      BY <1>3 DEF Sweep, TypeOK
    <2> QED BY <1>3, <2>1 DEF Sweep, Entries
  <1>4. ASSUME UNCHANGED <<job, held, entry>> PROVE Entries'
    BY <1>4 DEF Entries
  <1>5. ASSUME NEW c \in Call, Quiet(c) \/ LetIn(c) PROVE Entries'
    BY <1>4, <1>5 DEF Quiet, LetIn
  <1>6. ASSUME NEW c \in Call, LimitsArrive(c) \/ LimitsFail(c)
        PROVE  Entries'
    BY <1>4, <1>6 DEF LimitsArrive, LimitsFail
  <1>7. ASSUME NEW c \in Call, Spawn(c) \/ Leave(c) PROVE Entries'
    BY <1>4, <1>7 DEF Spawn, Leave
  <1>8. ASSUME NEW c \in Call, NEW n \in Nat, AddDelegatedTokens(c, n)
        PROVE  Entries'
    BY <1>4, <1>8 DEF AddDelegatedTokens
  <1>9. ASSUME NEW v \in Conversation, WindowElapses(v) PROVE Entries'
    BY <1>4, <1>9 DEF WindowElapses
  <1> QED BY <1>1, <1>2, <1>3, <1>5, <1>6, <1>7, <1>8, <1>9, StepKinds

(* Every step keeps Known: only a settled lookup lets a call through.      *)
LEMMA KnownStep ==
  ASSUME ConstantsOK, Inv, Next
  PROVE  Known'
  <1> TypeOK /\ Holds /\ Entries /\ Known BY DEF Inv
  <1> USE DEF Spawned, Running, Counted, Admitted
  <1>1. ASSUME NEW c \in Call, NEW j \in offered,
               NEW first \in {"policy", "profile"}, Delegate(c, j, first)
        PROVE  Known'
    <2>1. held[c] = NoCall /\ held[c] # c
      BY <1>1 DEF Delegate, Holds, ConstantsOK
    <2>2. PICK place \in {"policy", "profile", "refused"} : Goto(c, place)
      BY <1>1 DEF Delegate
    <2>3. \A d \in Call : pc'[d] = IF d = c THEN place ELSE pc[d]
      BY <2>2, Places
    <2>4. \A d \in Call : d # c => job'[d] = job[d]
      BY <1>1 DEF Delegate, TypeOK
    <2>5. budget[c].lookup # "known" /\ budget[c].limits = NoLimit
      BY <2>1 DEF Known, Fresh
    <2> QED BY <1>1, <2>1, <2>3, <2>4, <2>5 DEF Delegate, Known
  <1>2. ASSUME NEW c \in Call, NEW place, Goto(c, place),
               UNCHANGED <<job, held, budget>>,
               \/ place \notin Counted
               \/ pc[c] \in Counted
               \/ budget[held[c]].lookup = "known"
        PROVE  Known'
    <2>1. \A d \in Call : pc'[d] = IF d = c THEN place ELSE pc[d]
      BY <1>2, Places
    <2> QED BY <1>2, <2>1 DEF Known
  <1>3. ASSUME NEW c \in Call, GetRootBudget(c) PROVE Known'
    <2> DEFINE o == theirBudget(c, job[c].root)
    <2>1. held[c] = NoCall /\ held[c] # c
      BY <1>3 DEF GetRootBudget, Holds, ConstantsOK
    <2>2. \A d \in Call : held'[d] = IF d = c THEN o ELSE held[d]
      BY <1>3 DEF GetRootBudget, TypeOK
    <2>3. \A d \in Call : pc'[d] = IF d = c THEN "limits" ELSE pc[d]
      BY <1>3, Places DEF GetRootBudget
    <2>4. budget' = budget /\ job' = job BY <1>3 DEF GetRootBudget
    <2> HIDE DEF o
    <2> QED BY <2>1, <2>2, <2>3, <2>4 DEF Known
  <1>4. ASSUME NEW p \in Call, LimitsArrive(p) PROVE Known'
    <2>1. \A o \in Call : o # p => budget'[o] = budget[o]
      BY <1>4, LookupBudget
    <2>2. budget'[p].lookup = "known" /\ budget'[p].limits = Caps[job[p].src]
      BY <1>4 DEF LimitsArrive, TypeOK
    <2>3. held[p] = p /\ UNCHANGED <<pc, job, held>> BY <1>4 DEF LimitsArrive
    <2>4. \A d \in Call : pc[d] \in Counted => held[d] \in Call
      BY DEF Holds, TypeOK
    <2> QED BY <2>1, <2>2, <2>3, <2>4 DEF Known
  <1>5. ASSUME NEW p \in Call, LimitsFail(p) PROVE Known'
    <2>1. \A o \in Call : o # p => budget'[o] = budget[o]
      BY <1>5, LookupBudget
    <2>2. /\ budget'[p].lookup = "failed"
          /\ budget'[p].limits = budget[p].limits
      BY <1>5 DEF LimitsFail, TypeOK
    <2>3. held[p] = p /\ budget[p].lookup = "asked" /\ UNCHANGED <<pc, job, held>>
      BY <1>5 DEF LimitsFail
    <2>4. \A d \in Call : pc[d] \in Counted => held[d] \in Call
      BY DEF Holds, TypeOK
    <2>5. \A d \in Call : pc[d] \in Counted => held[d] # p
      BY <2>3 DEF Known
    <2> QED BY <2>1, <2>2, <2>3, <2>4, <2>5 DEF Known
  <1>6. ASSUME NEW c \in Call, NEW place, Goto(c, place),
               UNCHANGED <<job, held>>, pc[c] \in Counted,
               \A o \in Call : /\ budget'[o].limits = budget[o].limits
                               /\ budget'[o].lookup = budget[o].lookup
                               /\ held[o] # o => budget'[o] = budget[o]
        PROVE  Known'
    <2>1. \A d \in Call : pc'[d] = IF d = c THEN place ELSE pc[d]
      BY <1>6, Places
    <2>2. \A d \in Call : pc[d] \in Counted => held[d] \in Call
      BY DEF Holds, TypeOK
    <2>3. \A d \in Call : pc'[d] \in Counted => pc[d] \in Counted
      BY <1>6, <2>1
    <2> QED BY <1>6, <2>2, <2>3 DEF Known
  <1>7. ASSUME NEW c \in Call, LetIn(c) PROVE Known'
    BY <1>2, <1>7 DEF LetIn, resolved
  <1>8. ASSUME NEW c \in Call, Quiet(c) PROVE Known'
    <2>1. PICK place :
            /\ Goto(c, place)
            /\ \/ place \in {"profile", "refused", "threw"}
               \/ pc[c] \in {"record", "rescue"}
      BY <1>8 DEF Quiet
    <2> QED BY <1>2, <1>8, <2>1 DEF Quiet
  <1>9. ASSUME NEW c \in Call, pc[c] \in Counted
        PROVE  held[c] \in Call /\ held[held[c]] = held[c]
    BY <1>9 DEF Holds, TypeOK
  <1>10. ASSUME NEW c \in Call, Spawn(c) PROVE Known'
    <2>1. held[c] \in Call /\ held[held[c]] = held[c] /\ pc[c] \in Counted
      BY <1>9, <1>10 DEF Spawn
    <2>2. \A o \in Call : o # held[c] => budget'[o] = budget[o]
      BY <1>10, <2>1 DEF Spawn, TypeOK
    <2>3. \A o \in Call : /\ budget'[o].limits = budget[o].limits
                          /\ budget'[o].lookup = budget[o].lookup
      BY <1>10, <2>1, SpawnBudget
    <2> QED BY <1>6, <1>10, <2>1, <2>2, <2>3 DEF Spawn
  <1>11. ASSUME NEW c \in Call, Leave(c) PROVE Known'
    <2>1. held[c] \in Call /\ held[held[c]] = held[c] /\ pc[c] \in Counted
      BY <1>9, <1>11 DEF Leave
    <2>2. \A o \in Call : o # held[c] => budget'[o] = budget[o]
      BY <1>11, <2>1 DEF Leave, leave, TypeOK
    <2>3. \A o \in Call : /\ budget'[o].limits = budget[o].limits
                          /\ budget'[o].lookup = budget[o].lookup
      BY <1>11, <2>1, LeaveBudget DEF Leave
    <2> QED BY <1>6, <1>11, <2>1, <2>2, <2>3 DEF Leave
  <1>12. ASSUME NEW c \in Call, NEW n \in Nat, AddDelegatedTokens(c, n)
         PROVE Known'
    <2> DEFINE q == entry[job[c].root]
    <2>1. job[c].root \in Root /\ (q # NoCall => held[q] = q)
      BY DEF TypeOK, Job, Entries
    <2>2. \A o \in Call : held[o] # o => budget'[o] = budget[o]
      BY <1>12, <2>1 DEF AddDelegatedTokens, TypeOK
    <2>3. \A o \in Call : /\ budget'[o].limits = budget[o].limits
                          /\ budget'[o].lookup = budget[o].lookup
      BY <1>12, TokensBudget
    <2> QED BY <1>6, <1>12, <2>2, <2>3 DEF AddDelegatedTokens
  <1>13. ASSUME UNCHANGED <<pc, job, held, budget>> PROVE Known'
    BY <1>13 DEF Known
  <1> QED BY <1>1, <1>3, <1>4, <1>5, <1>7, <1>8, <1>10, <1>11, <1>12, <1>13,
             StepKinds DEF WindowElapses, Sweep

-----------------------------------------------------------------------------
(* Counting goes on with what is counted.                                  *)

(* A lookup of a root's budget counts nobody.                              *)
LEMMA LookupCountsNobody ==
  ASSUME TypeOK, Holds, NEW c \in Call, GetRootBudget(c),
         NEW P, P \subseteq Counted, NEW o \in Call
  PROVE  holders(o, P)' = holders(o, P)
  <1>1. \A d \in Call : pc'[d] = IF d = c THEN "limits" ELSE pc[d]
    BY Places DEF GetRootBudget
  <1>2. \A d \in Call : d # c => held'[d] = held[d]
    BY DEF GetRootBudget, TypeOK
  <1>3. pc[c] \notin P /\ "limits" \notin P
    BY DEF GetRootBudget, Counted, Admitted, Spawned, Running
  <1> QED BY <1>1, <1>2, <1>3 DEF holders

(* Types of what is added up.                                              *)
LEMMA Numbers ==
  ASSUME TypeOK, NEW o \in Call
  PROVE  /\ budget[o].hops \in Nat /\ budget[o].inFlight \in Nat
         /\ budget[o].tokens \in Nat
         /\ budget[o].limits.hops \in Nat /\ budget[o].limits.conc \in Nat
         /\ budget[o].limits.tokens \in Nat
  BY DEF TypeOK, Budget

(* Every step keeps the counters exact.                                    *)
LEMMA ExactStep ==
  ASSUME ConstantsOK, Inv, Next
  PROVE  BudgetIsExact'
  <1> TypeOK /\ Holds /\ BudgetIsExact BY DEF Inv
  <1>1. ASSUME NEW c \in Call, NEW place, Goto(c, place),
               UNCHANGED <<held, budget>>,
               pc[c] \in Spawned <=> place \in Spawned,
               pc[c] \in Running <=> place \in Running
        PROVE  BudgetIsExact'
    <2>1. \A o \in Call : /\ holders(o, Spawned)' = holders(o, Spawned)
                          /\ holders(o, Running)' = holders(o, Running)
      BY <1>1, Moving
    <2> QED BY <1>1, <2>1 DEF BudgetIsExact
  <1>2. ASSUME NEW c \in Call, NEW j \in offered,
               NEW first \in {"policy", "profile"}, Delegate(c, j, first)
        PROVE  BudgetIsExact'
    <2>1. PICK place \in {"policy", "profile", "refused"} : Goto(c, place)
      BY <1>2 DEF Delegate
    <2> QED BY <1>1, <1>2, <2>1 DEF Delegate, Spawned, Running
  <1>3. ASSUME NEW c \in Call, Quiet(c) PROVE BudgetIsExact'
    <2>1. PICK place :
            /\ Goto(c, place)
            /\ \/ /\ pc[c] \in {"policy", "profile"}
                  /\ place \in {"profile", "refused", "threw"}
               \/ /\ pc[c] \in {"limits", "insert"}
                  /\ place \in {"refused", "threw"}
               \/ /\ pc[c] \in {"record", "rescue"}
                  /\ place \in Spawned \ Running
      BY <1>3 DEF Quiet
    <2> QED BY <1>1, <1>3, <2>1 DEF Quiet, Spawned, Running
  <1>4. ASSUME NEW c \in Call, GetRootBudget(c) PROVE BudgetIsExact'
    <2>1. Spawned \subseteq Counted /\ Running \subseteq Counted
      BY DEF Counted, Admitted, Spawned
    <2>2. \A o \in Call : /\ holders(o, Spawned)' = holders(o, Spawned)
                          /\ holders(o, Running)' = holders(o, Running)
      BY <1>4, <2>1, LookupCountsNobody
    <2> QED BY <1>4, <2>2 DEF GetRootBudget, BudgetIsExact
  <1>5. ASSUME UNCHANGED <<pc, held>>,
               \A o \in Call : /\ budget'[o].hops = budget[o].hops
                               /\ budget'[o].inFlight = budget[o].inFlight
        PROVE  BudgetIsExact'
    BY <1>5, Standing DEF BudgetIsExact
  <1>6. ASSUME NEW c \in Call, LimitsArrive(c) \/ LimitsFail(c)
        PROVE  BudgetIsExact'
    BY <1>5, <1>6, LookupBudget DEF LimitsArrive, LimitsFail
  <1>7. ASSUME NEW c \in Call, LetIn(c) PROVE BudgetIsExact'
    BY <1>1, <1>7 DEF LetIn, Spawned, Running
  <1>8. ASSUME NEW c \in Call, Spawn(c) PROVE BudgetIsExact'
    <2>1. held[c] \in Call /\ pc[c] = "insert" /\ Goto(c, "running")
          /\ held' = held
      BY <1>8 DEF Spawn, Holds, TypeOK, Counted, Admitted
    <2>0. /\ pc[c] \notin Spawned /\ pc[c] \notin Running
          /\ "running" \in Spawned /\ "running" \in Running
      BY <2>1 DEF Spawned, Running
    <2> SUFFICES ASSUME NEW o \in Call
                 PROVE  /\ budget'[o].hops = Cardinality(holders(o, Spawned))'
                        /\ budget'[o].inFlight = Cardinality(holders(o, Running))'
      BY DEF BudgetIsExact
    <2>2. CASE o # held[c]
      <3>1. /\ holders(o, Spawned)' = holders(o, Spawned)
            /\ holders(o, Running)' = holders(o, Running)
        BY <2>1, <2>2, Moving
      <3> QED BY <1>8, <2>1, <2>2, <3>1, SpawnBudget DEF BudgetIsExact
    <2>3. CASE o = held[c]
      <3>1. Cardinality(holders(o, Spawned))' = Cardinality(holders(o, Spawned)) + 1
        BY <2>0, <2>1, <2>3, Moving
      <3>2. Cardinality(holders(o, Running))' = Cardinality(holders(o, Running)) + 1
        BY <2>0, <2>1, <2>3, Moving
      <3> QED BY <1>8, <2>1, <2>3, <3>1, <3>2, SpawnBudget DEF BudgetIsExact
    <2> QED BY <2>2, <2>3
  <1>9. ASSUME NEW c \in Call, NEW n \in Nat, AddDelegatedTokens(c, n)
        PROVE  BudgetIsExact'
    <2>1. /\ pc[c] = "running" /\ Goto(c, "billing") /\ held' = held
      BY <1>9 DEF AddDelegatedTokens
    <2>0. /\ pc[c] \in Spawned /\ pc[c] \in Running
          /\ "billing" \in Spawned /\ "billing" \in Running
      BY <2>1 DEF Spawned, Running
    <2>2. \A o \in Call : /\ holders(o, Spawned)' = holders(o, Spawned)
                          /\ holders(o, Running)' = holders(o, Running)
      BY <2>0, <2>1, Moving
    <2> QED BY <1>9, <2>2, TokensBudget DEF BudgetIsExact
  <1>10. ASSUME NEW c \in Call, Leave(c) PROVE BudgetIsExact'
    <2>1. held[c] \in Call /\ pc[c] \in Running /\ Goto(c, "record")
          /\ held' = held /\ budget' = leave(c)
      BY <1>10 DEF Leave, Holds, TypeOK, Counted, Admitted, Spawned
    <2>0. /\ pc[c] \in Spawned
          /\ "record" \in Spawned /\ "record" \notin Running
      BY <2>1 DEF Spawned, Running
    <2> SUFFICES ASSUME NEW o \in Call
                 PROVE  /\ budget'[o].hops = Cardinality(holders(o, Spawned))'
                        /\ budget'[o].inFlight = Cardinality(holders(o, Running))'
      BY DEF BudgetIsExact
    <2>2. holders(o, Spawned)' = holders(o, Spawned)
      BY <2>0, <2>1, Moving
    <2>3. CASE o # held[c]
      <3>1. holders(o, Running)' = holders(o, Running)
        BY <2>1, <2>3, Moving
      <3> QED BY <2>1, <2>2, <2>3, <3>1, LeaveBudget DEF BudgetIsExact
    <2>4. CASE o = held[c]
      <3>1. Cardinality(holders(o, Running))' = Cardinality(holders(o, Running)) - 1
        BY <2>0, <2>1, <2>4, Moving
      <3> QED BY <2>1, <2>2, <2>4, <3>1, LeaveBudget DEF BudgetIsExact
    <2> QED BY <2>3, <2>4
  <1>11. ASSUME UNCHANGED <<pc, held, budget>> PROVE BudgetIsExact'
    BY <1>11, <1>5
  <1> QED BY <1>2, <1>3, <1>4, <1>6, <1>7, <1>8, <1>9, <1>10, <1>11, StepKinds
          DEF WindowElapses, Sweep

(* Less than what fits fits.                                               *)
LEMMA Fewer ==
  ASSUME ConstantsOK, NEW l \in Nat, NEW m \in Nat, NEW n \in Nat,
         m <= n, UpTo(l, n)
  PROVE  UpTo(l, m)
  BY DEF UpTo, ConstantsOK

(* A call that finds a free place and those let through before it are      *)
(* calls of one root.                                                      *)
LEMMA LetInFits ==
  ASSUME ConstantsOK, Inv, NEW c \in Call, pc[c] = "limits"
  PROVE  Cardinality(holders(held[c], Admitted)) + 1 <= FanOut
  <1> TypeOK /\ Holds /\ Entries BY DEF Inv
  <1> DEFINE o == held[c]
             r == job[c].root
             S == holders(o, Admitted)
  <1>1. r \in Root /\ o \in Call
    BY DEF Holds, TypeOK, Job
  <1>2. \A d \in Call : held[d] = o /\ pc[d] \in {"limits", "insert"}
                        => job[d].root = job[o].root
    <2> SUFFICES ASSUME NEW d \in Call, held[d] = o,
                        pc[d] \in {"limits", "insert"}
                 PROVE  job[d].root = job[o].root
      OBVIOUS
    <2>1. job[d].root \in Root BY DEF TypeOK, Job
    <2>2. entry[job[d].root] = o BY DEF Holds
    <2>3. o # NoCall BY <1>1 DEF ConstantsOK
    <2> QED BY <2>1, <2>2, <2>3 DEF Entries
  <1>3. S \cup {c} \subseteq starting(r)
    BY <1>2 DEF holders, starting, Starting, Admitted
  <1>4. Cardinality(S \cup {c}) <= FanOut BY <1>1, <1>3, AdmittedFit
  <1>5. S \subseteq Call /\ c \notin S BY DEF holders, Admitted
  <1>6. IsFiniteSet(S) BY <1>5, Countable
  <1>7. Cardinality(S \cup {c}) = Cardinality(S) + 1
    BY <1>5, <1>6, FS_AddElement
  <1> QED BY <1>4, <1>7

(* Every step keeps the bound: a place is taken when the call is let       *)
(* through, and Spawn only moves it to the counters.                       *)
LEMMA BoundedStep ==
  ASSUME ConstantsOK, Inv, Next
  PROVE  Bounded'
  <1> TypeOK /\ Holds /\ Known /\ BudgetIsExact /\ Bounded BY DEF Inv
  <1> DEFINE A(o) == Cardinality(holders(o, Admitted))
  <1>0. \A o \in Call : A(o) \in Nat
    <2>1. \A o : holders(o, Admitted) \subseteq Call BY DEF holders
    <2> QED BY <2>1, Countable
  <1>1. ASSUME \A o \in Call :
                 /\ budget'[o].limits = budget[o].limits
                 /\ A(o)' \in Nat
                 /\ budget'[o].hops \in Nat /\ budget'[o].inFlight \in Nat
                 /\ budget'[o].hops + A(o)' <= budget[o].hops + A(o)
                 /\ budget'[o].inFlight + A(o)' <= budget[o].inFlight + A(o)
        PROVE  Bounded'
    <2> SUFFICES ASSUME NEW o \in Call
                 PROVE  /\ UpTo(budget'[o].limits.hops, budget'[o].hops + A(o)')
                        /\ UpTo(budget'[o].limits.conc, budget'[o].inFlight + A(o)')
      BY DEF Bounded, UpTo
    <2>1. /\ UpTo(budget[o].limits.hops, budget[o].hops + A(o))
          /\ UpTo(budget[o].limits.conc, budget[o].inFlight + A(o))
      BY DEF Bounded
    <2>2. /\ budget[o].limits.hops \in Nat /\ budget[o].limits.conc \in Nat
          /\ budget[o].hops + A(o) \in Nat /\ budget[o].inFlight + A(o) \in Nat
      BY <1>0, Numbers
    <2>3. budget'[o].hops + A(o)' \in Nat /\ budget'[o].inFlight + A(o)' \in Nat
      BY <1>1
    <2> HIDE DEF A
    <2> QED BY <1>1, <2>1, <2>2, <2>3, Fewer
  <1>2. ASSUME NEW c \in Call, NEW place, Goto(c, place), held' = held,
               place # "insert"
        PROVE  \A o \in Call : A(o)' \in Nat /\ A(o)' <= A(o)
    <2> SUFFICES ASSUME NEW o \in Call PROVE A(o)' \in Nat /\ A(o)' <= A(o)
      OBVIOUS
    <2>0. place \notin Admitted BY <1>2 DEF Admitted
    <2>1. A(o)' \in Nat BY <1>2, Moving
    <2>2. CASE held[c] # o \/ pc[c] # "insert"
      <3>1. holders(o, Admitted)' = holders(o, Admitted)
        <4>1. CASE held[c] # o
          BY <1>2, <4>1, Moving
        <4>2. CASE pc[c] \notin Admitted
          BY <1>2, <2>0, <4>2, Moving
        <4> QED BY <2>2, <4>1, <4>2 DEF Admitted
      <3> QED BY <1>0, <3>1
    <2>3. CASE held[c] = o /\ pc[c] = "insert"
      <3>1. A(o)' = A(o) - 1
        <4>1. pc[c] \in Admitted BY <2>3 DEF Admitted
        <4> QED BY <1>2, <2>0, <2>3, <4>1, Moving
      <3> QED BY <1>0, <2>1, <3>1
    <2> QED BY <2>1, <2>2, <2>3
  <1>3. ASSUME NEW c \in Call, NEW place, Goto(c, place), UNCHANGED <<held, budget>>,
               place # "insert"
        PROVE  Bounded'
    <2>1. \A o \in Call : A(o)' \in Nat /\ A(o)' <= A(o) BY <1>2, <1>3
    <2> HIDE DEF A
    <2> QED BY <1>0, <1>1, <1>3, <2>1, Numbers
  <1>4. ASSUME UNCHANGED <<pc, held, budget>> PROVE Bounded'
    BY <1>4 DEF Bounded, holders
  <1>5. ASSUME NEW c \in Call, NEW j \in offered,
               NEW first \in {"policy", "profile"}, Delegate(c, j, first)
        PROVE  Bounded'
    <2>1. PICK place \in {"policy", "profile", "refused"} : Goto(c, place)
      BY <1>5 DEF Delegate
    <2> QED BY <1>3, <1>5, <2>1 DEF Delegate
  <1>6. ASSUME NEW c \in Call, Quiet(c) PROVE Bounded'
    <2>1. PICK place : Goto(c, place) /\ place # "insert"
      BY <1>6 DEF Quiet, Spawned, Running
    <2> QED BY <1>3, <1>6, <2>1 DEF Quiet
  <1>7. ASSUME NEW c \in Call, GetRootBudget(c) PROVE Bounded'
    <2>1. \A o \in Call : holders(o, Admitted)' = holders(o, Admitted)
      BY <1>7, LookupCountsNobody DEF Counted, Admitted
    <2>2. budget' = budget BY <1>7 DEF GetRootBudget
    <2> QED BY <2>1, <2>2 DEF Bounded
  <1>8. ASSUME NEW p \in Call, LimitsArrive(p) \/ LimitsFail(p) PROVE Bounded'
    <2>1. held[p] = p /\ budget[p].lookup = "asked" /\ UNCHANGED <<pc, held>>
      BY <1>8 DEF LimitsArrive, LimitsFail
    <2>2. \A o \in Call : holders(o, Admitted)' = holders(o, Admitted)
      BY <2>1 DEF holders
    <2>3. A(p) = 0 /\ budget[p].hops = 0 /\ budget[p].inFlight = 0
      <3>1. \A d \in Call : held[d] = p => pc[d] \notin Counted
        BY <2>1 DEF Known
      <3>2. holders(p, Admitted) = {} BY <3>1 DEF holders, Counted, Admitted
      <3>3. holders(p, Spawned) = {} /\ holders(p, Running) = {}
        BY <3>1 DEF holders, Counted, Admitted, Spawned
      <3>4. Cardinality({}) = 0 BY FS_EmptySet
      <3> QED BY <3>2, <3>3, <3>4 DEF BudgetIsExact
    <2> SUFFICES ASSUME NEW o \in Call
                 PROVE  /\ UpTo(budget'[o].limits.hops, budget'[o].hops + A(o)')
                        /\ UpTo(budget'[o].limits.conc, budget'[o].inFlight + A(o)')
      BY DEF Bounded, UpTo
    <2>4. CASE o # p
      <3>1. budget'[o] = budget[o] BY <1>8, <2>4, LookupBudget
      <3> QED BY <2>2, <3>1 DEF Bounded
    <2>5. CASE o = p
      <3>1. budget'[o].hops = 0 /\ budget'[o].inFlight = 0
        BY <1>8, <2>3, <2>5, LookupBudget
      <3>2. A(o)' = 0 BY <2>2, <2>3, <2>5
      <3>3. budget'[o].limits.hops \in Nat /\ budget'[o].limits.conc \in Nat
        BY TypeStep DEF TypeOK, Budget
      <3> HIDE DEF A
      <3> QED BY <3>1, <3>2, <3>3 DEF UpTo, ConstantsOK
    <2> QED BY <2>4, <2>5
  <1>9. ASSUME NEW c \in Call, LetIn(c) PROVE Bounded'
    <2>1. held[c] \in Call /\ pc[c] = "limits" /\ Goto(c, "insert")
          /\ UNCHANGED <<held, budget>> /\ ~spent(budget[held[c]])
      BY <1>9 DEF LetIn, Holds, TypeOK
    <2> SUFFICES ASSUME NEW o \in Call
                 PROVE  /\ UpTo(budget[o].limits.hops, budget[o].hops + A(o)')
                        /\ UpTo(budget[o].limits.conc, budget[o].inFlight + A(o)')
      BY <2>1 DEF Bounded, UpTo
    <2>2. CASE o # held[c]
      <3>1. holders(o, Admitted)' = holders(o, Admitted)
        BY <2>1, <2>2, Moving
      <3> QED BY <3>1 DEF Bounded
    <2>3. CASE o = held[c]
      <3>1. A(o)' = A(o) + 1
        <4>1. pc[c] \notin Admitted /\ "insert" \in Admitted
          BY <2>1 DEF Admitted
        <4> QED BY <2>1, <2>3, <4>1, Moving
      <3>2. A(o) + 1 <= FanOut BY <2>1, <2>3, LetInFits
      <3>3. /\ budget[o].limits.hops > 0
                 => budget[o].hops <= budget[o].limits.hops - 1
            /\ budget[o].limits.conc > 0
                 => budget[o].inFlight <= budget[o].limits.conc - 1
        BY <2>1, <2>3, Numbers DEF spent, reached
      <3> HIDE DEF A
      <3> QED BY <1>0, <3>1, <3>2, <3>3, Numbers DEF UpTo, ConstantsOK
    <2> QED BY <2>2, <2>3
  <1>10. ASSUME NEW c \in Call, Spawn(c) PROVE Bounded'
    <2>1. held[c] \in Call /\ pc[c] = "insert" /\ Goto(c, "running")
          /\ held' = held
      BY <1>10 DEF Spawn, Holds, TypeOK, Counted, Admitted
    <2>2. \A o \in Call : A(o)' \in Nat /\ A(o)' <= A(o) BY <1>2, <2>1
    <2>3. A(held[c])' = A(held[c]) - 1
      <3>1. pc[c] \in Admitted /\ "running" \notin Admitted
        BY <2>1 DEF Admitted
      <3> QED BY <2>1, <3>1, Moving
    <2> HIDE DEF A
    <2> QED BY <1>0, <1>1, <1>10, <2>1, <2>2, <2>3, SpawnBudget, Numbers
  <1>11. ASSUME NEW c \in Call, NEW n \in Nat, AddDelegatedTokens(c, n)
         PROVE  Bounded'
    <2>1. Goto(c, "billing") /\ held' = held BY <1>11 DEF AddDelegatedTokens
    <2>2. \A o \in Call : A(o)' \in Nat /\ A(o)' <= A(o) BY <1>2, <2>1
    <2> HIDE DEF A
    <2> QED BY <1>0, <1>1, <1>11, <2>2, TokensBudget, Numbers
  <1>12. ASSUME NEW c \in Call, Leave(c) PROVE Bounded'
    <2>1. held[c] \in Call /\ budget[held[c]].inFlight - 1 \in Nat
      BY <1>12, PlaceTaken DEF Leave
    <2>2. Goto(c, "record") /\ held' = held /\ budget' = leave(c)
      BY <1>12 DEF Leave
    <2>3. \A o \in Call : A(o)' \in Nat /\ A(o)' <= A(o) BY <1>2, <2>2
    <2> HIDE DEF A
    <2> QED BY <1>0, <1>1, <2>1, <2>2, <2>3, LeaveBudget, Numbers
  <1> QED BY <1>4, <1>5, <1>6, <1>7, <1>8, <1>9, <1>10, <1>11, <1>12,
             StepKinds DEF WindowElapses, Sweep

(* Every step leaves at most FanOut calls of a root on their way.          *)
LEMMA RoomStep ==
  ASSUME ConstantsOK, Inv, Next
  PROVE  Room'
  <1> TypeOK /\ Holds /\ Room BY DEF Inv
  <1> DEFINE T(q) == {d \in Call : pc'[d] \in Starting /\ job'[d].root = q}
  <1>0. \A q : T(q) = starting(q)' BY DEF starting
  <1>1. ASSUME \A q \in Root : starting(q)' \subseteq starting(q)
        PROVE  Room'
    <2> SUFFICES ASSUME NEW q \in Root PROVE Cardinality(T(q)) <= FanOut
      BY <1>0 DEF Room
    <2>1. T(q) \subseteq starting(q) BY <1>0, <1>1
    <2> QED BY <2>1, AdmittedFit
  <1>2. ASSUME NEW c \in Call, NEW place, Goto(c, place), job' = job,
               pc[c] \in Starting \/ place \notin Starting
        PROVE  Room'
    <2>1. \A d \in Call : pc'[d] = IF d = c THEN place ELSE pc[d]
      BY <1>2, Places
    <2> QED BY <1>1, <1>2, <2>1 DEF starting
  <1>3. ASSUME UNCHANGED <<pc, job>> PROVE Room'
    BY <1>1, <1>3 DEF starting
  <1>4. ASSUME NEW c \in Call, NEW j \in offered,
               NEW first \in {"policy", "profile"}, Delegate(c, j, first)
        PROVE  Room'
    <2>1. PICK place \in {"policy", "profile", "refused"} : Goto(c, place)
      BY <1>4 DEF Delegate
    <2>2. \A d \in Call : pc'[d] = IF d = c THEN place ELSE pc[d]
      BY <2>1, Places
    <2>3. \A d \in Call : job'[d] = IF d = c THEN j ELSE job[d]
      BY <1>4 DEF Delegate, TypeOK
    <2>4. \A q \in Root : c \notin starting(q) /\ starting(q) \subseteq Call
      BY <1>4 DEF Delegate, starting, Starting
    <2> SUFFICES ASSUME NEW q \in Root PROVE Cardinality(T(q)) <= FanOut
      BY <1>0 DEF Room
    <2>5. CASE q # j.root
      <3>1. T(q) \subseteq starting(q) BY <2>2, <2>3, <2>5 DEF starting
      <3> QED BY <3>1, AdmittedFit
    <2>6. CASE q = j.root
      <3>1. T(q) \subseteq starting(q) \cup {c} BY <2>2, <2>3 DEF starting
      <3>2. IsFiniteSet(starting(q)) /\ Cardinality(starting(q)) \in Nat
        BY <2>4, Countable
      <3>3. /\ IsFiniteSet(starting(q) \cup {c})
            /\ Cardinality(starting(q) \cup {c}) = Cardinality(starting(q)) + 1
        BY <2>4, <3>2, FS_AddElement
      <3>4. Cardinality(starting(q)) < FanOut BY <1>4, <2>6 DEF Delegate
      <3> DEFINE U == starting(q) \cup {c}
      <3>5. Cardinality(T(q)) <= Cardinality(U) /\ Cardinality(T(q)) \in Nat
        <4>1. IsFiniteSet(U) /\ T(q) \subseteq U BY <3>1, <3>3
        <4> HIDE DEF T, U
        <4>2. IsFiniteSet(T(q)) /\ Cardinality(T(q)) <= Cardinality(U)
          BY <4>1, FS_Subset
        <4> QED BY <4>2, FS_CardinalityType
      <3>6. FanOut \in Nat BY DEF ConstantsOK
      <3> HIDE DEF T
      <3> QED BY <3>2, <3>3, <3>4, <3>5, <3>6
    <2> QED BY <2>5, <2>6
  <1>5. ASSUME NEW c \in Call, Quiet(c) PROVE Room'
    <2>1. PICK place : /\ Goto(c, place)
                       /\ pc[c] \in Starting \/ place \notin Starting
      BY <1>5 DEF Quiet, Starting, Spawned, Running
    <2> QED BY <1>2, <1>5, <2>1 DEF Quiet
  <1>6. ASSUME NEW c \in Call, GetRootBudget(c) PROVE Room'
    BY <1>2, <1>6 DEF GetRootBudget, Starting
  <1>7. ASSUME NEW c \in Call, LetIn(c) PROVE Room'
    BY <1>2, <1>7 DEF LetIn, Starting
  <1>8. ASSUME NEW c \in Call, Spawn(c) PROVE Room'
    BY <1>2, <1>8 DEF Spawn, Starting
  <1>9. ASSUME NEW c \in Call, NEW n \in Nat, AddDelegatedTokens(c, n)
        PROVE  Room'
    BY <1>2, <1>9 DEF AddDelegatedTokens, Starting
  <1>10. ASSUME NEW c \in Call, Leave(c) PROVE Room'
    BY <1>2, <1>10 DEF Leave, Starting
  <1>11. ASSUME NEW c \in Call, LimitsArrive(c) \/ LimitsFail(c) PROVE Room'
    BY <1>3, <1>11 DEF LimitsArrive, LimitsFail
  <1>12. ASSUME \/ \E v \in Conversation : WindowElapses(v)
                \/ \E r \in Root : Sweep(r)
         PROVE  Room'
    BY <1>3, <1>12 DEF WindowElapses, Sweep
  <1> QED BY <1>4, <1>5, <1>6, <1>7, <1>8, <1>9, <1>10, <1>11, <1>12, StepKinds

-----------------------------------------------------------------------------
(* The invariant: it holds at first and every step keeps it.               *)
LEMMA Invariance == Spec => []Inv
  <1> USE ConstantsOK
  <1>1. Init => Inv BY InitInv
  <1>2. Inv /\ [Next]_vars => Inv'
    <2> SUFFICES ASSUME Inv, [Next]_vars PROVE Inv' OBVIOUS
    <2>1. CASE Next
      <3>1. TypeOK' BY <2>1, TypeStep
      <3>2. Holds' /\ Entries' BY <2>1, HoldsStep, EntriesStep
      <3>3. Known' BY <2>1, KnownStep
      <3>4. BudgetIsExact' BY <2>1, ExactStep
      <3>5. Bounded' /\ Room' BY <2>1, BoundedStep, RoomStep
      <3> QED BY <3>1, <3>2, <3>3, <3>4, <3>5 DEF Inv
    <2>2. CASE UNCHANGED vars
      <3> USE <2>2 DEF vars
      <3>1. TypeOK' BY DEF Inv, TypeOK
      <3>2. Holds' BY DEF Inv, Holds
      <3>3. Entries' BY DEF Inv, Entries
      <3>4. Known' BY DEF Inv, Known
      <3>5. BudgetIsExact' BY DEF Inv, BudgetIsExact, holders
      <3>6. Bounded' BY DEF Inv, Bounded, holders
      <3>7. Room' BY DEF Inv, Room, starting
      <3> QED BY <3>1, <3>2, <3>3, <3>4, <3>5, <3>6, <3>7 DEF Inv
    <2> QED BY <2>1, <2>2
  <1> QED BY <1>1, <1>2, PTL DEF Spec

(* Every variable keeps its type: no counter goes below zero, no window    *)
(* above MAX_DELEGATIONS_PER_WINDOW.                                       *)
THEOREM TypeCorrect == Spec => []TypeOK
  <1> USE ConstantsOK
  <1>1. Inv => TypeOK BY DEF Inv
  <1> QED BY <1>1, Invariance, PTL

(* The counters of a budget are what they count, for any tree of calls,    *)
(* any failures and any sweeps.                                            *)
THEOREM CountersAreExact == Spec => []BudgetIsExact
  <1> USE ConstantsOK
  <1>1. Inv => BudgetIsExact BY DEF Inv
  <1> QED BY <1>1, Invariance, PTL

(* Racers of one root share one budget (get-or-create without an await).   *)
THEOREM RacersShareABudget == Spec => []OneBudgetPerRoot
  <1> USE ConstantsOK
  <1>1. Inv => OneBudgetPerRoot
    <2> SUFFICES ASSUME Holds PROVE OneBudgetPerRoot BY DEF Inv
    <2> QED BY DEF Holds, OneBudgetPerRoot
  <1> QED BY <1>1, Invariance, PTL

(* All that are let through were checked against their budget's limits.    *)
THEOREM RacersShareLimits == Spec => []SameLimits
  <1> USE ConstantsOK
  <1>1. Inv => SameLimits
    <2> SUFFICES ASSUME TypeOK, Holds, Known, NEW c \in Call,
                        pc[c] \in {"insert"} \cup Spawned
                 PROVE  budget[held[c]].limits = Caps[job[held[c]].src]
      BY DEF Inv, SameLimits
    <2>1. pc[c] \in Counted BY DEF Counted, Admitted
    <2>2. held[c] \in Call BY <2>1 DEF Holds, TypeOK
    <2> QED BY <2>1, <2>2 DEF Known
  <1> QED BY <1>1, Invariance, PTL

(* The caps are exceeded by the width of a fan-out at most.                *)
THEOREM CapsAreBounded == Spec => []CapsUpToFanOut
  <1> USE ConstantsOK
  <1>1. ConstantsOK /\ Inv => CapsUpToFanOut
    <2> SUFFICES ASSUME Inv, NEW o \in Call
                 PROVE  /\ UpTo(budget[o].limits.hops, budget[o].hops)
                        /\ UpTo(budget[o].limits.conc, budget[o].inFlight)
      BY DEF CapsUpToFanOut
    <2> DEFINE n == Cardinality(holders(o, Admitted))
    <2>1. n \in Nat
      <3>1. holders(o, Admitted) \subseteq Call BY DEF holders
      <3> QED BY <3>1, Countable
    <2>2. /\ UpTo(budget[o].limits.hops, budget[o].hops + n)
          /\ UpTo(budget[o].limits.conc, budget[o].inFlight + n)
      BY DEF Inv, Bounded
    <2>3. TypeOK BY DEF Inv
    <2> HIDE DEF n
    <2> QED BY <2>1, <2>2, <2>3, Numbers, Fewer
  <1> QED BY <1>1, Invariance, PTL
-----------------------------------------------------------------------------
(* What a tree of calls looks like, and what its rows say.                 *)

(* A sub-run's delegations stand on a turn that was started, pass its root *)
(* on, and start from the agent it handed its task to.                     *)
Lineage == \A c \in Call :
  LET up == job[c].up
  IN pc[c] # "idle" /\ up # NoCall =>
       /\ pc[up] \in Spawned
       /\ job[up].root = job[c].root
       /\ job[up].dst = job[c].src

(* A sub-run is always counted on a budget its own root's calls created:   *)
(* no conversation pays for another's delegations (agent-delegation.ts     *)
(* 55-60 and 213-214), whatever is swept in between.                       *)
NobodyPaysForAnother == \A c \in Call :
  held[c] # NoCall => job[held[c]].root = job[c].root

(* As long as nothing fails, a delegation is under way only while the turn *)
(* that asked for it is running: only a broken turn leaves sub-runs that   *)
(* nobody waits for.                                                       *)
OnlyFaultsOrphan ==
  faults = 0 =>
    \A c \in Call : pc[c] \notin Ended \cup {"idle"} /\ job[c].up # NoCall
                      => pc[job[c].up] = "running"

(* The row of a call in agent_delegations tells its fate; it says          *)
(* "running" for ever exactly when both attempts to close it failed        *)
(* (agent-delegation.ts 248-281).                                          *)
RowsTellTheFate == \A c \in Call :
  row[c] = CASE pc[c] \in {"completed", "failed"} -> pc[c]
             [] pc[c] \in Spawned \ {"completed", "failed"} -> "running"
             [] OTHER -> "none"

(* All of it.                                                              *)
Tree == Lineage /\ NobodyPaysForAnother /\ OnlyFaultsOrphan /\ RowsTellTheFate

(* What a row says of a call at a place.                                   *)
Tells(place, status) ==
  status = CASE place \in {"completed", "failed"} -> place
             [] place \in Spawned \ {"completed", "failed"} -> "running"
             [] OTHER -> "none"

(* A call goes on: it has begun, it has not ended, and what was started    *)
(* stays started.                                                          *)
Moves(c) == \E place \in Starting \cup Spawned \cup Ended :
  /\ Goto(c, place)
  /\ job' = job
  /\ pc[c] \notin Ended \cup {"idle"}
  /\ pc[c] \in Spawned => place \in Spawned
  /\ pc[c] = "running" => active(c) = {} \/ faults' # 0
  /\ faults' = 0 => faults = 0
  /\ \A d \in Call : row'[d] = row[d] \/ d = c
  /\ Tells(pc[c], row[c]) => Tells(place, row'[c])

(* So do all the handlers of a call after its first.                       *)
LEMMA EachMoves ==
  ASSUME ConstantsOK, TypeOK, NEW c \in Call
  PROVE  /\ CheckPolicy(c) => Moves(c)
         /\ TooDeep(c) => Moves(c)
         /\ GetRootBudget(c) => Moves(c)
         /\ Admit(c) => Moves(c)
         /\ Spawn(c) => Moves(c)
         /\ \A n : AddDelegatedTokens(c, n) => Moves(c)
         /\ TurnEnds(c) => Moves(c)
         /\ TurnBreaks(c) => Moves(c)
         /\ RecordCompleted(c) => Moves(c)
         /\ RecordFailed(c) => Moves(c)
         /\ QueryFails(c) => Moves(c)
  <1> USE DEF Starting, Spawned, Running, Ended
  <1> DEFINE Kept == row' = row
             Steady == faults' = faults
             Failing == faults' = faults + 1
  <1>1. ASSUME NEW place \in Starting \cup Spawned \cup Ended,
               Goto(c, place), job' = job, Kept, Steady \/ Failing,
               \/ pc[c] \in Starting /\ place \notin Spawned
               \/ /\ pc[c] = "running" /\ place \in {"billing", "record"}
                  /\ active(c) = {} \/ Failing
               \/ pc[c] = "billing" /\ place = "record"
               \/ pc[c] = "record" /\ place = "rescue"
               \/ pc[c] = "rescue" /\ place = "lost"
        PROVE  Moves(c)
    <2>1. faults \in Nat BY DEF TypeOK, ConstantsOK
    <2>2. Tells(pc[c], row[c]) => Tells(place, row'[c]) BY <1>1 DEF Tells
    <2> QED BY <1>1, <2>1, <2>2 DEF Moves
  <1>2. ASSUME NEW place \in {"running", "completed", "failed"},
               Goto(c, place), job' = job, row' = [row EXCEPT ![c] = place],
               Steady,
               \/ pc[c] = "insert" /\ place = "running"
               \/ pc[c] = "record" /\ place = "completed"
               \/ pc[c] = "rescue" /\ place = "failed"
        PROVE  Moves(c)
    <2>1. Tells(place, row'[c]) BY <1>2 DEF Tells, TypeOK
    <2>2. \A d \in Call : row'[d] = row[d] \/ d = c BY <1>2 DEF TypeOK
    <2> QED BY <1>2, <2>1, <2>2 DEF Moves
  <1>3. CheckPolicy(c) => Moves(c) BY <1>1 DEF CheckPolicy
  <1>4. TooDeep(c) => Moves(c) BY <1>1 DEF TooDeep
  <1>5. GetRootBudget(c) => Moves(c) BY <1>1 DEF GetRootBudget
  <1>6. Admit(c) => Moves(c) BY <1>1 DEF Admit
  <1>7. Spawn(c) => Moves(c) BY <1>2 DEF Spawn
  <1>8. \A n : AddDelegatedTokens(c, n) => Moves(c)
    BY <1>1 DEF AddDelegatedTokens
  <1>9. TurnEnds(c) => Moves(c) BY <1>1 DEF TurnEnds
  <1>10. TurnBreaks(c) => Moves(c) BY <1>1 DEF TurnBreaks, Fault
  <1>11. RecordCompleted(c) => Moves(c) BY <1>2 DEF RecordCompleted
  <1>12. RecordFailed(c) => Moves(c) BY <1>2 DEF RecordFailed
  <1>13. QueryFails(c) => Moves(c) BY <1>1 DEF QueryFails, Fault
  <1> QED BY <1>3, <1>4, <1>5, <1>6, <1>7, <1>8, <1>9, <1>10, <1>11, <1>12,
             <1>13

(* Every step is a call that begins, one that goes on, or no step of a     *)
(* call at all.                                                            *)
LEMMA BeginOrMove ==
  ASSUME ConstantsOK, TypeOK, Next
  PROVE  \/ \E c \in Call, j \in offered, first \in {"policy", "profile"} :
              Delegate(c, j, first)
         \/ \E c \in Call : Moves(c)
         \/ UNCHANGED <<pc, job, row>> /\ (faults' = 0 => faults = 0)
  <1>1. ASSUME NEW c \in Call, LimitsArrive(c)
        PROVE  UNCHANGED <<pc, job, row>> /\ (faults' = 0 => faults = 0)
    BY <1>1 DEF LimitsArrive
  <1>2. ASSUME NEW c \in Call, LimitsFail(c)
        PROVE  UNCHANGED <<pc, job, row>> /\ (faults' = 0 => faults = 0)
    BY <1>2 DEF LimitsFail, Fault, TypeOK, ConstantsOK
  <1>3. ASSUME NEW v \in Conversation, WindowElapses(v)
        PROVE  UNCHANGED <<pc, job, row>> /\ (faults' = 0 => faults = 0)
    BY <1>3 DEF WindowElapses
  <1>4. ASSUME NEW r \in Root, Sweep(r)
        PROVE  UNCHANGED <<pc, job, row>> /\ (faults' = 0 => faults = 0)
    BY <1>4 DEF Sweep
  <1> QED BY <1>1, <1>2, <1>3, <1>4, EachMoves DEF Next

(* What a call is given when it starts: nothing, or a running turn above.  *)
LEMMA OfferedHasParent ==
  ASSUME ConstantsOK, TypeOK, NEW j \in offered, j.up # NoCall
  PROVE  /\ j.up \in Call /\ pc[j.up] = "running"
         /\ j.root = job[j.up].root
         /\ j.src = job[j.up].dst
  <1>1. CASE j \in topLevel BY <1>1 DEF topLevel
  <1>2. CASE j \notin topLevel
    <2>1. PICK p \in Call : pc[p] = "running" /\ j \in nested(p)
      BY <1>2 DEF offered
    <2> QED BY <2>1 DEF nested
  <1> QED BY <1>1, <1>2

(* A call begins under a running turn, and a turn ends after its calls, or *)
(* by a fault.                                                             *)
LEMMA TreeStep ==
  ASSUME ConstantsOK, Inv, Tree, Next
  PROVE  Lineage' /\ OnlyFaultsOrphan' /\ RowsTellTheFate'
  <1> TypeOK BY DEF Inv
  <1> USE DEF Starting, Spawned, Running, Ended
  <1>0. \A d \in Call : job[d].up \in Call \cup {NoCall}
    BY DEF TypeOK, Job
  <1>1. ASSUME NEW c \in Call, NEW j \in offered,
               NEW first \in {"policy", "profile"}, Delegate(c, j, first)
        PROVE  Lineage' /\ OnlyFaultsOrphan' /\ RowsTellTheFate'
    <2>1. PICK place \in {"policy", "profile", "refused"} : Goto(c, place)
      BY <1>1 DEF Delegate
    <2>2. \A d \in Call : pc'[d] = IF d = c THEN place ELSE pc[d]
      BY <2>1, Places
    <2>3. \A d \in Call : job'[d] = IF d = c THEN j ELSE job[d]
      BY <1>1 DEF Delegate, TypeOK
    <2>4. pc[c] = "idle" /\ row' = row /\ faults' = faults
      BY <1>1 DEF Delegate
    <2>5. j.up # NoCall => /\ j.up \in Call /\ pc[j.up] = "running"
                           /\ j.root = job[j.up].root
                           /\ j.src = job[j.up].dst
      BY OfferedHasParent
    <2>6. Lineage' BY <1>0, <2>2, <2>3, <2>4, <2>5 DEF Tree, Lineage
    <2>7. OnlyFaultsOrphan'
      BY <1>0, <2>2, <2>3, <2>4, <2>5 DEF Tree, OnlyFaultsOrphan
    <2>8. RowsTellTheFate' BY <2>2, <2>4 DEF Tree, RowsTellTheFate
    <2> QED BY <2>6, <2>7, <2>8
  <1>2. ASSUME NEW c \in Call, Moves(c)
        PROVE  Lineage' /\ OnlyFaultsOrphan' /\ RowsTellTheFate'
    <2>1. PICK place \in Starting \cup Spawned \cup Ended :
            /\ Goto(c, place)
            /\ job' = job
            /\ pc[c] \notin Ended \cup {"idle"}
            /\ pc[c] \in Spawned => place \in Spawned
            /\ pc[c] = "running" => active(c) = {} \/ faults' # 0
            /\ faults' = 0 => faults = 0
            /\ \A d \in Call : row'[d] = row[d] \/ d = c
            /\ Tells(pc[c], row[c]) => Tells(place, row'[c])
      BY <1>2 DEF Moves
    <2>2. \A d \in Call : pc'[d] = IF d = c THEN place ELSE pc[d]
      BY <2>1, Places
    <2>3. Lineage' BY <1>0, <2>1, <2>2 DEF Tree, Lineage
    <2>4. OnlyFaultsOrphan'
      <3> SUFFICES ASSUME faults' = 0, NEW d \in Call,
                          pc'[d] \notin Ended \cup {"idle"},
                          job'[d].up # NoCall
                   PROVE  pc'[job'[d].up] = "running"
        BY DEF OnlyFaultsOrphan
      <3>1. pc[d] \notin Ended \cup {"idle"} BY <2>1, <2>2
      <3>2. job[d].up \in Call /\ pc[job[d].up] = "running"
        BY <1>0, <2>1, <3>1 DEF Tree, OnlyFaultsOrphan
      <3>3. CASE job[d].up = c
        <4>1. d \in active(c) BY <3>1, <3>3 DEF active
        <4> QED BY <2>1, <3>2, <3>3, <4>1
      <3> QED BY <2>1, <2>2, <3>2, <3>3
    <2>5. RowsTellTheFate'
      <3>1. \A d \in Call : Tells(pc[d], row[d])
        BY DEF Tree, RowsTellTheFate, Tells
      <3>2. \A d \in Call : Tells(pc'[d], row'[d]) BY <2>1, <2>2, <3>1
      <3> QED BY <3>2 DEF RowsTellTheFate, Tells
    <2> QED BY <2>3, <2>4, <2>5
  <1>3. ASSUME UNCHANGED <<pc, job, row>>, faults' = 0 => faults = 0
        PROVE  Lineage' /\ OnlyFaultsOrphan' /\ RowsTellTheFate'
    BY <1>3 DEF Tree, Lineage, OnlyFaultsOrphan, RowsTellTheFate
  <1> QED BY <1>1, <1>2, <1>3, BeginOrMove

(* A budget is taken over from a call of the same root only.               *)
LEMMA PaysStep ==
  ASSUME ConstantsOK, Inv, NobodyPaysForAnother, Next
  PROVE  NobodyPaysForAnother'
  <1> TypeOK /\ Holds /\ Entries BY DEF Inv
  <1>0. \A d \in Call : held[d] \in Call \cup {NoCall} BY DEF TypeOK
  <1>1. ASSUME NEW c \in Call, NEW j \in offered,
               NEW first \in {"policy", "profile"}, Delegate(c, j, first)
        PROVE  NobodyPaysForAnother'
    <2>1. held[c] = NoCall /\ held' = held BY <1>1 DEF Delegate, Holds
    <2>2. \A d \in Call : d # c => job'[d] = job[d]
      BY <1>1 DEF Delegate, TypeOK
    <2>3. \A d \in Call : held[d] # NoCall => held[held[d]] = held[d]
      BY DEF Holds
    <2> QED BY <1>0, <2>1, <2>2, <2>3 DEF NobodyPaysForAnother
  <1>2. ASSUME NEW c \in Call, GetRootBudget(c) PROVE NobodyPaysForAnother'
    <2> DEFINE r == job[c].root
               o == theirBudget(c, r)
    <2>1. r \in Root BY DEF TypeOK, Job
    <2>2. job[o].root = r BY <2>1 DEF theirBudget, Entries
    <2>3. \A d \in Call : held'[d] = IF d = c THEN o ELSE held[d]
      BY <1>2 DEF GetRootBudget, TypeOK
    <2>4. job' = job BY <1>2 DEF GetRootBudget
    <2> QED BY <2>2, <2>3, <2>4 DEF NobodyPaysForAnother
  <1>3. ASSUME UNCHANGED <<job, held>> PROVE NobodyPaysForAnother'
    BY <1>3 DEF NobodyPaysForAnother
  <1>4. ASSUME NEW c \in Call, Quiet(c) \/ LetIn(c) \/ Spawn(c) \/ Leave(c)
        PROVE  UNCHANGED <<job, held>>
    BY <1>4 DEF Quiet, LetIn, Spawn, Leave
  <1>5. ASSUME NEW c \in Call, LimitsArrive(c) \/ LimitsFail(c)
        PROVE  UNCHANGED <<job, held>>
    BY <1>5 DEF LimitsArrive, LimitsFail
  <1>6. ASSUME NEW c \in Call, NEW n \in Nat, AddDelegatedTokens(c, n)
        PROVE  UNCHANGED <<job, held>>
    BY <1>6 DEF AddDelegatedTokens
  <1>7. ASSUME \/ \E v \in Conversation : WindowElapses(v)
               \/ \E r \in Root : Sweep(r)
        PROVE  UNCHANGED <<job, held>>
    BY <1>7 DEF WindowElapses, Sweep
  <1> QED BY <1>1, <1>2, <1>3, <1>4, <1>5, <1>6, <1>7, StepKinds

(* The tree holds in every behaviour.                                      *)
LEMMA TreeInvariance == Spec => []Tree
  <1> USE ConstantsOK
  <1>1. Init => Tree
    <2> SUFFICES ASSUME Init PROVE Tree OBVIOUS
    <2> USE DEF Starting, Spawned, Running, Ended
    <2>1. Lineage BY DEF Init, Lineage
    <2>2. NobodyPaysForAnother BY DEF Init, NobodyPaysForAnother
    <2>3. OnlyFaultsOrphan BY DEF Init, OnlyFaultsOrphan
    <2>4. RowsTellTheFate BY DEF Init, RowsTellTheFate
    <2> QED BY <2>1, <2>2, <2>3, <2>4 DEF Tree
  <1>2. Inv /\ Tree /\ [Next]_vars => Tree'
    <2> SUFFICES ASSUME Inv, Tree, [Next]_vars PROVE Tree' OBVIOUS
    <2>1. CASE Next
      BY <2>1, TreeStep, PaysStep DEF Tree
    <2>2. CASE UNCHANGED vars
      BY <2>2 DEF vars, Tree, Lineage, NobodyPaysForAnother,
                  OnlyFaultsOrphan, RowsTellTheFate
    <2> QED BY <2>1, <2>2
  <1> QED BY <1>1, <1>2, Invariance, PTL DEF Spec

(* No conversation's budget is spent by another's sub-runs.                *)
THEOREM BudgetsStayApart == Spec => []NobodyPaysForAnother
  <1>1. Tree => NobodyPaysForAnother BY DEF Tree
  <1> QED BY <1>1, TreeInvariance, PTL

(* Every sub-run has a turn above it that started, of the same root; while *)
(* nothing fails that turn still waits for it.                             *)
THEOREM OrphansAreFaults == Spec => [](Lineage /\ OnlyFaultsOrphan)
  <1>1. Tree => Lineage /\ OnlyFaultsOrphan BY DEF Tree
  <1> QED BY <1>1, TreeInvariance, PTL

(* agent_delegations tells what became of a call, but for a row that could *)
(* not be closed twice.                                                    *)
THEOREM RowsAreTrue == Spec => []RowsTellTheFate
  <1>1. Tree => RowsTellTheFate BY DEF Tree
  <1> QED BY <1>1, TreeInvariance, PTL
================================================================================

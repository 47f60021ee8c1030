---------------------------- MODULE AdmissionProofs ----------------------------
(***************************************************************************)
(* Theorems about Admission, for any number of updates and of dashboard    *)
(* actions at a time, any number of codes and of faults.                   *)
(***************************************************************************)
EXTENDS Admission, FiniteSetTheorems, TLAPS

(* The notices belong to the rows: one to each that was made, so as many as *)
(* were deleted and one more while there is a row.                         *)
Noticed == NoticeOnce /\ (person = "none" => notices <= deleted)

(* An approval is about a code that was made.                              *)
Chosen == \A a \in Admins :
  /\ at[a] = "code" => choice[a] \in Codes /\ code[choice[a]] # "none"
  /\ at[a] = "entry" => \E k \in Codes : code[k] # "none"

(* A contact that was given a code has an entry, or loses it by the        *)
(* dashboard, or has it coming.                                            *)
Entered ==
  (entry = "none" /\ \E k \in Codes : code[k] # "none") =>
     \/ removed
     \/ faults > 0
     \/ \E u \in Updates : pc[u] \in {"findEntry", "insertEntry"}

Inserting == {u \in Updates : pc[u] = "insert"}

(* The codes there are and the ones about to be made.                      *)
Room == expired = {} => Cardinality(Pending) + Cardinality(Inserting) <= Cardinality(Updates)

-----------------------------------------------------------------------------
(* Types.                                                                  *)

(* The initial values have their types.                                    *)
LEMMA InitTypes == Init => TypeOK
  <1> SUFFICES ASSUME Init PROVE TypeOK OBVIOUS
  <1>1. /\ entry \in {"none", "pending", "approved", "blocked"} /\ removed \in BOOLEAN
        /\ person \in Access \cup {"none"} /\ notices \in Nat
    BY DEF Init
  <1>2. code \in [Codes -> {"none", "pending", "closed"}] /\ expired \subseteq Codes
    BY DEF Init
  <1>3. pc \in [Updates -> Places]
    BY DEF Init, Places
  <1>4. /\ at \in [Admins -> {"idle", "code", "entry", "codes"}]
        /\ choice \in [Admins -> Codes \cup {0}]
    BY DEF Init
  <1>5. faults \in 0 .. MaxFaults
    BY AdmissionConstants DEF AdmissionConstants, Init
  <1>6. /\ deleted \in 0 .. MaxDeletions
        /\ read \in [Updates -> [row : 0 .. MaxDeletions, access : Access \cup {"none"}]]
    BY AdmissionConstants DEF AdmissionConstants, Init, NoRow
  <1> QED BY <1>1, <1>2, <1>3, <1>4, <1>5, <1>6 DEF TypeOK

(* Every step keeps the types.                                             *)
LEMMA NextTypes == ASSUME TypeOK, [Next]_vars PROVE TypeOK'
  <1> USE DEF Fault, NoFault, Goes, Ends, Turns, Returns,
              listVars, peopleVars, adminVars
  <1> USE AdmissionConstants DEF AdmissionConstants
  <1>1. ASSUME NEW u \in Updates, Arrive(u) PROVE TypeOK'
    BY <1>1 DEF Arrive, TypeOK, Places, Access
  <1>2. ASSUME NEW u \in Updates, CheckDmAccess(u) PROVE TypeOK'
    BY <1>2 DEF CheckDmAccess, TypeOK, Places, Access
  <1>3. ASSUME NEW u \in Updates, FindCode(u) PROVE TypeOK'
    BY <1>3 DEF FindCode, TypeOK, Places, Access
  <1>4. ASSUME NEW u \in Updates, InsertCode(u) PROVE TypeOK'
    BY <1>4 DEF InsertCode, Next1, TypeOK, Places, Access
  <1>5. ASSUME NEW u \in Updates, FindEntry(u) PROVE TypeOK'
    BY <1>5 DEF FindEntry, TypeOK, Places, Access
  <1>6. ASSUME NEW u \in Updates, InsertEntry(u) PROVE TypeOK'
    <2> USE <1>6 DEF InsertEntry
    <2>1. pc' \in [Updates -> Places]
      BY DEF TypeOK, Places, Ends
    <2>2. entry' \in {"none", "pending", "approved", "blocked"} /\ removed' \in BOOLEAN
      BY DEF TypeOK
    <2>3. faults' \in 0 .. MaxFaults BY DEF TypeOK, Fault, NoFault
    <2> QED BY <2>1, <2>2, <2>3 DEF TypeOK, peopleVars, adminVars
  <1>7. ASSUME NEW u \in Updates, FindPerson(u) PROVE TypeOK'
    <2> USE <1>7 DEF FindPerson, FailsOpen
    <2>1. read' \in [Updates -> [row : 0 .. MaxDeletions, access : Access \cup {"none"}]]
      BY DEF TypeOK
    <2> QED BY <2>1 DEF TypeOK, Places
  <1>8. ASSUME NEW u \in Updates, TouchPerson(u) PROVE TypeOK'
    <2> USE <1>8 DEF TouchPerson
    <2>1. read' \in [Updates -> [row : 0 .. MaxDeletions, access : Access \cup {"none"}]]
      BY DEF TypeOK, NoRow
    <2>2. pc' \in [Updates -> Places] BY DEF TypeOK, Places, Decide, FailsOpen
    <2>3. notices' \in Nat /\ person' = person /\ faults' \in 0 .. MaxFaults
      BY DEF TypeOK, Decide, FailsOpen
    <2> QED BY <2>1, <2>2, <2>3 DEF TypeOK
  <1>9. ASSUME NEW u \in Updates, CreatePerson(u) PROVE TypeOK'
    BY <1>9 DEF CreatePerson, Decide, TypeOK, Places, Access
  <1>10. ASSUME NEW u \in Updates, RereadPerson(u) PROVE TypeOK'
    BY <1>10 DEF RereadPerson, Decide, FailsOpen, TypeOK, Places, Access
  <1>11. ASSUME NEW u \in Updates, LetIn(u) PROVE TypeOK'
    BY <1>11 DEF LetIn, TypeOK, Places, Access
  <1>12. ASSUME NEW a \in Admins, NEW k \in Codes, ApproveRead(a, k) PROVE TypeOK'
    BY <1>12 DEF ApproveRead, TypeOK, Places, Access
  <1>13. ASSUME NEW a \in Admins, ApproveCode(a) PROVE TypeOK'
    BY <1>13 DEF ApproveCode, TypeOK, Places, Access
  <1>14. ASSUME NEW a \in Admins, ApproveEntry(a) PROVE TypeOK'
    BY <1>14 DEF ApproveEntry, TypeOK, Places, Access
  <1>15. ASSUME NEW a \in Admins, RejectEntry(a) PROVE TypeOK'
    BY <1>15 DEF RejectEntry, Pending, TypeOK, Places, Access
  <1>16. ASSUME NEW a \in Admins, RejectCodes(a) PROVE TypeOK'
    BY <1>16 DEF RejectCodes, TypeOK, Places, Access
  <1>17. ASSUME RemoveEntry PROVE TypeOK'
    BY <1>17 DEF RemoveEntry, TypeOK, Places, Access
  <1>18. ASSUME NEW access \in Access, SetAccess(access) PROVE TypeOK'
    BY <1>18 DEF SetAccess, TypeOK, Places, Access
  <1>19. ASSUME DeletePerson PROVE TypeOK'
    BY <1>19 DEF DeletePerson, TypeOK, Places, Access
  <1>20. ASSUME NEW k \in Codes, Expire(k) PROVE TypeOK'
    BY <1>20 DEF Expire, TypeOK, Places, Access
  <1>21. CASE UNCHANGED vars BY <1>21 DEF vars, TypeOK, Places, Access
  <1>22. ASSUME NEW u \in Updates, Handle(u) PROVE TypeOK'
    BY <1>22, <1>1, <1>2, <1>3, <1>4, <1>5, <1>6, <1>7, <1>8, <1>9, <1>10, <1>11 DEF Handle
  <1>23. ASSUME NEW a \in Admins, Administer(a) PROVE TypeOK'
    BY <1>23, <1>12, <1>13, <1>14, <1>15, <1>16 DEF Administer
  <1> QED BY <1>17, <1>18, <1>19, <1>20, <1>21, <1>22, <1>23 DEF Next

(* Every variable has its type.                                            *)
THEOREM TypeCorrect == Spec => []TypeOK
  <1>1. TypeOK /\ [Next]_vars => TypeOK' BY NextTypes
  <1> QED BY <1>1, InitTypes, PTL DEF Spec

-----------------------------------------------------------------------------
(* The notice.                                                             *)

(* Every step keeps it.                                                    *)
LEMMA NextNoticed == ASSUME TypeOK, Noticed, [Next]_vars PROVE Noticed'
  <1> USE DEF Fault, NoFault, Goes, Ends, Turns, Returns,
              listVars, peopleVars, adminVars
  <1>1. ASSUME NEW u \in Updates, Arrive(u) PROVE Noticed'
    BY <1>1 DEF Arrive, TypeOK, Access, Noticed, NoticeOnce
  <1>2. ASSUME NEW u \in Updates, CheckDmAccess(u) PROVE Noticed'
    BY <1>2 DEF CheckDmAccess, TypeOK, Access, Noticed, NoticeOnce
  <1>3. ASSUME NEW u \in Updates, FindCode(u) PROVE Noticed'
    BY <1>3 DEF FindCode, TypeOK, Access, Noticed, NoticeOnce
  <1>4. ASSUME NEW u \in Updates, InsertCode(u) PROVE Noticed'
    BY <1>4 DEF InsertCode, Next1, TypeOK, Access, Noticed, NoticeOnce
  <1>5. ASSUME NEW u \in Updates, FindEntry(u) PROVE Noticed'
    BY <1>5 DEF FindEntry, TypeOK, Access, Noticed, NoticeOnce
  <1>6. ASSUME NEW u \in Updates, InsertEntry(u) PROVE Noticed'
    BY <1>6 DEF InsertEntry, TypeOK, Access, Noticed, NoticeOnce
  <1>7. ASSUME NEW u \in Updates, FindPerson(u) PROVE Noticed'
    BY <1>7 DEF FindPerson, FailsOpen, TypeOK, Access, Noticed, NoticeOnce
  <1>8. ASSUME NEW u \in Updates, TouchPerson(u) PROVE Noticed'
    BY <1>8 DEF TouchPerson, Decide, FailsOpen, TypeOK, Access, Noticed, NoticeOnce
  <1>9. ASSUME NEW u \in Updates, CreatePerson(u) PROVE Noticed'
    BY <1>9 DEF CreatePerson, Decide, TypeOK, Access, Noticed, NoticeOnce
  <1>10. ASSUME NEW u \in Updates, RereadPerson(u) PROVE Noticed'
    BY <1>10 DEF RereadPerson, Decide, FailsOpen, TypeOK, Access, Noticed, NoticeOnce
  <1>11. ASSUME NEW u \in Updates, LetIn(u) PROVE Noticed'
    BY <1>11 DEF LetIn, TypeOK, Access, Noticed, NoticeOnce
  <1>12. ASSUME NEW a \in Admins, NEW k \in Codes, ApproveRead(a, k) PROVE Noticed'
    BY <1>12 DEF ApproveRead, TypeOK, Access, Noticed, NoticeOnce
  <1>13. ASSUME NEW a \in Admins, ApproveCode(a) PROVE Noticed'
    BY <1>13 DEF ApproveCode, TypeOK, Access, Noticed, NoticeOnce
  <1>14. ASSUME NEW a \in Admins, ApproveEntry(a) PROVE Noticed'
    BY <1>14 DEF ApproveEntry, TypeOK, Access, Noticed, NoticeOnce
  <1>15. ASSUME NEW a \in Admins, RejectEntry(a) PROVE Noticed'
    BY <1>15 DEF RejectEntry, Pending, TypeOK, Access, Noticed, NoticeOnce
  <1>16. ASSUME NEW a \in Admins, RejectCodes(a) PROVE Noticed'
    BY <1>16 DEF RejectCodes, TypeOK, Access, Noticed, NoticeOnce
  <1>17. ASSUME RemoveEntry PROVE Noticed'
    BY <1>17 DEF RemoveEntry, TypeOK, Access, Noticed, NoticeOnce
  <1>18. ASSUME NEW access \in Access, SetAccess(access) PROVE Noticed'
    BY <1>18 DEF SetAccess, TypeOK, Access, Noticed, NoticeOnce
  <1>19. ASSUME DeletePerson PROVE Noticed'
    BY <1>19 DEF DeletePerson, TypeOK, Access, Noticed, NoticeOnce
  <1>20. ASSUME NEW k \in Codes, Expire(k) PROVE Noticed'
    BY <1>20 DEF Expire, TypeOK, Access, Noticed, NoticeOnce
  <1>21. CASE UNCHANGED vars BY <1>21 DEF vars, TypeOK, Access, Noticed, NoticeOnce
  <1>22. ASSUME NEW u \in Updates, Handle(u) PROVE Noticed'
    BY <1>22, <1>1, <1>2, <1>3, <1>4, <1>5, <1>6, <1>7, <1>8, <1>9, <1>10, <1>11 DEF Handle
  <1>23. ASSUME NEW a \in Admins, Administer(a) PROVE Noticed'
    BY <1>23, <1>12, <1>13, <1>14, <1>15, <1>16 DEF Administer
  <1> QED BY <1>17, <1>18, <1>19, <1>20, <1>21, <1>22, <1>23 DEF Next

(* The contact is told once per row of it, however many updates race each  *)
(* other, an edit and a deletion.                                          *)
THEOREM Noticing == Spec => []NoticeOnce
  <1>1. Init => Noticed BY DEF Init, Noticed, NoticeOnce
  <1>2. TypeOK /\ Noticed /\ [Next]_vars => Noticed' BY NextNoticed
  <1>3. Noticed => NoticeOnce BY DEF Noticed
  <1> QED BY <1>1, <1>2, <1>3, TypeCorrect, PTL DEF Spec

-----------------------------------------------------------------------------
(* The approval.                                                           *)

(* A code that was made is never unmade.                                   *)
LEMMA NextChosen == ASSUME TypeOK, Chosen, [Next]_vars PROVE Chosen'
  <1> USE DEF Fault, NoFault, Goes, Ends, Turns, Returns,
              listVars, peopleVars, adminVars
  <1>1. ASSUME NEW u \in Updates, Arrive(u) PROVE Chosen'
    BY <1>1 DEF Arrive, TypeOK, Chosen
  <1>2. ASSUME NEW u \in Updates, CheckDmAccess(u) PROVE Chosen'
    BY <1>2 DEF CheckDmAccess, TypeOK, Chosen
  <1>3. ASSUME NEW u \in Updates, FindCode(u) PROVE Chosen'
    BY <1>3 DEF FindCode, TypeOK, Chosen
  <1>4. ASSUME NEW u \in Updates, InsertCode(u) PROVE Chosen'
    BY <1>4 DEF InsertCode, Next1, TypeOK, Chosen
  <1>5. ASSUME NEW u \in Updates, FindEntry(u) PROVE Chosen'
    BY <1>5 DEF FindEntry, TypeOK, Chosen
  <1>6. ASSUME NEW u \in Updates, InsertEntry(u) PROVE Chosen'
    BY <1>6 DEF InsertEntry, TypeOK, Chosen
  <1>7. ASSUME NEW u \in Updates, FindPerson(u) PROVE Chosen'
    BY <1>7 DEF FindPerson, FailsOpen, TypeOK, Chosen
  <1>8. ASSUME NEW u \in Updates, TouchPerson(u) PROVE Chosen'
    BY <1>8 DEF TouchPerson, Decide, FailsOpen, TypeOK, Chosen
  <1>9. ASSUME NEW u \in Updates, CreatePerson(u) PROVE Chosen'
    BY <1>9 DEF CreatePerson, Decide, TypeOK, Chosen
  <1>10. ASSUME NEW u \in Updates, RereadPerson(u) PROVE Chosen'
    BY <1>10 DEF RereadPerson, Decide, FailsOpen, TypeOK, Chosen
  <1>11. ASSUME NEW u \in Updates, LetIn(u) PROVE Chosen'
    BY <1>11 DEF LetIn, TypeOK, Chosen
  <1>12. ASSUME NEW a \in Admins, NEW k \in Codes, ApproveRead(a, k) PROVE Chosen'
    BY <1>12 DEF ApproveRead, TypeOK, Chosen
  <1>13. ASSUME NEW a \in Admins, ApproveCode(a) PROVE Chosen'
    BY <1>13 DEF ApproveCode, TypeOK, Chosen
  <1>14. ASSUME NEW a \in Admins, ApproveEntry(a) PROVE Chosen'
    BY <1>14 DEF ApproveEntry, TypeOK, Chosen
  <1>15. ASSUME NEW a \in Admins, RejectEntry(a) PROVE Chosen'
    BY <1>15 DEF RejectEntry, Pending, TypeOK, Chosen
  <1>16. ASSUME NEW a \in Admins, RejectCodes(a) PROVE Chosen'
    BY <1>16 DEF RejectCodes, TypeOK, Chosen
  <1>17. ASSUME RemoveEntry PROVE Chosen'
    BY <1>17 DEF RemoveEntry, TypeOK, Chosen
  <1>18. ASSUME NEW access \in Access, SetAccess(access) PROVE Chosen'
    BY <1>18 DEF SetAccess, TypeOK, Chosen
  <1>19. ASSUME DeletePerson PROVE Chosen'
    BY <1>19 DEF DeletePerson, TypeOK, Chosen
  <1>20. ASSUME NEW k \in Codes, Expire(k) PROVE Chosen'
    BY <1>20 DEF Expire, TypeOK, Chosen
  <1>21. CASE UNCHANGED vars BY <1>21 DEF vars, TypeOK, Chosen
  <1>22. ASSUME NEW u \in Updates, Handle(u) PROVE Chosen'
    BY <1>22, <1>1, <1>2, <1>3, <1>4, <1>5, <1>6, <1>7, <1>8, <1>9, <1>10, <1>11 DEF Handle
  <1>23. ASSUME NEW a \in Admins, Administer(a) PROVE Chosen'
    BY <1>23, <1>12, <1>13, <1>14, <1>15, <1>16 DEF Administer
  <1> QED BY <1>17, <1>18, <1>19, <1>20, <1>21, <1>22, <1>23 DEF Next

(* The entry follows the code.                                             *)
LEMMA NextEntered == ASSUME TypeOK, Chosen, Entered, [Next]_vars PROVE Entered'
  <1> USE DEF Fault, NoFault, Goes, Ends, Turns, Returns,
              listVars, peopleVars, adminVars
  <1> USE AdmissionConstants DEF AdmissionConstants
  <1>1. ASSUME NEW u \in Updates, Arrive(u) PROVE Entered'
    BY <1>1 DEF Arrive, TypeOK, Entered
  <1>2. ASSUME NEW u \in Updates, CheckDmAccess(u) PROVE Entered'
    BY <1>2 DEF CheckDmAccess, TypeOK, Entered
  <1>3. ASSUME NEW u \in Updates, FindCode(u) PROVE Entered'
    BY <1>3 DEF FindCode, TypeOK, Entered
  <1>4. ASSUME NEW u \in Updates, InsertCode(u) PROVE Entered'
    BY <1>4 DEF InsertCode, Next1, TypeOK, Entered
  <1>5. ASSUME NEW u \in Updates, FindEntry(u) PROVE Entered'
    BY <1>5 DEF FindEntry, TypeOK, Entered
  <1>6. ASSUME NEW u \in Updates, InsertEntry(u) PROVE Entered'
    BY <1>6 DEF InsertEntry, TypeOK, Entered
  <1>7. ASSUME NEW u \in Updates, FindPerson(u) PROVE Entered'
    BY <1>7 DEF FindPerson, FailsOpen, TypeOK, Entered
  <1>8. ASSUME NEW u \in Updates, TouchPerson(u) PROVE Entered'
    BY <1>8 DEF TouchPerson, Decide, FailsOpen, TypeOK, Entered
  <1>9. ASSUME NEW u \in Updates, CreatePerson(u) PROVE Entered'
    BY <1>9 DEF CreatePerson, Decide, TypeOK, Entered
  <1>10. ASSUME NEW u \in Updates, RereadPerson(u) PROVE Entered'
    BY <1>10 DEF RereadPerson, Decide, FailsOpen, TypeOK, Entered
  <1>11. ASSUME NEW u \in Updates, LetIn(u) PROVE Entered'
    BY <1>11 DEF LetIn, TypeOK, Entered
  <1>12. ASSUME NEW a \in Admins, NEW k \in Codes, ApproveRead(a, k) PROVE Entered'
    BY <1>12 DEF ApproveRead, TypeOK, Entered
  <1>13. ASSUME NEW a \in Admins, ApproveCode(a) PROVE Entered'
    BY <1>13 DEF ApproveCode, TypeOK, Chosen, Entered
  <1>14. ASSUME NEW a \in Admins, ApproveEntry(a) PROVE Entered'
    BY <1>14 DEF ApproveEntry, TypeOK, Entered
  <1>15. ASSUME NEW a \in Admins, RejectEntry(a) PROVE Entered'
    BY <1>15 DEF RejectEntry, Pending, TypeOK, Entered
  <1>16. ASSUME NEW a \in Admins, RejectCodes(a) PROVE Entered'
    BY <1>16 DEF RejectCodes, TypeOK, Entered
  <1>17. ASSUME RemoveEntry PROVE Entered'
    BY <1>17 DEF RemoveEntry, TypeOK, Entered
  <1>18. ASSUME NEW access \in Access, SetAccess(access) PROVE Entered'
    BY <1>18 DEF SetAccess, TypeOK, Entered
  <1>19. ASSUME DeletePerson PROVE Entered'
    BY <1>19 DEF DeletePerson, TypeOK, Entered
  <1>20. ASSUME NEW k \in Codes, Expire(k) PROVE Entered'
    BY <1>20 DEF Expire, TypeOK, Entered
  <1>21. CASE UNCHANGED vars BY <1>21 DEF vars, TypeOK, Entered
  <1>22. ASSUME NEW u \in Updates, Handle(u) PROVE Entered'
    BY <1>22, <1>1, <1>2, <1>3, <1>4, <1>5, <1>6, <1>7, <1>8, <1>9, <1>10, <1>11 DEF Handle
  <1>23. ASSUME NEW a \in Admins, Administer(a) PROVE Entered'
    BY <1>23, <1>12, <1>13, <1>14, <1>15, <1>16 DEF Administer
  <1> QED BY <1>17, <1>18, <1>19, <1>20, <1>21, <1>22, <1>23 DEF Next

(* Only the step that ends an approval ends it, and it finds the entry.    *)
LEMMA NextApproves ==
  ASSUME TypeOK, Chosen, Entered, [Next]_vars, NEW a \in Admins,
         at[a] = "entry", at'[a] = "idle", faults = 0, faults' = 0
  PROVE  \/ entry' = "approved"
         \/ removed
         \/ \E u \in Updates : pc[u] \in {"findEntry", "insertEntry"}
  <1>1. ApproveEntry(a)
    <2>1. at' # at BY DEF TypeOK
    <2>2. PICK b \in Admins : Administer(b)
      <3>1. ASSUME NEW u \in Updates, Handle(u) PROVE at' = at
        BY <3>1 DEF Handle, adminVars, Arrive, CheckDmAccess, FindCode, InsertCode, FindEntry,
                    InsertEntry, FindPerson, TouchPerson, CreatePerson, RereadPerson, LetIn
      <3>2. ASSUME RemoveEntry \/ (\E access \in Access : SetAccess(access))
                   \/ (\E k \in Codes : Expire(k)) \/ DeletePerson \/ UNCHANGED vars
            PROVE  at' = at
        BY <3>2 DEF RemoveEntry, SetAccess, Expire, DeletePerson, vars, adminVars
      <3> QED BY <2>1, <3>1, <3>2 DEF Next
    <2>3. at' = [at EXCEPT ![b] = at'[b]] /\ b = a
      BY <2>2 DEF TypeOK, Administer, ApproveRead, ApproveCode, ApproveEntry, RejectEntry,
                  RejectCodes, Turns, Returns
    <2> QED BY <2>2, <2>3 DEF Administer, ApproveRead, ApproveCode, RejectEntry, RejectCodes
  <1>2. entry' = IF entry = "none" THEN "none" ELSE "approved"
    BY <1>1, AdmissionConstants DEF AdmissionConstants, ApproveEntry, Fault, TypeOK
  <1>3. \E k \in Codes : code[k] # "none" BY DEF Chosen
  <1> QED BY <1>2, <1>3 DEF Entered

(* An approval that goes through lets the contact in.                      *)
THEOREM Approving == Spec => ApprovalTakesEffect
  <1>1. Init => Chosen /\ Entered BY DEF Init, Chosen, Entered
  <1>2. TypeOK /\ Chosen /\ Entered /\ [Next]_vars => Chosen' /\ Entered'
    BY NextChosen, NextEntered
  <1> DEFINE Effect ==
        \A a \in Admins :
          at[a] = "entry" /\ at'[a] = "idle" /\ faults = 0 /\ faults' = 0
             => \/ entry' = "approved"
                \/ removed
                \/ \E u \in Updates : pc[u] \in {"findEntry", "insertEntry"}
  <1>3. TypeOK /\ Chosen /\ Entered /\ [Next]_vars => [Effect]_vars
    BY NextApproves
  <1>4. ApprovalTakesEffect <=> [][Effect]_vars BY DEF ApprovalTakesEffect
  <1> HIDE DEF Effect
  <1> QED BY <1>1, <1>2, <1>3, <1>4, TypeCorrect, PTL DEF Spec

-----------------------------------------------------------------------------
(* The codes.                                                              *)

(* The codes and the updates are finitely many.                            *)
LEMMA Limited ==
  ASSUME NEW P, P \subseteq Codes, NEW I, I \subseteq Updates
  PROVE  /\ IsFiniteSet(P) /\ Cardinality(P) \in Nat
         /\ IsFiniteSet(I) /\ Cardinality(I) \in Nat
         /\ Cardinality(I) <= Cardinality(Updates)
         /\ Cardinality(Updates) \in Nat
  <1>1. IsFiniteSet(Updates) BY AdmissionConstants DEF AdmissionConstants
  <1>2. IsFiniteSet(Codes)
    BY AdmissionConstants, FS_Interval DEF AdmissionConstants, Codes
  <1> QED BY <1>1, <1>2, FS_Subset, FS_CardinalityType

(* So are the ones that Room counts, before a step and after it.           *)
LEMMA Within ==
  /\ Pending \subseteq Codes /\ Inserting \subseteq Updates
  /\ Pending' \subseteq Codes /\ Inserting' \subseteq Updates
  BY DEF Pending, Inserting, Codes

(* Closing codes and leaving the insert make room.                         *)
LEMMA Shrinks ==
  ASSUME Room, Pending' \subseteq Pending, Inserting' \subseteq Inserting,
         expired \subseteq expired'
  PROVE  Room'
  <1>1. /\ Cardinality(Pending') <= Cardinality(Pending)
        /\ Cardinality(Inserting') <= Cardinality(Inserting)
    BY Within, Limited, FS_Subset
  <1>2. /\ Cardinality(Pending) \in Nat /\ Cardinality(Inserting) \in Nat
        /\ Cardinality(Pending') \in Nat /\ Cardinality(Inserting') \in Nat
        /\ Cardinality(Updates) \in Nat
    BY Within, Limited
  <1> QED BY <1>1, <1>2 DEF Room

(* A code takes the room of the update that inserts it.                    *)
LEMMA NextRoom == ASSUME TypeOK, Room, [Next]_vars PROVE Room'
  <1> USE DEF Fault, NoFault, Goes, Ends, Turns, Returns,
              listVars, peopleVars, adminVars
  <1>1. ASSUME NEW u \in Updates, Arrive(u) PROVE Room'
    BY Shrinks, <1>1 DEF Arrive, Pending, Inserting, TypeOK
  <1>2. ASSUME NEW u \in Updates, CheckDmAccess(u) PROVE Room'
    BY Shrinks, <1>2 DEF CheckDmAccess, Pending, Inserting, TypeOK
  <1>3. ASSUME NEW u \in Updates, FindCode(u) PROVE Room'
    <2> USE <1>3 DEF FindCode, Goes, Ends, listVars
    <2>1. CASE pc'[u] # "insert" \/ Pending \cap expired # {}
      <3>1. expired # {} \/ Inserting' \subseteq Inserting BY <2>1 DEF TypeOK, Inserting
      <3> QED BY Shrinks, <3>1 DEF Pending, Room
    <2>2. CASE Pending = {}
      <3>1. Pending' = {} BY <2>2 DEF Pending
      <3>2. Cardinality(Pending') = 0 BY <3>1, FS_EmptySet
      <3>3. /\ Cardinality(Inserting') \in Nat /\ Cardinality(Updates) \in Nat
            /\ Cardinality(Inserting') <= Cardinality(Updates)
        BY Within, Limited
      <3> QED BY <3>2, <3>3 DEF Room
    <2> QED BY <2>1, <2>2 DEF TypeOK
  <1>4. ASSUME NEW u \in Updates, InsertCode(u) PROVE Room'
    <2> USE <1>4 DEF InsertCode, Goes, Ends
    <2>1. Inserting' = Inserting \ {u} /\ u \in Inserting
      BY DEF TypeOK, Inserting
    <2>2. Cardinality(Inserting') = Cardinality(Inserting) - 1
      BY <2>1, Within, Limited, FS_RemoveElement
    <2>3. Pending' = Pending \/ \E k \in Codes : Pending' = Pending \cup {k}
      BY DEF TypeOK, Pending, Next1
    <2>4. Cardinality(Pending') <= Cardinality(Pending) + 1
      <3>1. IsFiniteSet(Pending) /\ Cardinality(Pending) \in Nat
        BY Within, Limited
      <3>2. \A k : Cardinality(Pending \cup {k}) <= Cardinality(Pending) + 1
        <4> TAKE k
        <4>1. Cardinality(Pending \cup {k})
                \in {Cardinality(Pending), Cardinality(Pending) + 1}
          BY <3>1, FS_AddElement
        <4> QED BY <3>1, <4>1
      <3>3. Cardinality(Pending) <= Cardinality(Pending) + 1 BY <3>1
      <3> QED BY <2>3, <3>2, <3>3
    <2>5. /\ Cardinality(Pending) \in Nat /\ Cardinality(Inserting) \in Nat
          /\ Cardinality(Pending') \in Nat /\ Cardinality(Inserting') \in Nat
          /\ Cardinality(Updates) \in Nat
      BY Within, Limited
    <2>6. expired' = expired BY DEF listVars
    <2> QED BY <2>2, <2>4, <2>5, <2>6 DEF Room
  <1>5. ASSUME NEW u \in Updates, FindEntry(u) PROVE Room'
    BY Shrinks, <1>5 DEF FindEntry, Pending, Inserting, TypeOK
  <1>6. ASSUME NEW u \in Updates, InsertEntry(u) PROVE Room'
    BY Shrinks, <1>6 DEF InsertEntry, Pending, Inserting, TypeOK
  <1>7. ASSUME NEW u \in Updates, FindPerson(u) PROVE Room'
    BY Shrinks, <1>7 DEF FindPerson, FailsOpen, Pending, Inserting, TypeOK
  <1>8. ASSUME NEW u \in Updates, TouchPerson(u) PROVE Room'
    BY Shrinks, <1>8 DEF TouchPerson, Decide, FailsOpen, Pending, Inserting, TypeOK
  <1>9. ASSUME NEW u \in Updates, CreatePerson(u) PROVE Room'
    BY Shrinks, <1>9 DEF CreatePerson, Decide, Pending, Inserting, TypeOK
  <1>10. ASSUME NEW u \in Updates, RereadPerson(u) PROVE Room'
    BY Shrinks, <1>10 DEF RereadPerson, Decide, FailsOpen, Pending, Inserting, TypeOK
  <1>11. ASSUME NEW u \in Updates, LetIn(u) PROVE Room'
    BY Shrinks, <1>11 DEF LetIn, Pending, Inserting, TypeOK
  <1>12. ASSUME NEW a \in Admins, NEW k \in Codes, ApproveRead(a, k) PROVE Room'
    BY Shrinks, <1>12 DEF ApproveRead, Pending, Inserting, TypeOK
  <1>13. ASSUME NEW a \in Admins, ApproveCode(a) PROVE Room'
    BY Shrinks, <1>13 DEF ApproveCode, Pending, Inserting, TypeOK
  <1>14. ASSUME NEW a \in Admins, ApproveEntry(a) PROVE Room'
    BY Shrinks, <1>14 DEF ApproveEntry, Pending, Inserting, TypeOK
  <1>15. ASSUME NEW a \in Admins, RejectEntry(a) PROVE Room'
    BY Shrinks, <1>15 DEF RejectEntry, Pending, Inserting, TypeOK
  <1>16. ASSUME NEW a \in Admins, RejectCodes(a) PROVE Room'
    BY Shrinks, <1>16 DEF RejectCodes, Pending, Inserting, TypeOK
  <1>17. ASSUME RemoveEntry PROVE Room'
    BY Shrinks, <1>17 DEF RemoveEntry, Pending, Inserting, TypeOK
  <1>18. ASSUME NEW access \in Access, SetAccess(access) PROVE Room'
    BY Shrinks, <1>18 DEF SetAccess, Pending, Inserting, TypeOK
  <1>19. ASSUME DeletePerson PROVE Room'
    BY Shrinks, <1>19 DEF DeletePerson, Pending, Inserting, TypeOK
  <1>20. ASSUME NEW k \in Codes, Expire(k) PROVE Room'
    BY Shrinks, <1>20 DEF Expire, Pending, Inserting, TypeOK
  <1>21. CASE UNCHANGED vars BY Shrinks, <1>21 DEF vars, Pending, Inserting, TypeOK
  <1>22. ASSUME NEW u \in Updates, Handle(u) PROVE Room'
    BY <1>22, <1>1, <1>2, <1>3, <1>4, <1>5, <1>6, <1>7, <1>8, <1>9, <1>10, <1>11 DEF Handle
  <1>23. ASSUME NEW a \in Admins, Administer(a) PROVE Room'
    BY <1>23, <1>12, <1>13, <1>14, <1>15, <1>16 DEF Administer
  <1> QED BY Shrinks, <1>17, <1>18, <1>19, <1>20, <1>21, <1>22, <1>23 DEF Next

(* As long as no code is older than an hour, there are no more live codes  *)
(* than updates.                                                           *)
THEOREM Coding == Spec => []OneCodeAtATime
  <1>1. Init => Room
    <2> SUFFICES ASSUME Init PROVE Room OBVIOUS
    <2>1. Pending = {} /\ Inserting = {} BY DEF Init, Pending, Inserting
    <2>2. Cardinality(Pending) = 0 /\ Cardinality(Inserting) = 0
      BY <2>1, FS_EmptySet
    <2>3. Cardinality(Updates) \in Nat
      BY AdmissionConstants, FS_CardinalityType DEF AdmissionConstants
    <2> QED BY <2>2, <2>3 DEF Room
  <1>2. TypeOK /\ Room /\ [Next]_vars => Room' BY NextRoom
  <1>3. TypeOK /\ Room => OneCodeAtATime
    BY Within, Limited DEF Room, OneCodeAtATime
  <1> QED BY <1>1, <1>2, <1>3, TypeCorrect, PTL DEF Spec
=============================================================================

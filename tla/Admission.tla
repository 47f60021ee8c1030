------------------------------- MODULE Admission -------------------------------
(***************************************************************************)
(* How a Telegram contact is let in.  Direct messages and the commands     *)
(* /start and /pair of one contact pass the pairing of                     *)
(* src/pulse/src/channels/telegram/pairing.ts and the people gate of       *)
(* src/pulse/src/channels/people-service.ts, as adapter.ts calls them; the *)
(* dashboard approves and rejects codes (src/dashboard/.../approvals/      *)
(* actions.ts), sets what a person may do and deletes persons.  A webhook  *)
(* is acknowledged before its update is handled, so updates run side by    *)
(* side, and so do the dashboard's actions.                                *)
(***************************************************************************)
EXTENDS Naturals, FiniteSets

CONSTANTS
    Updates,   \* updates that are handled at a time
    Admins,    \* dashboard actions that run at a time
    MaxCodes,     \* bound on the codes made for the contact
    MaxDeletions, \* bound on how often the dashboard deletes its person
    MaxFaults     \* bound on failed calls

ASSUME AdmissionConstants ==
    /\ IsFiniteSet(Updates)
    /\ MaxCodes \in Nat
    /\ MaxDeletions \in Nat
    /\ MaxFaults \in Nat

VARIABLES
    entry,    \* the contact's row in allowlists
    removed,  \* the dashboard took the row off the list
    code,     \* its rows in pairing_codes; approved and rejected are "closed"
    expired,  \* codes older than an hour
    person,   \* the access in the contact's row in people
    deleted,  \* the rows of the contact deleted so far, which tells a row from the next
    read,     \* the row that each update found, and its access
    notices,  \* "you don't have access yet", sent so far
    pc,       \* where each update stands
    at,       \* where each dashboard action stands
    choice,   \* the code it is about to close
    faults    \* faults so far

listVars == <<entry, removed, code, expired>>
peopleVars == <<person, deleted, read, notices>>
adminVars == <<at, choice>>
vars == <<listVars, peopleVars, pc, adminVars, faults>>

Codes == 1 .. MaxCodes
Access == {"talk", "observe", "blocked"}
NoRow == [row |-> 0, access |-> "none"]
Places ==
    {"idle", "check", "find", "insert", "findEntry", "insertEntry",
     "person", "touch", "create", "reread", "in"}

TypeOK ==
    /\ entry \in {"none", "pending", "approved", "blocked"}
    /\ removed \in BOOLEAN
    /\ code \in [Codes -> {"none", "pending", "closed"}]
    /\ expired \subseteq Codes
    /\ person \in Access \cup {"none"}
    /\ deleted \in 0 .. MaxDeletions
    /\ read \in [Updates -> [row : 0 .. MaxDeletions, access : Access \cup {"none"}]]
    /\ notices \in Nat
    /\ pc \in [Updates -> Places]
    /\ at \in [Admins -> {"idle", "code", "entry", "codes"}]
    /\ choice \in [Admins -> Codes \cup {0}]
    /\ faults \in 0 .. MaxFaults

Init ==
    /\ entry = "none"
    /\ removed = FALSE
    /\ code = [k \in Codes |-> "none"]
    /\ expired = {}
    /\ person = "none"
    /\ deleted = 0
    /\ read = [u \in Updates |-> NoRow]
    /\ notices = 0
    /\ pc = [u \in Updates |-> "idle"]
    /\ at = [a \in Admins |-> "idle"]
    /\ choice = [a \in Admins |-> 0]
    /\ faults = 0

Pending == {k \in Codes : code[k] = "pending"}

Fault == faults < MaxFaults /\ faults' = faults + 1
NoFault == UNCHANGED faults

Goes(u, place) == pc' = [pc EXCEPT ![u] = place]

\* The handler returns, or its catch logs what went wrong.
Ends(u) == pc' = [pc EXCEPT ![u] = "idle"]

-----------------------------------------------------------------------------
(* The pairing. *)

\* handleDmMessage, or handleStartCommand and handlePairCommand.  The tenant's
\* policy is what the adapter's 30 s cache has, and nothing happens if direct
\* messages are disabled.
Arrive(u) ==
    /\ pc[u] = "idle"
    /\ \/ Goes(u, "check")   \* pairing, or a command
       \/ Goes(u, "person")  \* open
    /\ NoFault
    /\ UNCHANGED <<listVars, peopleVars, adminVars>>

\* checkDmAccess.  An approved contact's message goes on to the people gate; a
\* command of it is answered.
CheckDmAccess(u) ==
    /\ pc[u] = "check"
    /\ \/ entry \in {"none", "pending"} /\ Goes(u, "find") /\ NoFault
       \/ entry = "approved" /\ Goes(u, "person") /\ NoFault  \* a message
       \/ entry = "approved" /\ Ends(u) /\ NoFault            \* a command
       \/ entry = "blocked" /\ Ends(u) /\ NoFault
       \/ Ends(u) /\ Fault
    /\ UNCHANGED <<listVars, peopleVars, adminVars>>

\* Mutant: no look at the codes there are.
FindCode_Never(u) ==
    /\ pc[u] = "find"
    /\ Goes(u, "insert")
    /\ NoFault
    /\ UNCHANGED <<listVars, peopleVars, adminVars>>

\* getOrCreatePairingCode looks at one pending code, whichever comes first, and
\* replies with it if it is not expired.
FindCode(u) ==
    /\ pc[u] = "find"
    /\ \/ \E k \in Pending : k \notin expired /\ Ends(u) /\ NoFault
       \/ (Pending = {} \/ Pending \cap expired # {}) /\ Goes(u, "insert") /\ NoFault
       \/ Ends(u) /\ Fault
    /\ UNCHANGED <<listVars, peopleVars, adminVars>>

Next1(k) == code[k] = "none" /\ \A i \in Codes : i < k => code[i] # "none"

\* Mutant: the code alone, without the entry.
InsertCode_Alone(u) ==
    /\ pc[u] = "insert"
    /\ \E k \in Codes : Next1(k) /\ code' = [code EXCEPT ![k] = "pending"]
    /\ Ends(u)
    /\ NoFault
    /\ UNCHANGED <<entry, removed, expired, peopleVars, adminVars>>

InsertCode(u) ==
    /\ pc[u] = "insert"
    /\ \/ /\ \E k \in Codes : Next1(k) /\ code' = [code EXCEPT ![k] = "pending"]
          /\ Goes(u, "findEntry") /\ NoFault
       \/ Ends(u) /\ Fault /\ UNCHANGED code
    /\ UNCHANGED <<entry, removed, expired, peopleVars, adminVars>>

FindEntry(u) ==
    /\ pc[u] = "findEntry"
    /\ \/ entry = "none" /\ Goes(u, "insertEntry") /\ NoFault
       \/ entry # "none" /\ Ends(u) /\ NoFault
       \/ Ends(u) /\ Fault
    /\ UNCHANGED <<listVars, peopleVars, adminVars>>

\* idx_unique_allowlist: the insert of an update that lost the race throws, and
\* the contact is shown no code.
InsertEntry(u) ==
    /\ pc[u] = "insertEntry"
    /\ Ends(u)
    /\ \/ entry = "none" /\ entry' = "pending" /\ removed' = FALSE /\ NoFault
       \/ entry # "none" /\ UNCHANGED <<entry, removed>> /\ NoFault
       \/ UNCHANGED <<entry, removed>> /\ Fault
    /\ UNCHANGED <<code, expired, peopleVars, adminVars>>

-----------------------------------------------------------------------------
(* The people gate. *)

\* resolveInboundPerson: a gate that breaks lets the message in.
FailsOpen(u) == Goes(u, "in") /\ Fault /\ UNCHANGED <<person, notices>>

\* What handleDmMessage does with the person's access.
Decide(u, access, isNew) ==
    /\ NoFault
    /\ IF access = "talk" THEN Goes(u, "in") ELSE Ends(u)
    /\ notices' = IF access = "observe" /\ isNew THEN notices + 1 ELSE notices

FindPerson(u) ==
    /\ pc[u] = "person"
    /\ \/ person = "none" /\ Goes(u, "create") /\ NoFault /\ UNCHANGED <<person, read, notices>>
       \/ /\ person # "none" /\ Goes(u, "touch") /\ NoFault
          /\ read' = [read EXCEPT ![u] = [row |-> deleted, access |-> person]]
          /\ UNCHANGED <<person, notices>>
       \/ FailsOpen(u) /\ UNCHANGED read
    /\ UNCHANGED <<deleted, listVars, adminVars>>

\* The UPDATE of last_seen_at returns the row as it is by then, or nothing if it
\* was deleted since it was found: then what was found decides.
TouchPerson(u) ==
    /\ pc[u] = "touch"
    /\ \/ /\ IF person # "none" /\ read[u].row = deleted
              THEN Decide(u, person, FALSE)
              ELSE Decide(u, read[u].access, FALSE)
          /\ UNCHANGED person
       \/ FailsOpen(u)
    /\ read' = [read EXCEPT ![u] = NoRow]
    /\ UNCHANGED <<deleted, listVars, adminVars>>

\* The insert, with the tenant's default access; whatever error it has, a row
\* that is there by then will do.
CreatePerson(u) ==
    /\ pc[u] = "create"
    /\ \/ /\ person = "none"
          /\ \E default \in Access : person' = default /\ Decide(u, default, TRUE)
       \/ person # "none" /\ Goes(u, "reread") /\ NoFault /\ UNCHANGED <<person, notices>>
       \/ Goes(u, "reread") /\ Fault /\ UNCHANGED <<person, notices>>
    /\ UNCHANGED <<deleted, read, listVars, adminVars>>

\* Mutant: the loser of the race is new as well.
RereadPerson_New(u) ==
    /\ pc[u] = "reread"
    /\ Decide(u, person, TRUE)
    /\ UNCHANGED <<person, deleted, read, listVars, adminVars>>

\* If there is no row after all, because the insert failed or the row that was in
\* its way is deleted by now, the error of the insert is thrown on and the gate
\* lets the message in.
RereadPerson(u) ==
    /\ pc[u] = "reread"
    /\ \/ person # "none" /\ Decide(u, person, FALSE) /\ UNCHANGED person
       \/ person = "none" /\ Goes(u, "in") /\ NoFault /\ UNCHANGED <<person, notices>>
       \/ FailsOpen(u)
    /\ UNCHANGED <<deleted, read, listVars, adminVars>>

\* The message goes on, to the sender's own approval and to the queue.
LetIn(u) ==
    /\ pc[u] = "in"
    /\ Ends(u)
    /\ NoFault
    /\ UNCHANGED <<listVars, peopleVars, adminVars>>

-----------------------------------------------------------------------------
(* The dashboard. *)

Turns(a, place) == at' = [at EXCEPT ![a] = place]

Returns(a) == Turns(a, "idle") /\ choice' = [choice EXCEPT ![a] = 0]

\* approvePairingAction finds a pending code, expired or not.
ApproveRead(a, k) ==
    /\ at[a] = "idle"
    /\ code[k] = "pending"
    /\ Turns(a, "code")
    /\ choice' = [choice EXCEPT ![a] = k]
    /\ UNCHANGED <<listVars, peopleVars, pc, faults>>

ApproveCode(a) ==
    /\ at[a] = "code"
    /\ \/ /\ code' = [code EXCEPT ![choice[a]] = "closed"]
          /\ Turns(a, "entry") /\ choice' = [choice EXCEPT ![a] = 0] /\ NoFault
       \/ Returns(a) /\ Fault /\ UNCHANGED code
    /\ UNCHANGED <<entry, removed, expired, peopleVars, pc>>

\* The UPDATE of an entry that is not there changes nothing, and the action
\* reports success all the same.
ApproveEntry(a) ==
    /\ at[a] = "entry"
    /\ Returns(a)
    /\ \/ entry' = (IF entry = "none" THEN "none" ELSE "approved") /\ NoFault
       \/ UNCHANGED entry /\ Fault
    /\ UNCHANGED <<removed, code, expired, peopleVars, pc>>

\* rejectPairingAction: the entry first, then the codes.
RejectEntry(a) ==
    /\ at[a] = "idle"
    /\ entry # "none" \/ Pending # {}
    /\ Turns(a, "codes")
    /\ entry' = IF entry = "none" THEN "none" ELSE "blocked"
    /\ UNCHANGED <<removed, code, expired, peopleVars, pc, choice, faults>>

RejectCodes(a) ==
    /\ at[a] = "codes"
    /\ Returns(a)
    /\ \/ /\ code' = [k \in Codes |-> IF code[k] = "pending" THEN "closed" ELSE code[k]]
          /\ NoFault
       \/ UNCHANGED code /\ Fault
    /\ UNCHANGED <<entry, removed, expired, peopleVars, pc>>

\* removeFromAllowlistAction leaves the codes as they are.
RemoveEntry ==
    /\ entry # "none"
    /\ entry' = "none"
    /\ removed' = TRUE
    /\ UNCHANGED <<code, expired, peopleVars, pc, adminVars, faults>>

\* updatePersonAccessAction.
SetAccess(access) ==
    /\ person # "none"
    /\ person' = access
    /\ UNCHANGED <<listVars, deleted, read, notices, pc, adminVars, faults>>

\* deletePersonAction: the contact's next message makes a new row.
DeletePerson ==
    /\ person # "none"
    /\ deleted < MaxDeletions
    /\ person' = "none"
    /\ deleted' = deleted + 1
    /\ UNCHANGED <<listVars, read, notices, pc, adminVars, faults>>

\* An hour passes since a code was made that is still pending.
Expire(k) ==
    /\ code[k] = "pending"
    /\ expired' = expired \cup {k}
    /\ UNCHANGED <<entry, removed, code, peopleVars, pc, adminVars, faults>>

-----------------------------------------------------------------------------
Handle(u) ==
    \/ Arrive(u) \/ CheckDmAccess(u) \/ FindCode(u) \/ InsertCode(u)
    \/ FindEntry(u) \/ InsertEntry(u)
    \/ FindPerson(u) \/ TouchPerson(u) \/ CreatePerson(u) \/ RereadPerson(u) \/ LetIn(u)

Administer(a) ==
    \/ \E k \in Codes : ApproveRead(a, k)
    \/ ApproveCode(a) \/ ApproveEntry(a) \/ RejectEntry(a) \/ RejectCodes(a)

Next ==
    \/ \E u \in Updates : Handle(u)
    \/ \E a \in Admins : Administer(a)
    \/ RemoveEntry
    \/ \E access \in Access : SetAccess(access)
    \/ DeletePerson
    \/ \E k \in Codes : Expire(k)

Spec == Init /\ [][Next]_vars

-----------------------------------------------------------------------------
(* Properties *)

\* An approval that goes through lets the contact in: it may find no entry to
\* approve only if the contact was taken off the list and still held a code, if a
\* call failed, or if it came between the two inserts that make a code.
ApprovalTakesEffect ==
    [][\A a \in Admins :
         at[a] = "entry" /\ at'[a] = "idle" /\ faults = 0 /\ faults' = 0
            => \/ entry' = "approved"
               \/ removed
               \/ \E u \in Updates : pc[u] \in {"findEntry", "insertEntry"}]_vars

\* The contact is told once per row in people that it has no access yet, however
\* many of its messages race each other, the dashboard's edits of the row and its
\* deletion; only a deletion of the row makes a further notice possible.
NoticeOnce == notices <= 1 + deleted

\* Until a code expires the contact holds no more live codes than it has updates
\* handled at the same time: one, if it writes one message after the other.
OneCodeAtATime == expired = {} => Cardinality(Pending) <= Cardinality(Updates)
=============================================================================

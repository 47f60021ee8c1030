-------------------------- MODULE ApprovalContract --------------------------
(***************************************************************************)
(* What the approval workflow promises to the people who use it, with no   *)
(* process, timer, card or crash in sight.  A gated action is either let   *)
(* through by a standing allowance, or becomes a request that gets at most *)
(* one verdict; it is performed at most once, and only with a sanction.    *)
(*                                                                         *)
(* The promise is the one of src/pulse/src/channels/approval-service.ts:   *)
(* Approvals.tla is shown to implement it.                                 *)
(***************************************************************************)
EXTENDS Naturals

CONSTANT Approval

VARIABLES phase,      \* what has been decided about each action
          performed   \* how many times it was carried out

vars == <<phase, performed>>

Verdict == {"approved", "denied", "expired"}
Phase   == {"none", "pending", "waived"} \union Verdict

Init == /\ phase = [a \in Approval |-> "none"]
        /\ performed = [a \in Approval |-> 0]

(* A standing allowance sanctions the action, which runs inline.           *)
Waive(a) == /\ phase[a] = "none"
            /\ phase' = [phase EXCEPT ![a] = "waived"]
            /\ performed' = [performed EXCEPT ![a] = 1]

Ask(a) == /\ phase[a] = "none"
          /\ phase' = [phase EXCEPT ![a] = "pending"]
          /\ UNCHANGED performed

Decide(a, v) == /\ phase[a] = "pending"
                /\ phase' = [phase EXCEPT ![a] = v]
                /\ UNCHANGED performed

Perform(a) == /\ phase[a] = "approved"
              /\ performed[a] = 0
              /\ performed' = [performed EXCEPT ![a] = 1]
              /\ UNCHANGED phase

Next == \E a \in Approval : \/ Waive(a)
                            \/ Ask(a)
                            \/ \E v \in Verdict : Decide(a, v)
                            \/ Perform(a)

Spec == Init /\ [][Next]_vars
=============================================================================

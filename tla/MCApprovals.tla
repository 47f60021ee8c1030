----------------------------- MODULE MCApprovals -----------------------------
(* Instances of Approvals for TLC.                                         *)
EXTENDS Approvals

CONSTANTS t1, t2,   \* calls of one gated tool
          c1,       \* a command on a server
          u1,       \* a message of a person
          s1, s2    \* that tool; that server or person

MCKind == [a \in Approval |-> CASE a \in {t1, t2} -> "tool_call"
                               [] a = c1 -> "command"
                               [] a = u1 -> "user_request"]

MCSubjectOf == [a \in Approval |-> IF Kind[a] = "tool_call" THEN s1 ELSE s2]
=============================================================================

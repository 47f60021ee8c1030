---------------------------- MODULE MCCommitments ----------------------------
(* Instance of Commitments for TLC. *)
EXTENDS Commitments

OddOnes == {c \in Items : c % 2 = 1}
=============================================================================

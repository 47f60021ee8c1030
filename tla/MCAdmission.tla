----------------------------- MODULE MCAdmission -----------------------------
(* Instance of Admission for TLC. *)
EXTENDS Admission, TLC

CONSTANTS u1, u2, a1

TwoUpdates == {u1, u2}
OneAdmin == {a1}
Sym == Permutations(TwoUpdates)
=============================================================================

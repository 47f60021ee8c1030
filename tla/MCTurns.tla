------------------------------- MODULE MCTurns -------------------------------
(* Instances of Turns for TLC. *)
EXTENDS Turns

CONSTANTS m1, m2, alice

AllMsgs == {m1, m2}
OneMsg == {m1}
People == {alice}
SameContact == [m \in Msgs |-> alice]
=============================================================================

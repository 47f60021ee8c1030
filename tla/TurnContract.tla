---------------------------- MODULE TurnContract ----------------------------
(***************************************************************************)
(* What a turn promises to its contact and to the tenant that pays for it: *)
(* it is over once, in one of five ways; it is charged when and only when  *)
(* it was answered; one that failed, was refused or was lost is free.      *)
(***************************************************************************)
CONSTANT Turns

VARIABLES
    told,    \* what the contact was told by each turn
    charged, \* the turns the tenant pays for
    result   \* "open" until the turn is over

contractVars == <<told, charged, result>>

Init ==
    /\ told = [t \in Turns |-> {}]
    /\ charged = {}
    /\ result = [t \in Turns |-> "open"]

\* The answer, before anything is charged.
Reply(t) ==
    /\ result[t] = "open"
    /\ told[t] = {}
    /\ told' = [told EXCEPT ![t] = {"reply"}]
    /\ UNCHANGED <<charged, result>>

\* A turn that answered, or chose to be silent, is charged and over.
Settle(t) ==
    /\ result[t] = "open"
    /\ told[t] \subseteq {"reply"}
    /\ charged' = charged \cup {t}
    /\ result' = [result EXCEPT ![t] = "answered"]
    /\ UNCHANGED told

\* A turn that may not run says so, if it can, and is over.
Refuse(t) ==
    /\ result[t] = "open"
    /\ told[t] = {}
    /\ told' = [told EXCEPT ![t] = {"refusal"}]
    /\ result' = [result EXCEPT ![t] = "refused"]
    /\ UNCHANGED charged

\* A message that gets no turn at all.
Drop(t) ==
    /\ result[t] = "open"
    /\ told[t] = {}
    /\ result' = [result EXCEPT ![t] = "dropped"]
    /\ UNCHANGED <<told, charged>>

\* A turn that failed says so, if it can, even after its answer.
Fail(t) ==
    /\ result[t] = "open"
    /\ \E word \in {{}, {"error"}} : told' = [told EXCEPT ![t] = @ \cup word]
    /\ result' = [result EXCEPT ![t] = "failed"]
    /\ UNCHANGED charged

\* The process ended with turns in flight.
Lose ==
    \E gone \in SUBSET {t \in Turns : result[t] = "open"} :
        /\ result' = [t \in Turns |-> IF t \in gone THEN "lost" ELSE result[t]]
        /\ UNCHANGED <<told, charged>>

Next ==
    \/ \E t \in Turns :
          Reply(t) \/ Settle(t) \/ Refuse(t) \/ Drop(t) \/ Fail(t)
    \/ Lose

Spec == Init /\ [][Next]_contractVars
=============================================================================

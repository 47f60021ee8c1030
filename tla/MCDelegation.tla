---------------------------- MODULE MCDelegation ----------------------------
(* Instances of Delegation for TLC.                                        *)
EXTENDS Delegation, TLC

CONSTANTS lead, mate,  \* agents
          chat, mail,  \* conversations of people
          sales        \* a channel

MCRootAgent == [r \in Root |-> IF r = chat THEN lead ELSE mate]

(* A lead that may start one sub-run in all, and a mate that may have one  *)
(* at a time and spend one token.                                          *)
MCCaps == [a \in Agent |-> IF a = lead
                           THEN [hops |-> 1, conc |-> 0, tokens |-> 0]
                           ELSE [hops |-> 0, conc |-> 1, tokens |-> 1]]

(* The lead delegates to the mate by their flags, the mate to itself as a  *)
(* member of its own channel; only route_to_channel leads to the lead.     *)
MCChannels == [a \in Agent |-> IF a = lead THEN {} ELSE {sales}]
MCDelegateTo == [a \in Agent |-> {}]

(* The calls are interchangeable.                                          *)
MCSymmetry == Permutations(Call)

(* A lead takes no delegations.                                            *)
MCMaxDepth == [a \in Agent |-> IF a = lead THEN 0 ELSE 3]
=============================================================================

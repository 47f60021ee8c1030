---------------------------- MODULE MCJobScheduler ----------------------------
(* Instances of JobScheduler for TLC.                                      *)
EXTENDS JobScheduler

CONSTANTS c1,       \* a cron job
          i1,       \* an interval job
          o1, o2    \* one-shot jobs

MCKind == [j \in Job |-> CASE j = c1 -> "cron"
                           [] j = i1 -> "interval"
                           [] OTHER -> "once"]

(* Two firings may overlap; a webhook does not concern a one-shot timer.   *)
MCTwoTicks == [j \in Job |-> IF Kind[j] = "once" THEN 0 ELSE 2]
MCOneTick  == [j \in Job |-> IF Kind[j] = "once" THEN 0 ELSE 1]
===============================================================================

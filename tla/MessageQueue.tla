---------------------------- MODULE MessageQueue ----------------------------
(***************************************************************************)
(* The queue of inbound messages: src/pulse/src/queue/message-queue.ts and *)
(* worker.ts on top of BullMQ.  BullMQ is external and modelled from how   *)
(* the code configures it: a job is known by the message's id, a worker    *)
(* holds a lease on the job it processes, a job whose lease runs out is    *)
(* given to a worker again, and finished jobs are forgotten.               *)
(*                                                                         *)
(* A turn is one delivery of one message, <<m, n>> being m's n-th.         *)
(***************************************************************************)
EXTENDS Naturals, FiniteSets

CONSTANTS
    Msgs,           \* inbound messages
    MaxDeliveries,  \* bound on the deliveries of one message
    Attempts,       \* defaultJobOptions.attempts
    NoTurn

ASSUME QueueConstants ==
    /\ IsFiniteSet(Msgs)
    /\ MaxDeliveries \in Nat \ {0}
    /\ Attempts \in Nat \ {0}
    /\ NoTurn \notin Msgs \X (1 .. MaxDeliveries)

VARIABLES
    job,      \* the state of each message's job; "none" if Redis has none
    attempts, \* how often the job's processor threw
    stalls,   \* how often its lease ran out
    lease,    \* the turn that holds the lease, or NoTurn
    taken     \* how many turns the message had so far

queueVars == <<job, attempts, stalls, lease, taken>>

Turn == Msgs \X (1 .. MaxDeliveries)
Msg(t) == t[1]

\* BullMQ's default, which worker.ts keeps.
MaxStalledCount == 1

QueueTypeOK ==
    /\ job \in [Msgs -> {"none", "waiting", "active", "completed", "failed"}]
    /\ attempts \in [Msgs -> 0 .. Attempts]
    /\ stalls \in [Msgs -> 0 .. MaxStalledCount]
    /\ lease \in [Msgs -> Turn \cup {NoTurn}]
    /\ taken \in [Msgs -> 0 .. MaxDeliveries]

QueueInit ==
    /\ job = [m \in Msgs |-> "none"]
    /\ attempts = [m \in Msgs |-> 0]
    /\ stalls = [m \in Msgs |-> 0]
    /\ lease = [m \in Msgs |-> NoTurn]
    /\ taken = [m \in Msgs |-> 0]

-----------------------------------------------------------------------------
\* Mutant: a job without the message's id, so that nothing is deduplicated.
Enqueue_FreshId(m) ==
    /\ job' = [job EXCEPT ![m] = "waiting"]
    /\ UNCHANGED <<attempts, stalls, lease, taken>>

\* enqueueMessage: a job of that id which Redis still knows is left as it is.
Enqueue(m) ==
    /\ job' = [job EXCEPT ![m] = IF @ = "none" THEN "waiting" ELSE @]
    /\ UNCHANGED <<attempts, stalls, lease, taken>>

\* The worker takes the job for a new turn.
Take(m, t) ==
    /\ job[m] = "waiting"
    /\ taken[m] < MaxDeliveries
    /\ t = <<m, taken[m] + 1>>
    /\ job' = [job EXCEPT ![m] = "active"]
    /\ lease' = [lease EXCEPT ![m] = t]
    /\ taken' = [taken EXCEPT ![m] = @ + 1]
    /\ UNCHANGED <<attempts, stalls>>

\* Mutant: the attempts are counted and never compared.
Throw_Forever(m) ==
    /\ job[m] = "waiting"
    /\ attempts' = [attempts EXCEPT ![m] = @ + 1]
    /\ UNCHANGED <<job, stalls, lease, taken>>

\* The processor threw before a turn began: the job waits out its backoff and
\* is tried again, until the attempts are used up.
Throw(m) ==
    /\ job[m] = "waiting"
    /\ attempts' = [attempts EXCEPT ![m] = @ + 1]
    /\ job' = [job EXCEPT
                 ![m] = IF attempts[m] + 1 < Attempts THEN "waiting" ELSE "failed"]
    /\ UNCHANGED <<stalls, lease, taken>>

\* The processor returned.  A turn that lost its lease can not complete the job.
Complete(t) ==
    /\ job' = [job EXCEPT ![Msg(t)] = IF lease[Msg(t)] = t THEN "completed" ELSE @]
    /\ lease' = [lease EXCEPT ![Msg(t)] = IF @ = t THEN NoTurn ELSE @]
    /\ UNCHANGED <<attempts, stalls, taken>>

\* The lease runs out: the process is gone, blocked or cut off from Redis.
Stall(m) ==
    /\ job[m] = "active"
    /\ lease' = [lease EXCEPT ![m] = NoTurn]
    /\ IF stalls[m] < MaxStalledCount
       THEN /\ job' = [job EXCEPT ![m] = "waiting"]
            /\ stalls' = [stalls EXCEPT ![m] = @ + 1]
       ELSE /\ job' = [job EXCEPT ![m] = "failed"]
            /\ UNCHANGED stalls
    /\ UNCHANGED <<attempts, taken>>

\* removeOnComplete, by age and by count, and removeOnFail: Redis forgets the job
\* and its id.
Forget(m) ==
    /\ job[m] \in {"completed", "failed"}
    /\ job' = [job EXCEPT ![m] = "none"]
    /\ attempts' = [attempts EXCEPT ![m] = 0]
    /\ stalls' = [stalls EXCEPT ![m] = 0]
    /\ UNCHANGED <<lease, taken>>
=============================================================================

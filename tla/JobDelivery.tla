---------------------------- MODULE JobDelivery ----------------------------
(***************************************************************************)
(* What the background-job layer promises to the services that publish     *)
(* jobs: a published job stays outstanding until some worker has run its   *)
(* handler to the end and acknowledged it.  Handlers may run a job more    *)
(* than once, and in any order.  A job is dropped only if MayLose.         *)
(* StreamQueue implements this contract; HomeFeed relies on it.            *)
(***************************************************************************)
EXTENDS Integers

CONSTANTS
    MaxJobs,    \* number of jobs ever published
    MayLose     \* TRUE if trimming or eviction may drop outstanding jobs

VARIABLES
    status,     \* what became of each job
    completed   \* jobs whose handler has run to the end at least once

vars == <<status, completed>>

Jobs == 1..MaxJobs
Status == {"unpublished", "outstanding", "acknowledged", "lost"}

TypeOK ==
    /\ status \in [Jobs -> Status]
    /\ completed \subseteq Jobs

Init ==
    /\ status = [j \in Jobs |-> "unpublished"]
    /\ completed = {}

\* Jobs D are dropped: only those still outstanding, and only if allowed.
Dropping(D, before) ==
    /\ D # {} => MayLose
    /\ \A j \in D : before[j] = "outstanding"
    /\ status' = [j \in Jobs |-> IF j \in D THEN "lost" ELSE before[j]]

\* A job is accepted; accepting it may push older ones out.
Publish(j) ==
    /\ status[j] = "unpublished"
    /\ \E D \in SUBSET Jobs :
          Dropping(D, [status EXCEPT ![j] = "outstanding"])
    /\ UNCHANGED completed

\* A handler reaches its end.  A worker may still hold a job that was lost.
Complete(j) ==
    /\ status[j] \in {"outstanding", "lost"}
    /\ completed' = completed \union {j}
    /\ UNCHANGED status

\* Only a completed job is taken off the books.
Acknowledge(j) ==
    /\ j \in completed
    /\ status[j] \in {"outstanding", "lost"}
    /\ status' = [status EXCEPT ![j] = "acknowledged"]
    /\ UNCHANGED completed

Lose ==
    /\ \E D \in SUBSET Jobs : Dropping(D, status)
    /\ UNCHANGED completed

Next ==
    \/ \E j \in Jobs : Publish(j) \/ Complete(j) \/ Acknowledge(j)
    \/ Lose

Spec == Init /\ [][Next]_vars
=============================================================================

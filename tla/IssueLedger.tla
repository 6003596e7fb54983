---------------------------- MODULE IssueLedger ----------------------------
(***************************************************************************)
(* What the checkpoints of a Jira job promise (the docstring of            *)
(* _complete_job, jira_service.py:573-583): a job asks Jira for one issue  *)
(* at a time, the story before its subtasks, never for one that it has on  *)
(* record, never forgets one, and is finished only with all of them.       *)
(* Nothing is promised any more of a job that two tasks worked on at once. *)
(***************************************************************************)
CONSTANTS
    Jobs,
    Units,        \* what a job asks Jira for
    Needs(_)      \* the units a finished job must have on record

VARIABLES
    recorded,     \* per job, the units whose issue key is committed
    open,         \* per job, the unit asked for and not answered, if any
    finished,     \* the jobs that say they are completed
    void          \* the jobs the promise no longer covers

vars == <<recorded, open, finished, void>>

Init ==
    /\ recorded = [j \in Jobs |-> {}]
    /\ open = [j \in Jobs |-> {}]
    /\ finished = {}
    /\ void = {}

Ask(j, u) ==
    /\ open[j] = {}
    /\ u \notin recorded[j]
    /\ u \in {"story", "cr"} \/ "story" \in recorded[j]
    /\ open' = [open EXCEPT ![j] = {u}]
    /\ UNCHANGED <<recorded, finished, void>>

Write(j) ==
    /\ open[j] # {}
    /\ recorded' = [recorded EXCEPT ![j] = @ \cup open[j]]
    /\ open' = [open EXCEPT ![j] = {}]
    /\ UNCHANGED <<finished, void>>

\* The answer of these jobs is lost: a timeout, or a crash of the server.
Lose(S) ==
    /\ open' = [j \in Jobs |-> IF j \in S THEN {} ELSE open[j]]
    /\ UNCHANGED <<recorded, finished, void>>

Finish(j) ==
    /\ open[j] = {}
    /\ Needs(j) \subseteq recorded[j]
    /\ finished' = finished \cup {j}
    /\ UNCHANGED <<recorded, open, void>>

\* Jobs are run again, finished or not; their record stays.  Those of shared are
\* run twice at once: from now on they show nothing.
Reopen(again, shared) ==
    /\ void' = void \cup shared
    /\ recorded' = [j \in Jobs |-> IF j \in shared THEN {} ELSE recorded[j]]
    /\ open' = [j \in Jobs |-> IF j \in shared THEN {} ELSE open[j]]
    /\ finished' = finished \ again

Next ==
    \/ \E j \in Jobs \ void : \/ \E u \in Units : Ask(j, u)
                              \/ Write(j) \/ Finish(j)
    \/ \E S \in SUBSET (Jobs \ void) : Lose(S)
    \/ \E again \in SUBSET (Jobs \ void) : \E shared \in SUBSET again : Reopen(again, shared)

Spec == Init /\ [][Next]_vars
=============================================================================

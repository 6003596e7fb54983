---------------------------- MODULE MCJiraJobs ----------------------------
(* Instances of JiraJobs for TLC. *)
EXTENDS JiraJobs, TLC

CONSTANTS p1, r1, r2, b1, b2, s1, s2, main, api, worker

OneJob  == {1}
TwoJobs == {1, 2}
P1 == {p1}
R1 == {r1}
R2 == {r1, r2}
B2 == {b1, b2}
S1 == {s1}
S2 == {s1, s2}

\* Development: one process.  Production: an API pod and the worker, a slot each.
Single  == {main}
Split   == {api, worker}
Api     == {api}
Worker  == {worker}
InMain  == [s \in Slots |-> main]
InPods  == [s \in Slots |-> IF s = s1 THEN api ELSE worker]

\* One project owns everything; the first job migrates it.
JobsOf     == [j \in Jobs |-> p1]
Owner      == [r \in Resources |-> p1]
Migration  == [j \in Jobs |-> "migration"]
ThenOperation == [j \in Jobs |-> IF j = 1 THEN "migration" ELSE "operation"]
ThenSync      == [j \in Jobs |-> IF j = 1 THEN "migration" ELSE "sync-complete"]

\* Category-level: the two resources fall into two categories.
ByCategory == [r \in Resources |-> IF r = r1 THEN b1 ELSE b2]
\* Resource-level: a resource is its own bucket.
Itself == [r \in Resources |-> r]

Bound(c, l, y, x, e, f) ==
    [crash |-> c, lost |-> l, retry |-> y, reset |-> x, edit |-> e, fault |-> f]
Troubled       == Bound(1, 1, 1, 1, 0, 1)
LostRetryEdit  == Bound(0, 1, 1, 0, 1, 0)
CrashLostRetry == Bound(1, 1, 1, 0, 0, 0)
CrashRetry     == Bound(1, 0, 1, 0, 0, 0)
NoFaults       == Bound(0, 0, 0, 0, 0, 0)

\* Slots are interchangeable, and so are resources that are their own bucket.
SymItself == Permutations(Slots) \cup Permutations(Resources)
============================================================================

---------------------------- MODULE MCEmailJobs ----------------------------
(* Instances of EmailJobs for TLC: one API pod and one worker, as in        *)
(* k8s/base, with a task slot each.                                         *)
EXTENDS EmailJobs, TLC

CONSTANTS api, worker, s1, s2, w1, k1

Desks    == [w \in Writers |-> api]
SlotHome == [s \in Slots |-> IF s = s1 THEN api ELSE worker]

RetryTwice == [e \in Events |-> IF e = "retry" THEN 2 ELSE 1]
=============================================================================

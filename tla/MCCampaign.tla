----------------------------- MODULE MCCampaign -----------------------------
(* Instances of Campaign for TLC: two rounds that share a task.             *)
EXTENDS Campaign, TLC

CONSTANTS p1, p2, a, b

TwoTasks == (1 :> {a, b}) @@ (2 :> {b})
OneTask == [r \in Rounds |-> {a}]

SameUser == Procs \X Procs

Symmetric == Permutations(Procs)
=============================================================================

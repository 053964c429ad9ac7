----------------------------- MODULE MCScheduler -----------------------------
(* Scheduler with two workers and three fibers.                              *)
EXTENDS Scheduler, TLC

CONSTANTS w1, w2, f1, f2, f3

FiberPerms == Permutations(Fiber)
Perms == Permutations(Worker) \cup Permutations(Fiber)
=============================================================================

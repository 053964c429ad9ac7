---------------------------- MODULE TaskLifecycle ----------------------------
(***************************************************************************)
(* What the task server promises about the life of one task, whatever the  *)
(* buffers, clocks and threads do.  A task is                              *)
(*    none    not constructed yet                                          *)
(*    fresh   constructed, its dispatcher has not added it yet             *)
(*    placed  recorded by the process and on a buffer                      *)
(*    lost    recorded by the process, on no buffer: its value ran out     *)
(*            when it was shifted off the cache                            *)
(*    dead    waiting in m_invalidTasks to be deleted                      *)
(*    gone    deleted                                                      *)
(* Tasks move one at a time, never back, and never from placed to gone     *)
(* without the stay in m_invalidTasks that process.h asks for; no more     *)
(* than Capacity of them are placed.                                       *)
(***************************************************************************)
EXTENDS Integers, FiniteSets

CONSTANTS Id, Capacity

VARIABLE phase

Phase == {"none", "fresh", "placed", "lost", "dead", "gone"}

Init == phase = [i \in Id |-> "none"]

Move(i, from, to) ==
    /\ phase[i] = from
    /\ phase' = [phase EXCEPT ![i] = to]

Placed == {i \in Id : phase[i] = "placed"}

Construct(i) == Move(i, "none", "fresh")
Place(i)     == Cardinality(Placed) < Capacity /\ Move(i, "fresh", "placed")
Refuse(i)    == Move(i, "fresh", "dead")
Lose(i)      == Move(i, "placed", "lost")
Invalidate(i) == Move(i, "placed", "dead") \/ Move(i, "lost", "dead")
Free(i)      == Move(i, "dead", "gone")

Next == \E i \in Id : \/ Construct(i) \/ Place(i) \/ Refuse(i)
                      \/ Lose(i) \/ Invalidate(i) \/ Free(i)

Spec == Init /\ [][Next]_phase
=============================================================================

-------------------------------- MODULE Fiber --------------------------------
(***************************************************************************)
(* The state of the fibers (Fiber.h, Fiber.cc), and what each switch does  *)
(* to it.  A fiber is "none" until it is constructed.  m_state is neither  *)
(* atomic nor guarded by a lock: the module Scheduler gives every read and *)
(* write of it that another thread can see a step of its own.              *)
(*                                                                         *)
(* The saved context and the stack are not data here.  A fiber's stack is  *)
(* in use by the worker that swapped it in until swapOut is over, which is *)
(* what the scheduler's program counters tell.                             *)
(***************************************************************************)
EXTENDS Naturals, FiniteSets

CONSTANT Fiber

VARIABLE m_state

Ended == {"TERM", "EXCEPT"}
State == {"INIT", "HOLD", "EXEC", "READY"} \cup Ended

Built(f) == m_state[f] # "none"

\* Fiber::Fiber(cb).
Construct(f) ==
    /\ ~Built(f)
    /\ m_state' = [m_state EXCEPT ![f] = "INIT"]

\* Fiber::reset, and what it asserts of the fiber.
CanReset(f) == m_state[f] \in Ended \cup {"INIT"}
reset(f) == m_state' = [m_state EXCEPT ![f] = "INIT"]

\* Fiber::swapIn, and what it asserts of the fiber.
CanSwapIn(f) == m_state[f] # "EXEC"
swapIn(f) == m_state' = [m_state EXCEPT ![f] = "EXEC"]

\* What both yields assert.
CanYield(f) == m_state[f] = "EXEC"

\* Fiber::YieldToReady up to its swapOut.
YieldToReady(f) == m_state' = [m_state EXCEPT ![f] = "READY"]

\* Mutant of YieldToHold: the line that Fiber.cc has commented out.
HoldsAtOnce(f) == m_state' = [m_state EXCEPT ![f] = "HOLD"]

\* Fiber::YieldToHold: "//cur->m_state = HOLD;" is a comment, the scheduler
\* writes HOLD when the fiber is off its stack.
YieldToHold(f) == UNCHANGED m_state

\* Fiber::MainFunc after m_cb has returned or thrown.
MainFunc(f) == \E s \in Ended : m_state' = [m_state EXCEPT ![f] = s]
=============================================================================

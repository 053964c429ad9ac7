------------------------------ MODULE RunQueue ------------------------------
(***************************************************************************)
(* What a scheduler of fibers promises, without threads, locks or lists.   *)
(* A fiber does not exist yet ("none"), rests, runs, has given way and     *)
(* wants to run "again", or is over.  It may be queued while it rests and  *)
(* while it runs.  It runs at most once at a time, only after it was       *)
(* queued, and being queued is never forgotten: only a run takes it off    *)
(* the queue, and one that gave way comes back to it.  Callbacks are       *)
(* counted, and each is run by a fiber of its own.                         *)
(***************************************************************************)
EXTENDS Naturals

CONSTANT Fiber

VARIABLES status, queued, calls

qvars == <<status, queued, calls>>

Init ==
    /\ status = [f \in Fiber |-> "none"]
    /\ queued = [f \in Fiber |-> FALSE]
    /\ calls = 0

Become(f, s) == status' = [status EXCEPT ![f] = s]
Queue(f, b)  == queued' = [queued EXCEPT ![f] = b]

New(f)  == status[f] = "none" /\ Become(f, "rest") /\ Queue(f, TRUE) /\ UNCHANGED calls
Call    == calls' = calls + 1 /\ UNCHANGED <<status, queued>>
Wake(f) == /\ status[f] \in {"rest", "run"} /\ ~queued[f] /\ Queue(f, TRUE)
           /\ UNCHANGED <<status, calls>>

Take(f)     == /\ status[f] = "rest" /\ queued[f]
               /\ Become(f, "run") /\ Queue(f, FALSE) /\ UNCHANGED calls
TakeCall(f) == /\ status[f] \in {"none", "over"} /\ ~queued[f] /\ calls > 0
               /\ Become(f, "run") /\ calls' = calls - 1 /\ UNCHANGED queued

Rest(f)  == status[f] = "run" /\ Become(f, "rest") /\ UNCHANGED <<queued, calls>>
Yield(f) == status[f] = "run" /\ Become(f, "again") /\ UNCHANGED <<queued, calls>>
Again(f) == /\ status[f] = "again" /\ ~queued[f]
            /\ Become(f, "rest") /\ Queue(f, TRUE) /\ UNCHANGED calls
End(f)   == /\ status[f] = "run" /\ ~queued[f]
            /\ Become(f, "over") /\ UNCHANGED <<queued, calls>>

Next ==
    \/ Call
    \/ \E f \in Fiber : \/ New(f) \/ Wake(f) \/ Take(f) \/ TakeCall(f)
                        \/ Rest(f) \/ Yield(f) \/ Again(f) \/ End(f)

Spec == Init /\ [][Next]_qvars
=============================================================================

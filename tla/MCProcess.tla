------------------------------ MODULE MCProcess ------------------------------
(* Process on a small instance: two categories and the cache, one or two     *)
(* places in each, three to five addresses.                                  *)
EXTENDS Process, TLC

CONSTANTS p1, p2, p3, p4, p5

Perms == Permutations(Ptr)

\* Two categories of one place each and a cache of two.
Capacities == 0 :> 1 @@ 1 :> 1 @@ 2 :> 2

\* A task of each category that outlives the clock, one that dies early, and
\* a malformed message.
Messages ==
    {[category |-> 0, life |-> 9, rate |-> 1],
     [category |-> 1, life |-> 3, rate |-> 1],
     [category |-> 0, life |-> 2, rate |-> 2],
     [category |-> NoCategory, life |-> 5, rate |-> 1]}

\* One category with two places and a cache of three: room for a Delete that
\* shifts two tasks at once.
WideCapacities == 0 :> 2 @@ 1 :> 3

\* Lost when it is shifted a second after its construction, kept otherwise.
WideMessages == {[category |-> 0, life |-> 3, rate |-> 1]}
=============================================================================

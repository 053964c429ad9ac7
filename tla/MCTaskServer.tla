----------------------------- MODULE MCTaskServer -----------------------------
(* TaskServer with one category and the cache, one place in each.            *)
EXTENDS TaskServer, TLC

CONSTANTS p1, p2, p3

Perms == Permutations(Ptr)

OneEach == 0 :> 1 @@ 1 :> 1

\* Worth something for two seconds on its buffer and five on the cache; a shift
\* saves it in the first two of them.  Or malformed.
ServerMessages ==
    {[category |-> 0, life |-> 5, rate |-> 1],
     [category |-> NoCategory, life |-> 5, rate |-> 1]}
=============================================================================

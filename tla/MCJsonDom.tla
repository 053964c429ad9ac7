------------------------------- MODULE MCJsonDom -------------------------------
EXTENDS JsonDom, TLC

\* The roots' names make no difference.
RootPerms == Permutations(Roots)
===============================================================================

------------------------------- MODULE JsonTree -------------------------------
(* What the interface of GenericValue (document.h) promises: every root holds a
   tree, a value is at one place of one tree, and an operation moves, copies or
   removes what its arguments name and nothing else.  A path is a root and the
   indexes down to a value; an object's children are names and values in turn.
   A forest is a function from its paths to what stands there, and how many
   children it has; a tree is the same below one path. *)
EXTENDS Integers, Sequences

CONSTANT Roots

Node(k, s, n) == [k |-> k, s |-> s, n |-> n]
Null == Node("Null", <<>>, 0)
Str(s) == Node("String", s, 0)
Container(kind) == Node(kind, <<>>, 0)
Leaf(node) == [r \in {<<>>} |-> node]

Parent(p) == SubSeq(p, 1, Len(p) - 1)
Inside(x, p) == Len(p) <= Len(x) /\ \A k \in 1..Len(p) : x[k] = p[k]
Apart(p, q) == ~Inside(p, q) /\ ~Inside(q, p)
Rest(x, p) == SubSeq(x, Len(p) + 1, Len(x))

Get(d, p) == [r \in {Rest(x, p) : x \in {x \in DOMAIN d : Inside(x, p)}} |-> d[p \o r]]
Put(d, p, t) ==
    [x \in {x \in DOMAIN d : ~Inside(x, p)} \cup {p \o r : r \in DOMAIN t} |->
        IF Inside(x, p) THEN t[Rest(x, p)] ELSE d[x]]

Children(d, p) == [i \in 1..d[p].n |-> Get(d, Append(p, i))]
\* A node with the trees ts below it.
Over(node, ts) ==
    [r \in {<<>>} \cup UNION {{<<i>> \o s : s \in DOMAIN ts[i]} : i \in DOMAIN ts} |->
        IF r = <<>> THEN node ELSE ts[r[1]][Rest(r, <<r[1]>>)]]
WithChildren(d, p, ts) == Put(d, p, Over([d[p] EXCEPT !.n = Len(ts)], ts))

\* Values, not the names of members.
IsValue(d, p) == Len(p) = 1 \/ d[Parent(p)].k = "Array" \/ p[Len(p)] % 2 = 0
Values(d) == {p \in DOMAIN d : IsValue(d, p)}

\* Every path but a root's ends at a child of the path before.
IsForest(d) ==
    /\ {p \in DOMAIN d : Len(p) = 1} = {<<x>> : x \in Roots}
    /\ \A p \in DOMAIN d : Len(p) # 1 =>
          Len(p) > 1 /\ Parent(p) \in DOMAIN d /\ p[Len(p)] \in 1..d[Parent(p)].n
    /\ \A p \in DOMAIN d : \A i \in 1..d[p].n : Append(p, i) \in DOMAIN d

-------------------------------------------------------------------------------
(* The operations on the document d. *)

\* The source is null afterwards, unless it was part of what it replaces.
Assign(d, p, q) == IF Inside(q, p) THEN Put(d, p, Get(d, q))
                   ELSE Put(Put(d, q, Leaf(Null)), p, Get(d, q))

Swap(d, p, q) == Put(Put(d, p, Get(d, q)), q, Get(d, p))

Copy(d, p, q) == Put(d, p, Get(d, q))

PushBack(d, p, q) ==
    WithChildren(Put(d, q, Leaf(Null)), p, Append(Children(d, p), Get(d, q)))

AddMember(d, p, name, q) ==
    WithChildren(Put(d, q, Leaf(Null)), p, Children(d, p) \o <<Leaf(Str(name)), Get(d, q)>>)

\* Children i to j go, the others keep their order.
Erase(d, p, i, j) ==
    LET ts == Children(d, p)
    IN  WithChildren(d, p, SubSeq(ts, 1, i - 1) \o SubSeq(ts, j + 1, Len(ts)))

\* Member i goes and the last one takes its place.
RemoveMember(d, p, i) ==
    LET ts == Children(d, p)
        n == Len(ts)
    IN  WithChildren(d, p, [k \in 1..n - 2 |->
            IF k = 2 * i - 1 THEN ts[n - 1] ELSE IF k = 2 * i THEN ts[n] ELSE ts[k]])
===============================================================================

----------------------------- MODULE JsonDomProofs -----------------------------
(***************************************************************************)
(* The operations of GenericValue on cells and blocks do to the trees what *)
(* JsonTree says, for any roots, names, block addresses and capacities,    *)
(* with an allocator that frees and with the pool, and with any bounds.    *)
(*                                                                         *)
(* The cells of all trees are a function f from paths to cells, as the     *)
(* document is one from paths to nodes.  Placed(m, f) says that the memory *)
(* m has f's cells where their owners' blocks are, and See(m, f) is what   *)
(* they show.  Each operation is a change of f by the operators of         *)
(* JsonTree and a change of m, which Placed keeps together.                *)
(***************************************************************************)
EXTENDS JsonDom, SequenceTheorems, WellFoundedInduction, TLAPS

Steps == Roots \cup Nat
Path == Seq(Steps)
Below(p, r) == p \o r
Down(p, i) == Append(p, i)
Tip(p) == p[Len(p)]

-------------------------------------------------------------------------------
LEMMA PathBelow ==
    ASSUME NEW p \in Path, NEW r \in Path
    PROVE  /\ Below(p, r) \in Path
           /\ Tree!Inside(Below(p, r), p)
           /\ Tree!Rest(Below(p, r), p) = r
<1>1. Below(p, r) \in Path
  BY DEF Path, Below
<1>2. Tree!Inside(Below(p, r), p)
  BY DEF Path, Below, Tree!Inside
<1>3. Tree!Rest(Below(p, r), p) = r
  BY DEF Path, Below, Tree!Rest
<1> QED BY <1>1, <1>2, <1>3

LEMMA PathRest ==
    ASSUME NEW p \in Path, NEW x \in Path, Tree!Inside(x, p)
    PROVE  /\ Tree!Rest(x, p) \in Path
           /\ Below(p, Tree!Rest(x, p)) = x
<1>0. Len(p) <= Len(x) /\ \A k \in 1..Len(p) : x[k] = p[k]
  BY DEF Tree!Inside
<1>1. Tree!Rest(x, p) \in Path
  BY <1>0 DEF Path, Tree!Rest
<1>2. Below(p, Tree!Rest(x, p)) = x
  BY <1>0 DEF Path, Tree!Rest, Below
<1> QED BY <1>1, <1>2

LEMMA PathDown ==
    ASSUME NEW x \in Path, NEW i \in Steps
    PROVE  /\ Down(x, i) \in Path
           /\ Down(x, i) # <<>>
           /\ Len(Down(x, i)) = Len(x) + 1
           /\ Tree!Parent(Down(x, i)) = x
           /\ Tip(Down(x, i)) = i
           /\ Tree!Inside(Down(x, i), x)
<1>1. Down(x, i) \in Path /\ Len(Down(x, i)) = Len(x) + 1 /\ Tip(Down(x, i)) = i
  BY DEF Path, Down, Tip
<1>2. Tree!Parent(Down(x, i)) = x
  BY DEF Path, Down, Tree!Parent
<1>3. Tree!Inside(Down(x, i), x)
  BY DEF Path, Down, Tree!Inside
<1>4. Down(x, i) # <<>>
  BY <1>1 DEF Path
<1> QED BY <1>1, <1>2, <1>3, <1>4

LEMMA PathUp ==
    ASSUME NEW x \in Path, x # <<>>
    PROVE  /\ Tree!Parent(x) \in Path /\ Tip(x) \in Steps
           /\ Len(Tree!Parent(x)) = Len(x) - 1 /\ Len(x) \in Nat
           /\ Down(Tree!Parent(x), Tip(x)) = x
<1>1. Len(x) \in Nat \ {0}
  BY DEF Path
<1>2. Tree!Parent(x) \in Path /\ Tip(x) \in Steps /\ Len(Tree!Parent(x)) = Len(x) - 1
  <2> DEFINE n == Len(x) - 1
  <2>1. n \in Nat /\ \A k \in 1..n : x[k] \in Steps
    BY <1>1 DEF Path
  <2>2. SubSeq(x, 1, n) \in Seq(Steps) /\ Len(SubSeq(x, 1, n)) = n
    <3> HIDE DEF n
    <3> QED BY <2>1, SubSeqProperties
  <2>3. Tree!Parent(x) \in Path /\ Len(Tree!Parent(x)) = Len(x) - 1
    BY <2>2 DEF Path, Tree!Parent
  <2> QED BY <1>1, <2>3 DEF Path, Tip
<1>3. Down(Tree!Parent(x), Tip(x)) = x
  BY <1>1 DEF Path, Tree!Parent, Tip, Down
<1> QED BY <1>1, <1>2, <1>3

LEMMA PathBelowDown ==
    ASSUME NEW p \in Path, NEW r \in Path, NEW i \in Steps
    PROVE  Below(p, Down(r, i)) = Down(Below(p, r), i)
  BY DEF Path, Below, Down

LEMMA PathBelowBelow ==
    ASSUME NEW p \in Path, NEW r \in Path, NEW i \in Steps
    PROVE  Below(Down(p, i), r) = Below(p, Below(<<i>>, r))
  BY DEF Path, Below, Down

LEMMA PathEmpty ==
    ASSUME NEW p \in Path
    PROVE  <<>> \in Path /\ Below(p, <<>>) = p /\ Below(<<>>, p) = p
  BY DEF Path, Below

LEMMA PathOne ==
    ASSUME NEW r \in Path, NEW i \in Steps
    PROVE  /\ <<i>> \in Path /\ Down(<<>>, i) = <<i>>
           /\ Below(<<i>>, r) \in Path /\ Below(<<i>>, r) # <<>> /\ Below(<<i>>, r)[1] = i
           /\ Tree!Rest(Below(<<i>>, r), <<i>>) = r
<1>1. <<i>> \in Path /\ Down(<<>>, i) = <<i>> /\ Below(<<i>>, r)[1] = i
  BY DEF Path, Below, Down
<1>2. Below(<<i>>, r) # <<>>
  BY DEF Path, Below, Down
<1> QED BY <1>1, <1>2, PathBelow

LEMMA PathInside ==
    ASSUME NEW x \in Path, NEW p \in Path, NEW i \in Steps
    PROVE  /\ Tree!Inside(x, x) /\ Tree!Inside(x, <<>>)
           /\ Tree!Inside(Down(x, i), p) <=> Tree!Inside(x, p) \/ p = Down(x, i)
           /\ Tree!Inside(x, p) => Tree!Rest(Down(x, i), p) = Down(Tree!Rest(x, p), i)
           /\ Tree!Rest(x, x) = <<>> /\ Tree!Rest(x, <<>>) = x
           /\ Tree!Inside(x, p) /\ Tree!Rest(x, p) = <<>> => x = p
           /\ Tree!Inside(x, p) => Len(p) <= Len(x)
<1>1. Tree!Inside(x, x) /\ Tree!Inside(x, <<>>) /\ (Tree!Inside(x, p) => Len(p) <= Len(x))
  BY DEF Path, Tree!Inside
<1>2. Tree!Inside(Down(x, i), p) <=> Tree!Inside(x, p) \/ p = Down(x, i)
  BY DEF Path, Tree!Inside, Down
<1>3. Tree!Inside(x, p) => Tree!Rest(Down(x, i), p) = Down(Tree!Rest(x, p), i)
  <2>1. SUFFICES ASSUME Tree!Inside(x, p) PROVE Tree!Rest(Down(x, i), p) = Down(Tree!Rest(x, p), i)
    OBVIOUS
  <2>2. Tree!Rest(x, p) \in Path /\ x = Below(p, Tree!Rest(x, p))
    BY <2>1, PathRest
  <2> DEFINE r == Tree!Rest(x, p)
  <2>3. Below(p, Down(r, i)) = Down(Below(p, r), i) /\ Down(r, i) \in Path
    <3>1. r \in Path
      BY <2>2
    <3> HIDE DEF r
    <3>2. Below(p, Down(r, i)) = Down(Below(p, r), i)
      BY <3>1, PathBelowDown
    <3>3. Down(r, i) \in Path
      BY <3>1, PathDown
    <3> QED BY <3>2, <3>3
  <2> QED BY <2>2, <2>3, PathBelow
<1>4. Tree!Rest(x, x) = <<>> /\ Tree!Rest(x, <<>>) = x
  BY DEF Path, Tree!Rest
<1>5. Tree!Inside(x, p) /\ Tree!Rest(x, p) = <<>> => x = p
  <2>1. Below(p, <<>>) = p
    BY PathEmpty
  <2> QED BY <2>1, PathRest
<1> QED BY <1>1, <1>2, <1>3, <1>4, <1>5

LEMMA PathSelf ==
    ASSUME NEW x \in Path
    PROVE  Tree!Inside(x, x) /\ Tree!Rest(x, x) = <<>>
  BY DEF Path, Tree!Inside, Tree!Rest

LEMMA PathTop ==
    ASSUME NEW p \in Path, Tree!Inside(<<>>, p)
    PROVE  p = <<>>
  BY DEF Path, Tree!Inside

LEMMA PathHead ==
    ASSUME NEW x \in Path, x # <<>>
    PROVE  \E i \in Steps, r \in Path : x = Below(<<i>>, r)
<1>1. x[1] \in Steps /\ Tree!Inside(x, <<x[1]>>) /\ <<x[1]>> \in Path
  BY DEF Path, Tree!Inside
<1> QED BY <1>1, PathRest

LEMMA PathOrder ==
    ASSUME NEW x \in Path, NEW p \in Path, NEW q \in Path
    PROVE  /\ Tree!Inside(x, p) /\ Tree!Inside(p, q) => Tree!Inside(x, q)
           /\ Tree!Inside(p, q) /\ Tree!Inside(q, p) => p = q
           /\ Tree!Inside(x, p) /\ Tree!Inside(x, q) => Tree!Inside(p, q) \/ Tree!Inside(q, p)
<1>1. Tree!Inside(x, p) /\ Tree!Inside(p, q) => Tree!Inside(x, q)
  BY DEF Path, Tree!Inside
<1>2. Tree!Inside(p, q) /\ Tree!Inside(q, p) => p = q
  BY DEF Path, Tree!Inside
<1>3. Tree!Inside(x, p) /\ Tree!Inside(x, q) => Tree!Inside(p, q) \/ Tree!Inside(q, p)
  BY DEF Path, Tree!Inside
<1> QED BY <1>1, <1>2, <1>3

LEMMA PathSame ==
    ASSUME NEW p \in Path, NEW r \in Path, NEW s \in Path, NEW x \in Path,
           NEW i \in Steps, NEW j \in Steps
    PROVE  /\ Below(p, r) = Below(p, s) => r = s
           /\ Down(r, i) = Down(s, j) => r = s /\ i = j
           /\ Below(<<i>>, r) = Below(<<j>>, s) => i = j /\ r = s
<1>1. Below(p, r) = Below(p, s) => r = s
  BY PathBelow
<1>2. Down(r, i) = Down(s, j) => r = s /\ i = j
  BY PathDown
<1>3. Below(<<i>>, r) = Below(<<j>>, s) => i = j /\ r = s
  <2>1. Below(<<i>>, r)[1] = i /\ Tree!Rest(Below(<<i>>, r), <<i>>) = r
    BY PathOne
  <2>2. Below(<<j>>, s)[1] = j /\ Tree!Rest(Below(<<j>>, s), <<j>>) = s
    BY PathOne
  <2> QED BY <2>1, <2>2
<1> QED BY <1>1, <1>2, <1>3

\* The least length.
LEMMA PathInduction ==
    ASSUME NEW S \in SUBSET Path, NEW Q,
           \A x \in S : (\A y \in S : Len(y) < Len(x) => y \in Q) => x \in Q
    PROVE  S \subseteq Q
<1> DEFINE R == {z \in Nat \X Nat : z[1] < z[2]}
<1> DEFINE B == {Len(x) : x \in S \ Q}
<1>1. IsWellFoundedOn(R, Nat)
  BY NatLessThanWellFounded DEF OpToRel
<1>2. B \subseteq Nat
  BY DEF Path
<1>3. SUFFICES ASSUME ~(S \subseteq Q) PROVE FALSE
  OBVIOUS
<1> HIDE DEF R
<1>4. PICK n \in B : \A k \in B : ~(<<k, n>> \in R)
  <2>0. PICK x \in S : x \notin Q
    BY <1>3
  <2>1. Len(x) \in B
    BY <2>0
  <2> HIDE DEF B
  <2> QED BY <1>1, <1>2, <2>1, WFMin
<1>5. PICK x \in S \ Q : n = Len(x)
  BY <1>4
<1>6. \A y \in S \ Q : ~(Len(y) < Len(x))
  <2> SUFFICES ASSUME NEW y \in S \ Q, Len(y) < Len(x) PROVE FALSE
    OBVIOUS
  <2>1. Len(y) \in B /\ Len(y) \in Nat /\ n \in Nat
    BY <1>2
  <2> HIDE DEF B
  <2>2. <<Len(y), n>> \in R
    BY <1>5, <2>1 DEF R
  <2> QED BY <1>4, <2>1, <2>2
<1> QED BY <1>5, <1>6

-------------------------------------------------------------------------------
Map(f) == f = [x \in DOMAIN f |-> f[x]]

LEMMA MapEqual ==
    ASSUME NEW f, NEW g, Map(f), Map(g), DOMAIN f = DOMAIN g, \A x \in DOMAIN f : f[x] = g[x]
    PROVE  f = g
<1>1. [x \in DOMAIN f |-> f[x]] = [x \in DOMAIN g |-> g[x]]
  OBVIOUS
<1> QED BY <1>1 DEF Map

LEMMA PathMapEqual ==
    ASSUME NEW f, NEW g, Map(f), Map(g), DOMAIN f \subseteq Path, DOMAIN g \subseteq Path,
           \A x \in Path : /\ x \in DOMAIN f <=> x \in DOMAIN g
                           /\ x \in DOMAIN f => f[x] = g[x]
    PROVE  f = g
<1>1. DOMAIN f = DOMAIN g
  OBVIOUS
<1> QED BY <1>1, MapEqual

LEMMA GetForm ==
    ASSUME NEW d, DOMAIN d \subseteq Path, NEW p \in Path
    PROVE  /\ Map(Tree!Get(d, p))
           /\ DOMAIN Tree!Get(d, p) \subseteq Path
           /\ \A r \in Path : r \in DOMAIN Tree!Get(d, p) <=> Below(p, r) \in DOMAIN d
           /\ \A r \in DOMAIN Tree!Get(d, p) : Tree!Get(d, p)[r] = d[Below(p, r)]
<1> DEFINE D == {Tree!Rest(x, p) : x \in {x \in DOMAIN d : Tree!Inside(x, p)}}
<1>1. Tree!Get(d, p) = [r \in D |-> d[Below(p, r)]]
  BY DEF Tree!Get, Below
<1>2. D \subseteq Path
  BY PathRest
<1>3. ASSUME NEW r \in Path PROVE r \in D <=> Below(p, r) \in DOMAIN d
  <2>1. ASSUME r \in D PROVE Below(p, r) \in DOMAIN d
    <3>1. PICK x \in DOMAIN d : Tree!Inside(x, p) /\ r = Tree!Rest(x, p)
      BY <2>1
    <3>2. x \in Path
      OBVIOUS
    <3> QED BY <3>1, <3>2, PathRest
  <2>2. ASSUME Below(p, r) \in DOMAIN d PROVE r \in D
    <3>1. Tree!Inside(Below(p, r), p) /\ r = Tree!Rest(Below(p, r), p)
      BY PathBelow
    <3> QED BY <2>2, <3>1
  <2> QED BY <2>1, <2>2
<1> HIDE DEF D
<1> QED BY <1>1, <1>2, <1>3 DEF Map

LEMMA PutForm ==
    ASSUME NEW d, DOMAIN d \subseteq Path, NEW p \in Path, NEW t, DOMAIN t \subseteq Path
    PROVE  /\ Map(Tree!Put(d, p, t))
           /\ DOMAIN Tree!Put(d, p, t) \subseteq Path
           /\ \A x \in Path : x \in DOMAIN Tree!Put(d, p, t) <=>
                 IF Tree!Inside(x, p) THEN Tree!Rest(x, p) \in DOMAIN t ELSE x \in DOMAIN d
           /\ \A x \in DOMAIN Tree!Put(d, p, t) : Tree!Put(d, p, t)[x] =
                 IF Tree!Inside(x, p) THEN t[Tree!Rest(x, p)] ELSE d[x]
<1> DEFINE D == {x \in DOMAIN d : ~Tree!Inside(x, p)} \cup {Below(p, r) : r \in DOMAIN t}
<1>1. Tree!Put(d, p, t) =
          [x \in D |-> IF Tree!Inside(x, p) THEN t[Tree!Rest(x, p)] ELSE d[x]]
  BY DEF Tree!Put, Below
<1>2. D \subseteq Path
  BY PathBelow
<1>3. ASSUME NEW x \in Path
      PROVE  x \in D <=> IF Tree!Inside(x, p) THEN Tree!Rest(x, p) \in DOMAIN t ELSE x \in DOMAIN d
  <2>1. CASE Tree!Inside(x, p)
    <3>1. x = Below(p, Tree!Rest(x, p))
      BY <2>1, PathRest
    <3>2. \A r \in DOMAIN t : x = Below(p, r) => Tree!Rest(x, p) = r
      BY PathBelow
    <3> QED BY <2>1, <3>1, <3>2
  <2>2. CASE ~Tree!Inside(x, p)
    <3>1. \A r \in DOMAIN t : x # Below(p, r)
      BY <2>2, PathBelow
    <3> QED BY <2>2, <3>1
  <2> QED BY <2>1, <2>2
<1> HIDE DEF D
<1> QED BY <1>1, <1>2, <1>3 DEF Map

\* The trees below a node are at numbers.
Trees(ts) == /\ DOMAIN ts \subseteq Nat
             /\ \A i \in DOMAIN ts : DOMAIN ts[i] \subseteq Path

\* t is node with the trees ts below it.
IsOver(t, node, ts) ==
    /\ DOMAIN t \subseteq Path
    /\ <<>> \in DOMAIN t /\ t[<<>>] = node
    /\ \A i \in Steps, r \in Path :
          Below(<<i>>, r) \in DOMAIN t <=> i \in DOMAIN ts /\ r \in DOMAIN ts[i]
    /\ \A i \in Steps, r \in Path :
          i \in DOMAIN ts /\ r \in DOMAIN ts[i] => t[Below(<<i>>, r)] = ts[i][r]
    /\ \A x \in DOMAIN t : x = <<>> \/
          \E i \in Steps, r \in Path : i \in DOMAIN ts /\ r \in DOMAIN ts[i] /\ x = Below(<<i>>, r)

LEMMA OverForm ==
    ASSUME NEW node, NEW ts, Trees(ts)
    PROVE  Map(Tree!Over(node, ts)) /\ IsOver(Tree!Over(node, ts), node, ts)
<1> DEFINE D == {<<>>} \cup UNION {{Below(<<i>>, s) : s \in DOMAIN ts[i]} : i \in DOMAIN ts}
           e(r) == IF r = <<>> THEN node ELSE ts[r[1]][Tree!Rest(r, <<r[1]>>)]
<1>1. Tree!Over(node, ts) = [r \in D |-> e(r)]
  BY DEF Tree!Over, Below
<1>2. \A i \in DOMAIN ts : i \in Steps /\ DOMAIN ts[i] \subseteq Path
  BY DEF Trees, Steps
<1>3. \A x \in D : x = <<>> \/ \E i \in DOMAIN ts : \E r \in DOMAIN ts[i] : x = Below(<<i>>, r)
  OBVIOUS
<1>4. D \subseteq Path
  <2>1. \A i \in DOMAIN ts : \A r \in DOMAIN ts[i] : Below(<<i>>, r) \in Path
    BY <1>2, PathOne
  <2> HIDE DEF D
  <2>2. <<>> \in Path
    BY DEF Path
  <2> QED BY <1>3, <2>1, <2>2
<1>5. ASSUME NEW i \in Steps, NEW r \in Path
      PROVE  Below(<<i>>, r) \in D <=> i \in DOMAIN ts /\ r \in DOMAIN ts[i]
  <2>1. ASSUME Below(<<i>>, r) \in D PROVE i \in DOMAIN ts /\ r \in DOMAIN ts[i]
    <3>1. Below(<<i>>, r) # <<>>
      BY PathOne
    <3>2. PICK j \in DOMAIN ts : \E s \in DOMAIN ts[j] : Below(<<i>>, r) = Below(<<j>>, s)
      BY <1>3, <2>1, <3>1
    <3>3. PICK s \in DOMAIN ts[j] : Below(<<i>>, r) = Below(<<j>>, s)
      BY <3>2
    <3>4. i = j /\ r = s
      <4>1. j \in Steps /\ s \in Path
        BY <1>2
      <4> QED BY <3>3, <4>1, PathSame
    <3> QED BY <3>4
  <2>2. ASSUME i \in DOMAIN ts, r \in DOMAIN ts[i] PROVE Below(<<i>>, r) \in D
    BY <2>2
  <2> QED BY <2>1, <2>2
<1>6. ASSUME NEW i \in DOMAIN ts, NEW r \in DOMAIN ts[i]
      PROVE  e(Below(<<i>>, r)) = ts[i][r]
  <2>1. i \in Steps /\ r \in Path
    BY <1>2
  <2>2. /\ Below(<<i>>, r) # <<>> /\ Below(<<i>>, r)[1] = i
        /\ Tree!Rest(Below(<<i>>, r), <<i>>) = r
    BY <2>1, PathOne
  <2> QED BY <2>2
<1>7. <<>> \in D /\ e(<<>>) = node
  OBVIOUS
<1> HIDE DEF D, e
<1>8. \A i \in DOMAIN ts : \A r \in DOMAIN ts[i] : Below(<<i>>, r) \in D
  BY <1>2, <1>5
<1>9. /\ \A i \in Steps, r \in Path : i \in DOMAIN ts /\ r \in DOMAIN ts[i] =>
            Tree!Over(node, ts)[Below(<<i>>, r)] = ts[i][r]
  BY <1>1, <1>6, <1>8
<1>10. \A x \in D : x = <<>> \/
          \E i \in Steps, r \in Path : i \in DOMAIN ts /\ r \in DOMAIN ts[i] /\ x = Below(<<i>>, r)
  BY <1>2, <1>3
<1> QED BY <1>1, <1>4, <1>5, <1>7, <1>9, <1>10 DEF Map, IsOver

\* What is put can be got, and what is elsewhere stays.
LEMMA GetPut ==
    ASSUME NEW d, DOMAIN d \subseteq Path, NEW p \in Path,
           NEW t, Map(t), DOMAIN t \subseteq Path
    PROVE  Tree!Get(Tree!Put(d, p, t), p) = t
<1> DEFINE g == Tree!Put(d, p, t)
<1>1. DOMAIN g \subseteq Path
  BY PutForm
<1>2. ASSUME NEW r \in Path
      PROVE  /\ r \in DOMAIN Tree!Get(g, p) <=> r \in DOMAIN t
             /\ r \in DOMAIN Tree!Get(g, p) => Tree!Get(g, p)[r] = t[r]
  <2>1. Below(p, r) \in Path /\ Tree!Inside(Below(p, r), p) /\ Tree!Rest(Below(p, r), p) = r
    BY PathBelow
  <2>2. /\ Below(p, r) \in DOMAIN g <=> r \in DOMAIN t
        /\ Below(p, r) \in DOMAIN g => g[Below(p, r)] = t[r]
    BY <2>1, PutForm
  <2> HIDE DEF g
  <2> QED BY <1>1, <2>2, GetForm
<1>3. Map(Tree!Get(g, p)) /\ DOMAIN Tree!Get(g, p) \subseteq Path
  BY <1>1, GetForm
<1> QED BY <1>2, <1>3, PathMapEqual

LEMMA ApartBelow ==
    ASSUME NEW p \in Path, NEW q \in Path, Tree!Apart(p, q), NEW r \in Path
    PROVE  ~Tree!Inside(Below(q, r), p)
<1>1. Below(q, r) \in Path /\ Tree!Inside(Below(q, r), q)
  BY PathBelow
<1> QED BY <1>1, PathOrder DEF Tree!Apart

LEMMA GetPutApart ==
    ASSUME NEW d, DOMAIN d \subseteq Path, NEW p \in Path, NEW q \in Path, Tree!Apart(p, q),
           NEW t, DOMAIN t \subseteq Path
    PROVE  Tree!Get(Tree!Put(d, p, t), q) = Tree!Get(d, q)
<1> DEFINE g == Tree!Put(d, p, t)
<1>1. DOMAIN g \subseteq Path
  BY PutForm
<1>2. ASSUME NEW r \in Path
      PROVE  /\ r \in DOMAIN Tree!Get(g, q) <=> r \in DOMAIN Tree!Get(d, q)
             /\ r \in DOMAIN Tree!Get(g, q) => Tree!Get(g, q)[r] = Tree!Get(d, q)[r]
  <2>1. Below(q, r) \in Path /\ ~Tree!Inside(Below(q, r), p)
    BY PathBelow, ApartBelow
  <2>2. /\ Below(q, r) \in DOMAIN g <=> Below(q, r) \in DOMAIN d
        /\ Below(q, r) \in DOMAIN g => g[Below(q, r)] = d[Below(q, r)]
    BY <2>1, PutForm
  <2> HIDE DEF g
  <2> QED BY <1>1, <2>2, GetForm
<1>3. Map(Tree!Get(g, q)) /\ DOMAIN Tree!Get(g, q) \subseteq Path
  BY <1>1, GetForm
<1>4. Map(Tree!Get(d, q)) /\ DOMAIN Tree!Get(d, q) \subseteq Path
  BY GetForm
<1> QED BY <1>2, <1>3, <1>4, PathMapEqual

\* What was put further down is lost.
LEMMA PutPut ==
    ASSUME NEW d, DOMAIN d \subseteq Path, NEW p \in Path, NEW q \in Path, Tree!Inside(q, p),
           NEW t, DOMAIN t \subseteq Path, NEW u, DOMAIN u \subseteq Path
    PROVE  Tree!Put(Tree!Put(d, q, u), p, t) = Tree!Put(d, p, t)
<1> DEFINE g == Tree!Put(d, q, u)
<1>1. DOMAIN g \subseteq Path
  BY PutForm
<1>2. ASSUME NEW x \in Path
      PROVE  /\ x \in DOMAIN Tree!Put(g, p, t) <=> x \in DOMAIN Tree!Put(d, p, t)
             /\ x \in DOMAIN Tree!Put(g, p, t) => Tree!Put(g, p, t)[x] = Tree!Put(d, p, t)[x]
  <2>1. ~Tree!Inside(x, p) => ~Tree!Inside(x, q)
    BY PathOrder
  <2>2. ~Tree!Inside(x, p) => (x \in DOMAIN g <=> x \in DOMAIN d)
    BY <2>1, PutForm
  <2>3. ~Tree!Inside(x, p) /\ x \in DOMAIN g => g[x] = d[x]
    BY <2>1, PutForm
  <2> HIDE DEF g
  <2>4. /\ x \in DOMAIN Tree!Put(g, p, t) <=>
              IF Tree!Inside(x, p) THEN Tree!Rest(x, p) \in DOMAIN t ELSE x \in DOMAIN g
        /\ x \in DOMAIN Tree!Put(g, p, t) => Tree!Put(g, p, t)[x] =
              IF Tree!Inside(x, p) THEN t[Tree!Rest(x, p)] ELSE g[x]
    BY <1>1, PutForm
  <2>5. /\ x \in DOMAIN Tree!Put(d, p, t) <=>
              IF Tree!Inside(x, p) THEN Tree!Rest(x, p) \in DOMAIN t ELSE x \in DOMAIN d
        /\ x \in DOMAIN Tree!Put(d, p, t) => Tree!Put(d, p, t)[x] =
              IF Tree!Inside(x, p) THEN t[Tree!Rest(x, p)] ELSE d[x]
    BY PutForm
  <2> QED BY <2>2, <2>3, <2>4, <2>5
<1>3. Map(Tree!Put(g, p, t)) /\ DOMAIN Tree!Put(g, p, t) \subseteq Path
  BY <1>1, PutForm
<1>4. Map(Tree!Put(d, p, t)) /\ DOMAIN Tree!Put(d, p, t) \subseteq Path
  BY PutForm
<1> QED BY <1>2, <1>3, <1>4, PathMapEqual

LEMMA PutGet ==
    ASSUME NEW d, Map(d), DOMAIN d \subseteq Path, NEW p \in Path
    PROVE  Tree!Put(d, p, Tree!Get(d, p)) = d
<1> DEFINE t == Tree!Get(d, p)
           g == Tree!Put(d, p, t)
<1>1. DOMAIN t \subseteq Path
  BY GetForm
<1>2. ASSUME NEW x \in Path
      PROVE  (x \in DOMAIN g <=> x \in DOMAIN d) /\ (x \in DOMAIN g => g[x] = d[x])
  <2>1. CASE Tree!Inside(x, p)
    <3>1. Tree!Rest(x, p) \in Path /\ Below(p, Tree!Rest(x, p)) = x
      BY <2>1, PathRest
    <3>2. /\ Tree!Rest(x, p) \in DOMAIN t <=> x \in DOMAIN d
          /\ Tree!Rest(x, p) \in DOMAIN t => t[Tree!Rest(x, p)] = d[x]
      BY <3>1, GetForm
    <3> HIDE DEF t
    <3> QED BY <1>1, <2>1, <3>2, PutForm
  <2>2. CASE ~Tree!Inside(x, p)
    <3> HIDE DEF t
    <3> QED BY <1>1, <2>2, PutForm
  <2> QED BY <2>1, <2>2
<1>3. Map(g) /\ DOMAIN g \subseteq Path
  <2> HIDE DEF t
  <2> QED BY <1>1, PutForm
<1> QED BY <1>2, <1>3, PathMapEqual

-------------------------------------------------------------------------------
Values == {"Null", "Const", "Copy", "Array", "Object"}
CellSet == [k : Values \cup {"Units"}, s : Names \cup {<<>>},
            block : Nat, size : Nat, cap : Nat]

\* How many children a cell's value has.
Kids(c) == IF c.k \in {"Array", "Object"} THEN InUse(c) ELSE 0

TreeShape(t) ==
    /\ DOMAIN t \subseteq Path
    /\ <<>> \in DOMAIN t
    /\ \A x \in DOMAIN t : t[x] \in CellSet
    /\ \A x \in Path, i \in Steps :
          Down(x, i) \in DOMAIN t <=> x \in DOMAIN t /\ i \in 1..Kids(t[x])

ForestShape(f) ==
    /\ DOMAIN f \subseteq Path
    /\ <<>> \notin DOMAIN f
    /\ \A x \in DOMAIN f : f[x] \in CellSet
    /\ \A x \in Path, i \in Steps : Down(x, i) \in DOMAIN f <=>
          IF x = <<>> THEN i \in Roots ELSE x \in DOMAIN f /\ i \in 1..Kids(f[x])

LEMMA KidsNat ==
    ASSUME NEW c \in CellSet
    PROVE  Kids(c) \in Nat /\ InUse(c) \in Nat /\ (InUse(c) = 0 <=> c.size = 0)
  BY DEF Kids, InUse, CellSet

LEMMA GetTree ==
    ASSUME NEW f, ForestShape(f), NEW p \in DOMAIN f
    PROVE  TreeShape(Tree!Get(f, p))
<1> DEFINE t == Tree!Get(f, p)
<1>1. DOMAIN f \subseteq Path /\ p \in Path /\ p # <<>>
  BY DEF ForestShape
<1>2. /\ DOMAIN t \subseteq Path
      /\ \A r \in Path : r \in DOMAIN t <=> Below(p, r) \in DOMAIN f
      /\ \A r \in DOMAIN t : t[r] = f[Below(p, r)]
  BY <1>1, GetForm
<1>3. <<>> \in DOMAIN t
  BY <1>1, <1>2, PathEmpty
<1> HIDE DEF t
<1>4. \A x \in DOMAIN t : t[x] \in CellSet
  BY <1>2 DEF ForestShape
<1>5. ASSUME NEW x \in Path, NEW i \in Steps
      PROVE  Down(x, i) \in DOMAIN t <=> x \in DOMAIN t /\ i \in 1..Kids(t[x])
  <2>1. Down(x, i) \in Path /\ Below(p, x) \in Path /\ Tree!Inside(Below(p, x), p)
    BY <1>1, PathDown, PathBelow
  <2>2. Below(p, x) # <<>>
    BY <1>1, <2>1, PathTop
  <2>3. Below(p, Down(x, i)) = Down(Below(p, x), i)
    BY <1>1, PathBelowDown
  <2>4. Down(Below(p, x), i) \in DOMAIN f <=>
            Below(p, x) \in DOMAIN f /\ i \in 1..Kids(f[Below(p, x)])
    BY <2>1, <2>2 DEF ForestShape
  <2> QED BY <1>2, <2>1, <2>3, <2>4
<1> QED BY <1>2, <1>3, <1>4, <1>5 DEF TreeShape, t

LEMMA PutForest ==
    ASSUME NEW f, ForestShape(f), NEW p \in DOMAIN f, NEW t, TreeShape(t)
    PROVE  ForestShape(Tree!Put(f, p, t))
<1> DEFINE g == Tree!Put(f, p, t)
<1>1. DOMAIN f \subseteq Path /\ p \in Path /\ p # <<>> /\ DOMAIN t \subseteq Path
  BY DEF ForestShape, TreeShape
<1>2. /\ DOMAIN g \subseteq Path
      /\ \A x \in Path : x \in DOMAIN g <=>
            IF Tree!Inside(x, p) THEN Tree!Rest(x, p) \in DOMAIN t ELSE x \in DOMAIN f
      /\ \A x \in DOMAIN g : g[x] = IF Tree!Inside(x, p) THEN t[Tree!Rest(x, p)] ELSE f[x]
  BY <1>1, PutForm
<1> HIDE DEF g
<1>3. <<>> \notin DOMAIN g
  BY <1>1, <1>2, PathTop, PathEmpty DEF ForestShape
<1>4. \A x \in DOMAIN g : g[x] \in CellSet
  BY <1>2 DEF ForestShape, TreeShape
<1>5. ASSUME NEW x \in Path, NEW i \in Steps
      PROVE  Down(x, i) \in DOMAIN g <=>
                 IF x = <<>> THEN i \in Roots ELSE x \in DOMAIN g /\ i \in 1..Kids(g[x])
  <2>1. /\ Down(x, i) \in Path
        /\ Tree!Inside(Down(x, i), p) <=> Tree!Inside(x, p) \/ p = Down(x, i)
        /\ Tree!Inside(x, p) => Tree!Rest(Down(x, i), p) = Down(Tree!Rest(x, p), i)
    BY <1>1, PathDown, PathInside
  <2>2. Down(x, i) \in DOMAIN f <=>
            IF x = <<>> THEN i \in Roots ELSE x \in DOMAIN f /\ i \in 1..Kids(f[x])
    BY DEF ForestShape
  <2>3. CASE Tree!Inside(x, p)
    <3>1. x # <<>>
      BY <1>1, <2>3, PathTop
    <3>2. Tree!Rest(x, p) \in Path
      BY <1>1, <2>3, PathRest
    <3>3. Down(Tree!Rest(x, p), i) \in DOMAIN t <=>
              Tree!Rest(x, p) \in DOMAIN t /\ i \in 1..Kids(t[Tree!Rest(x, p)])
      BY <3>2 DEF TreeShape
    <3> QED BY <1>2, <2>1, <2>3, <3>1, <3>3
  <2>4. CASE ~Tree!Inside(x, p) /\ p = Down(x, i)
    <3>1. Tree!Inside(p, p) /\ Tree!Rest(p, p) = <<>>
      BY <1>1, PathInside
    <3>2. Down(x, i) \in DOMAIN g
      BY <1>1, <1>2, <2>4, <3>1 DEF TreeShape
    <3> QED BY <1>2, <2>2, <2>4, <3>2
  <2>5. CASE ~Tree!Inside(x, p) /\ p # Down(x, i)
    <3>1. ~Tree!Inside(Down(x, i), p)
      BY <2>1, <2>5
    <3>2. (Down(x, i) \in DOMAIN g <=> Down(x, i) \in DOMAIN f) /\ (x \in DOMAIN g <=> x \in DOMAIN f)
      BY <1>2, <2>1, <2>5, <3>1
    <3>3. x \in DOMAIN g => g[x] = f[x]
      BY <1>2, <2>5
    <3> QED BY <2>2, <3>2, <3>3
  <2> QED BY <2>3, <2>4, <2>5
<1> QED BY <1>2, <1>3, <1>4, <1>5 DEF ForestShape, g

LEMMA OverTree ==
    ASSUME NEW c \in CellSet, NEW ts, DOMAIN ts = 1..Kids(c),
           \A i \in DOMAIN ts : TreeShape(ts[i])
    PROVE  TreeShape(Tree!Over(c, ts)) /\ Trees(ts)
<1> DEFINE t == Tree!Over(c, ts)
<1>1. Trees(ts)
  BY KidsNat DEF Trees, TreeShape
<1>2. IsOver(t, c, ts)
  BY <1>1, OverForm
<1> HIDE DEF t
<1>3. ASSUME NEW x \in DOMAIN t PROVE t[x] \in CellSet
  <2>1. CASE x = <<>>
    BY <1>2, <2>1 DEF IsOver
  <2>2. CASE x # <<>>
    <3>1. PICK i \in Steps, r \in Path : i \in DOMAIN ts /\ r \in DOMAIN ts[i] /\ x = Below(<<i>>, r)
      BY <1>2, <2>2 DEF IsOver
    <3>2. t[x] = ts[i][r] /\ TreeShape(ts[i])
      BY <1>2, <3>1 DEF IsOver
    <3> QED BY <3>1, <3>2 DEF TreeShape
  <2> QED BY <2>1, <2>2
<1>4. ASSUME NEW x \in Path, NEW i \in Steps
      PROVE  Down(x, i) \in DOMAIN t <=> x \in DOMAIN t /\ i \in 1..Kids(t[x])
  <2>1. CASE x = <<>>
    <3>1. Down(<<>>, i) = <<i>> /\ <<i>> \in Path /\ <<>> \in Path
      BY PathOne, PathEmpty
    <3>2. Down(<<>>, i) = Below(<<i>>, <<>>)
      BY <3>1, PathEmpty
    <3>3. Down(<<>>, i) \in DOMAIN t <=> i \in DOMAIN ts /\ <<>> \in DOMAIN ts[i]
      BY <1>2, <3>1, <3>2 DEF IsOver
    <3> QED BY <1>2, <2>1, <3>3 DEF TreeShape, IsOver
  <2>2. CASE x # <<>>
    <3>1. PICK j \in Steps, r \in Path : x = Below(<<j>>, r)
      BY <2>2, PathHead
    <3>2. Down(x, i) = Below(<<j>>, Down(r, i)) /\ Down(r, i) \in Path
      <4>1. <<j>> \in Path
        BY PathOne
      <4>2. Below(<<j>>, Down(r, i)) = Down(Below(<<j>>, r), i)
        BY <4>1, PathBelowDown
      <4> QED BY <3>1, <4>2, PathDown
    <3>3. /\ x \in DOMAIN t <=> j \in DOMAIN ts /\ r \in DOMAIN ts[j]
          /\ Down(x, i) \in DOMAIN t <=> j \in DOMAIN ts /\ Down(r, i) \in DOMAIN ts[j]
      BY <1>2, <3>1, <3>2 DEF IsOver
    <3>4. j \in DOMAIN ts => (Down(r, i) \in DOMAIN ts[j] <=>
                                  r \in DOMAIN ts[j] /\ i \in 1..Kids(ts[j][r]))
      BY DEF TreeShape
    <3>5. x \in DOMAIN t => t[x] = ts[j][r]
      BY <1>2, <3>1, <3>3 DEF IsOver
    <3> QED BY <3>3, <3>4, <3>5
  <2> QED BY <2>1, <2>2
<1> QED BY <1>1, <1>2, <1>3, <1>4 DEF TreeShape, IsOver, t

-------------------------------------------------------------------------------
Sound(m, c) ==
    /\ c \in CellSet /\ c.k # "Units"
    /\ c.k \in {"Null", "Const"} => c.block = 0
    /\ c.block = 0 => c.size = 0 /\ c.cap = 0
    /\ c.block # 0 => c.block \in DOMAIN m /\ DOMAIN m[c.block] = 1..InUse(c)
    /\ c.k = "Copy" => /\ c.block # 0 /\ c.size = 1
                       /\ m[c.block][1] \in CellSet
                       /\ m[c.block][1].k = "Units" /\ m[c.block][1].block = 0

\* The cells of f are where their owners in m have them, and no two have one block.
Body(m, f) ==
    /\ \A x \in DOMAIN f : Sound(m, f[x])
    /\ \A x \in DOMAIN f : \A i \in 1..Kids(f[x]) : f[Down(x, i)] = m[f[x].block][i]
    /\ \A x, y \in DOMAIN f : f[x].block = f[y].block /\ f[x].block # 0 => x = y

Stands(m, t) == TreeShape(t) /\ Body(m, t)

Placed(m, f) ==
    /\ Map(f) /\ ForestShape(f) /\ Body(m, f)
    /\ 0 \in DOMAIN m /\ DOMAIN m[0] = Roots
    /\ \A x \in Roots : f[Down(<<>>, x)] = m[0][x]

Used(f) == {f[x].block : x \in DOMAIN f} \ {0}
Outer(f, p) == {f[x].block : x \in {x \in DOMAIN f : ~Tree!Inside(x, p)}} \ {0}

See(m, f) == [x \in DOMAIN f |-> Shows(m, f[x])]

\* The address of the cell at p.
Addr(f, p) == <<IF Tree!Parent(p) = <<>> THEN 0 ELSE f[Tree!Parent(p)].block, Tip(p)>>

LEMMA PlacedPaths ==
    ASSUME NEW m, NEW f, Placed(m, f)
    PROVE  /\ DOMAIN f \subseteq Path /\ <<>> \notin DOMAIN f
           /\ \A x \in DOMAIN f : f[x] \in CellSet /\ Sound(m, f[x])
  BY DEF Placed, ForestShape, Body

LEMMA StandsPaths ==
    ASSUME NEW m, NEW t, Stands(m, t)
    PROVE  /\ DOMAIN t \subseteq Path /\ <<>> \in DOMAIN t
           /\ \A x \in DOMAIN t : t[x] \in CellSet /\ Sound(m, t[x])
  BY DEF Stands, TreeShape, Body

LEMMA KidsBlock ==
    ASSUME NEW m, NEW c, Sound(m, c), NEW i \in 1..Kids(c)
    PROVE  /\ c.block # 0 /\ c.block \in DOMAIN m /\ i \in DOMAIN m[c.block]
           /\ c.k \in {"Array", "Object"} /\ Kids(c) = InUse(c)
           /\ DOMAIN m[c.block] = 1..Kids(c)
           /\ i \in Steps
<1>1. c.k \in {"Array", "Object"} /\ Kids(c) = InUse(c)
  BY KidsNat DEF Kids
<1>2. c \in CellSet
  BY DEF Sound
<1>3. InUse(c) \in Nat /\ InUse(c) # 0
  BY <1>1, <1>2, KidsNat
<1>4. c.block # 0
  BY <1>2, <1>3, KidsNat DEF Sound
<1> QED BY <1>1, <1>3, <1>4 DEF Sound, Steps

LEMMA Cut ==
    ASSUME NEW m, NEW f, Placed(m, f), NEW p \in DOMAIN f
    PROVE  /\ Stands(m, Tree!Get(f, p))
           /\ Tree!Get(f, p)[<<>>] = f[p]
           /\ See(m, Tree!Get(f, p)) = Tree!Get(See(m, f), p)
<1> DEFINE t == Tree!Get(f, p)
<1>1. DOMAIN f \subseteq Path /\ p \in Path
  BY PlacedPaths
<1>2. TreeShape(t)
  BY GetTree DEF Placed
<1>3. /\ DOMAIN t \subseteq Path
      /\ \A r \in Path : r \in DOMAIN t <=> Below(p, r) \in DOMAIN f
      /\ \A r \in DOMAIN t : t[r] = f[Below(p, r)]
  BY <1>1, GetForm
<1>4. t[<<>>] = f[p]
  BY <1>1, <1>2, <1>3, PathEmpty DEF TreeShape
<1>5. See(m, t) = Tree!Get(See(m, f), p)
  <2>1. DOMAIN See(m, f) = DOMAIN f /\ \A x \in DOMAIN f : See(m, f)[x] = Shows(m, f[x])
    BY DEF See
  <2>2. /\ Map(Tree!Get(See(m, f), p)) /\ DOMAIN Tree!Get(See(m, f), p) \subseteq Path
        /\ \A r \in Path : r \in DOMAIN Tree!Get(See(m, f), p) <=> Below(p, r) \in DOMAIN f
        /\ \A r \in DOMAIN Tree!Get(See(m, f), p) :
              Tree!Get(See(m, f), p)[r] = See(m, f)[Below(p, r)]
    BY <1>1, <2>1, GetForm
  <2>3. DOMAIN See(m, t) = DOMAIN t /\ Map(See(m, t)) /\ \A r \in DOMAIN t : See(m, t)[r] = Shows(m, t[r])
    BY DEF See, Map
  <2> HIDE DEF t
  <2>4. ASSUME NEW r \in Path
        PROVE  /\ r \in DOMAIN See(m, t) <=> r \in DOMAIN Tree!Get(See(m, f), p)
               /\ r \in DOMAIN See(m, t) => See(m, t)[r] = Tree!Get(See(m, f), p)[r]
    BY <1>3, <2>1, <2>2, <2>3
  <2> QED BY <1>3, <2>2, <2>3, <2>4, PathMapEqual
<1> HIDE DEF t
<1>6. \A x \in DOMAIN t : Below(p, x) \in DOMAIN f /\ Sound(m, t[x])
  BY <1>3, PlacedPaths
<1>7. ASSUME NEW x \in DOMAIN t, NEW i \in 1..Kids(t[x])
      PROVE  t[Down(x, i)] = m[t[x].block][i]
  <2>1. i \in Steps
    BY <1>6, KidsBlock
  <2>2. Down(x, i) \in DOMAIN t /\ Below(p, Down(x, i)) = Down(Below(p, x), i)
    BY <1>1, <1>2, <1>3, <2>1, PathBelowDown DEF TreeShape
  <2>3. f[Down(Below(p, x), i)] = m[f[Below(p, x)].block][i]
    BY <1>3, <1>6 DEF Placed, Body
  <2> QED BY <1>3, <2>2, <2>3
<1>8. ASSUME NEW x \in DOMAIN t, NEW y \in DOMAIN t, t[x].block = t[y].block, t[x].block # 0
      PROVE  x = y
  <2>1. Below(p, x) = Below(p, y)
    BY <1>3, <1>6, <1>8 DEF Placed, Body
  <2> QED BY <1>1, <1>3, <2>1, PathBelow
<1> QED BY <1>2, <1>4, <1>5, <1>6, <1>7, <1>8 DEF Stands, Body, t

\* The blocks of a forest are those below p and those that are not.
LEMMA UsedSplit ==
    ASSUME NEW m, NEW f, Placed(m, f), NEW p \in DOMAIN f
    PROVE  /\ Used(f) = Outer(f, p) \cup Used(Tree!Get(f, p))
           /\ Outer(f, p) \cap Used(Tree!Get(f, p)) = {}
<1> DEFINE t == Tree!Get(f, p)
<1>1. DOMAIN f \subseteq Path /\ p \in Path
  BY PlacedPaths
<1>2. /\ DOMAIN t \subseteq Path
      /\ \A r \in Path : r \in DOMAIN t <=> Below(p, r) \in DOMAIN f
      /\ \A r \in DOMAIN t : t[r] = f[Below(p, r)]
  BY <1>1, GetForm
<1>3. ASSUME NEW x \in DOMAIN f, Tree!Inside(x, p)
      PROVE  Tree!Rest(x, p) \in DOMAIN t /\ f[x] = t[Tree!Rest(x, p)]
  <2>1. Tree!Rest(x, p) \in Path /\ Below(p, Tree!Rest(x, p)) = x
    BY <1>1, <1>3, PathRest
  <2> HIDE DEF t
  <2> QED BY <1>2, <2>1
<1> HIDE DEF t
<1>4. ASSUME NEW r \in DOMAIN t
      PROVE  Below(p, r) \in DOMAIN f /\ Tree!Inside(Below(p, r), p) /\ t[r] = f[Below(p, r)]
  BY <1>1, <1>2, PathBelow
<1>5. Used(f) \subseteq Outer(f, p) \cup Used(t)
  BY <1>3 DEF Used, Outer
<1>6. Outer(f, p) \cup Used(t) \subseteq Used(f)
  BY <1>4 DEF Used, Outer
<1>7. ASSUME NEW b \in Outer(f, p), b \in Used(t) PROVE FALSE
  <2>1. PICK x \in DOMAIN f : ~Tree!Inside(x, p) /\ b = f[x].block /\ b # 0
    BY DEF Outer
  <2>2. PICK r \in DOMAIN t : b = t[r].block
    BY <1>7 DEF Used
  <2>3. x = Below(p, r)
    BY <1>4, <2>1, <2>2 DEF Placed, Body
  <2> QED BY <1>4, <2>1, <2>3
<1> QED BY <1>5, <1>6, <1>7 DEF t

LEMMA UsedPut ==
    ASSUME NEW f, DOMAIN f \subseteq Path, NEW p \in Path, NEW t, DOMAIN t \subseteq Path
    PROVE  /\ Used(Tree!Put(f, p, t)) = Outer(f, p) \cup Used(t)
           /\ Outer(Tree!Put(f, p, t), p) = Outer(f, p)
<1> DEFINE g == Tree!Put(f, p, t)
<1>1. /\ DOMAIN g \subseteq Path
      /\ \A x \in Path : x \in DOMAIN g <=>
            IF Tree!Inside(x, p) THEN Tree!Rest(x, p) \in DOMAIN t ELSE x \in DOMAIN f
      /\ \A x \in DOMAIN g : g[x] = IF Tree!Inside(x, p) THEN t[Tree!Rest(x, p)] ELSE f[x]
  BY PutForm
<1> HIDE DEF g
<1>2. ASSUME NEW r \in DOMAIN t PROVE Below(p, r) \in DOMAIN g /\ g[Below(p, r)] = t[r]
  <2>1. /\ Below(p, r) \in Path /\ Tree!Inside(Below(p, r), p)
        /\ Tree!Rest(Below(p, r), p) = r
    BY PathBelow
  <2> QED BY <1>1, <2>1
<1>3. \A x \in Path : ~Tree!Inside(x, p) =>
          (x \in DOMAIN g <=> x \in DOMAIN f) /\ (x \in DOMAIN g => g[x] = f[x])
  BY <1>1
<1>4. \A x \in DOMAIN g : Tree!Inside(x, p) => Tree!Rest(x, p) \in DOMAIN t /\ g[x] = t[Tree!Rest(x, p)]
  BY <1>1
<1>5. Outer(g, p) = Outer(f, p)
  BY <1>1, <1>3 DEF Outer
<1>6. Used(g) \subseteq Outer(f, p) \cup Used(t)
  BY <1>1, <1>3, <1>4 DEF Outer, Used
<1>7. Outer(g, p) \subseteq Used(g)
  BY DEF Outer, Used
<1>8. Used(t) \subseteq Used(g)
  BY <1>2 DEF Used
<1> QED BY <1>5, <1>6, <1>7, <1>8 DEF g

\* Where a cell is, and that no two are at one place.
LEMMA Place ==
    ASSUME NEW m, NEW f, Placed(m, f), NEW p \in DOMAIN f
    PROVE  /\ Addr(f, p)[1] \in DOMAIN m /\ Addr(f, p)[2] \in DOMAIN m[Addr(f, p)[1]]
           /\ m[Addr(f, p)[1]][Addr(f, p)[2]] = f[p]
           /\ Addr(f, p)[1] \in Outer(f, p) \cup {0}
           /\ p \in Path /\ p # <<>> /\ Tree!Parent(p) \in Path /\ Tip(p) \in Steps
           /\ p = Down(Tree!Parent(p), Tip(p))
           /\ Tree!Parent(p) = <<>> => Addr(f, p) = <<0, Tip(p)>>
           /\ Tree!Parent(p) # <<>> => /\ Tree!Parent(p) \in DOMAIN f
                                       /\ Addr(f, p) = <<f[Tree!Parent(p)].block, Tip(p)>>
                                       /\ Tip(p) \in 1..Kids(f[Tree!Parent(p)])
                                       /\ f[Tree!Parent(p)].block # 0
                                       /\ f[Tree!Parent(p)].k \in {"Array", "Object"}
<1> DEFINE x == Tree!Parent(p)
           i == Tip(p)
<1>1. p \in Path /\ p # <<>>
  BY PlacedPaths
<1>2. x \in Path /\ i \in Steps /\ p = Down(x, i) /\ Len(x) = Len(p) - 1 /\ Len(p) \in Nat
  BY <1>1, PathUp
<1>3. Down(x, i) \in DOMAIN f <=> IF x = <<>> THEN i \in Roots ELSE x \in DOMAIN f /\ i \in 1..Kids(f[x])
  BY <1>2 DEF Placed, ForestShape
<1>4. CASE x = <<>>
  <2>1. Addr(f, p) = <<0, i>>
    BY <1>4 DEF Addr
  <2>2. i \in Roots
    BY <1>2, <1>3, <1>4
  <2>3. 0 \in DOMAIN m /\ DOMAIN m[0] = Roots /\ m[0][i] = f[p]
    BY <1>2, <1>4, <2>2 DEF Placed
  <2> QED BY <1>1, <1>2, <1>4, <2>1, <2>2, <2>3
<1>5. CASE x # <<>>
  <2>1. Addr(f, p) = <<f[x].block, i>>
    BY <1>5 DEF Addr
  <2>2. x \in DOMAIN f /\ i \in 1..Kids(f[x]) /\ Sound(m, f[x])
    BY <1>2, <1>3, <1>5, PlacedPaths
  <2>3. /\ f[x].block # 0 /\ f[x].block \in DOMAIN m /\ i \in DOMAIN m[f[x].block]
        /\ f[x].k \in {"Array", "Object"}
    BY <2>2, KidsBlock
  <2>4. m[f[x].block][i] = f[p]
    BY <1>2, <2>2 DEF Placed, Body
  <2>5. ~Tree!Inside(x, p)
    BY <1>1, <1>2, PathInside
  <2>6. f[x].block \in Outer(f, p)
    BY <2>2, <2>3, <2>5 DEF Outer
  <2> QED BY <1>1, <1>2, <1>5, <2>1, <2>2, <2>3, <2>4, <2>6
<1> QED BY <1>4, <1>5

LEMMA PlaceSame ==
    ASSUME NEW m, NEW f, Placed(m, f), NEW p \in DOMAIN f, NEW q \in DOMAIN f,
           Addr(f, p) = Addr(f, q)
    PROVE  p = q
<1>1. Tip(p) = Tip(q)
  BY DEF Addr
<1>2. Tree!Parent(p) = <<>> <=> Tree!Parent(q) = <<>>
  BY Place
<1>3. Tree!Parent(p) # <<>> => Tree!Parent(p) = Tree!Parent(q)
  <2>1. SUFFICES ASSUME Tree!Parent(p) # <<>> PROVE Tree!Parent(p) = Tree!Parent(q)
    OBVIOUS
  <2>2. /\ Tree!Parent(p) \in DOMAIN f /\ f[Tree!Parent(p)].block # 0
        /\ Tree!Parent(q) \in DOMAIN f
        /\ f[Tree!Parent(p)].block = f[Tree!Parent(q)].block
    BY <1>2, <2>1, Place
  <2> QED BY <2>2 DEF Placed, Body
<1> QED BY <1>1, <1>2, <1>3, Place

\* A value that is not inside another lies outside its blocks.
LEMMA AddrOuter ==
    ASSUME NEW m, NEW f, Placed(m, f), NEW p \in DOMAIN f, NEW q \in DOMAIN f,
           ~Tree!Inside(q, p)
    PROVE  Addr(f, q)[1] \in Outer(f, p) \cup {0}
<1> DEFINE b == Addr(f, q)
<1>1. CASE Tree!Parent(q) = <<>>
  BY <1>1, Place
<1>2. CASE Tree!Parent(q) # <<>>
  <2>1. /\ Tree!Parent(q) \in DOMAIN f /\ b[1] = f[Tree!Parent(q)].block /\ b[1] # 0
        /\ Tree!Parent(q) \in Path /\ Tip(q) \in Steps /\ q = Down(Tree!Parent(q), Tip(q))
    BY <1>2, Place
  <2>2. ~Tree!Inside(Tree!Parent(q), p)
    BY <2>1, PathInside, PlacedPaths
  <2> QED BY <2>1, <2>2 DEF Outer
<1> QED BY <1>1, <1>2

LEMMA ShowsSame ==
    ASSUME NEW m, NEW m1, NEW c, c.k = "Copy" => m1[c.block][1] = m[c.block][1]
    PROVE  Shows(m1, c) = Shows(m, c)
<1>1. CASE c.k = "Copy"
  BY <1>1 DEF Shows
<1>2. CASE c.k # "Copy"
  BY <1>2 DEF Shows
<1> QED BY <1>1, <1>2

\* A tree stands as long as its own blocks stay.
LEMMA Frame ==
    ASSUME NEW m, NEW m1, NEW t, Stands(m, t),
           \A b \in Used(t) : b \in DOMAIN m1 /\ m1[b] = m[b]
    PROVE  Stands(m1, t) /\ See(m1, t) = See(m, t)
<1>1. ASSUME NEW x \in DOMAIN t
      PROVE  t[x].block # 0 => t[x].block \in DOMAIN m1 /\ m1[t[x].block] = m[t[x].block]
  BY DEF Used
<1>2. ASSUME NEW x \in DOMAIN t PROVE Sound(m1, t[x])
  BY <1>1, StandsPaths DEF Sound
<1>3. ASSUME NEW x \in DOMAIN t, NEW i \in 1..Kids(t[x])
      PROVE  t[Down(x, i)] = m1[t[x].block][i]
  BY <1>1, StandsPaths, KidsBlock DEF Stands, Body
<1>4. ASSUME NEW x \in DOMAIN t PROVE Shows(m1, t[x]) = Shows(m, t[x])
  <2>1. t[x].k = "Copy" => m1[t[x].block][1] = m[t[x].block][1]
    BY <1>1, StandsPaths DEF Sound
  <2> QED BY <2>1, ShowsSame
<1>5. See(m1, t) = See(m, t)
  BY <1>4 DEF See
<1> QED BY <1>2, <1>3, <1>5 DEF Stands, Body

\* The cells of block b are the same in both memories, but for the one at a.
Same(m, m1, b, a) ==
    /\ b \in DOMAIN m /\ b \in DOMAIN m1
    /\ DOMAIN m1[b] = DOMAIN m[b]
    /\ \A i \in DOMAIN m[b] : <<b, i>> # a => m1[b][i] = m[b][i]

\* So are all that are not part of the value at p.
Around(m, m1, f, p) == \A b \in Outer(f, p) \cup {0} : Same(m, m1, b, Addr(f, p))

\* A tree that stands in the new memory, its top at the address of p, takes the
\* place of what was at p, if the rest stays and shares no block with it.
LEMMA Plug ==
    ASSUME NEW m, NEW f, Placed(m, f), NEW p \in DOMAIN f,
           NEW m1, NEW t, Stands(m1, t),
           Around(m, m1, f, p),
           m1[Addr(f, p)[1]][Addr(f, p)[2]] = t[<<>>],
           Used(t) \cap Outer(f, p) = {}
    PROVE  /\ Placed(m1, Tree!Put(f, p, t))
           /\ See(m1, Tree!Put(f, p, t)) = Tree!Put(See(m, f), p, See(m1, t))
<1> DEFINE g == Tree!Put(f, p, t)
<1>1. /\ DOMAIN f \subseteq Path /\ p \in Path /\ p # <<>> /\ DOMAIN t \subseteq Path
      /\ <<>> \in DOMAIN t
  BY PlacedPaths, StandsPaths
<1>2. /\ Map(g) /\ DOMAIN g \subseteq Path
      /\ \A x \in Path : x \in DOMAIN g <=>
            IF Tree!Inside(x, p) THEN Tree!Rest(x, p) \in DOMAIN t ELSE x \in DOMAIN f
      /\ \A x \in DOMAIN g : g[x] = IF Tree!Inside(x, p) THEN t[Tree!Rest(x, p)] ELSE f[x]
  BY <1>1, PutForm
<1>3. ForestShape(g)
  BY PutForest DEF Placed, Stands
<1>4. /\ Tree!Inside(p, p) /\ Tree!Rest(p, p) = <<>>
  BY <1>1, PathSelf
<1> HIDE DEF g
<1>5. g[p] = t[<<>>] /\ p \in DOMAIN g
  BY <1>1, <1>2, <1>4
<1>6. ASSUME NEW x \in DOMAIN g, Tree!Inside(x, p)
      PROVE  Tree!Rest(x, p) \in DOMAIN t /\ g[x] = t[Tree!Rest(x, p)] /\ Sound(m1, g[x])
  BY <1>2, <1>6, StandsPaths
<1>7. ASSUME NEW x \in DOMAIN g, ~Tree!Inside(x, p)
      PROVE  /\ x \in DOMAIN f /\ g[x] = f[x] /\ Sound(m, f[x])
             /\ f[x].block # 0 => /\ f[x].block \in Outer(f, p)
                                  /\ Same(m, m1, f[x].block, Addr(f, p))
             /\ f[x].k = "Copy" => m1[f[x].block][1] = m[f[x].block][1]
             /\ Sound(m1, g[x])
  <2>1. x \in DOMAIN f /\ g[x] = f[x] /\ Sound(m, f[x])
    BY <1>2, <1>7, PlacedPaths
  <2>2. f[x].block # 0 => /\ f[x].block \in Outer(f, p)
                          /\ Same(m, m1, f[x].block, Addr(f, p))
    BY <1>7, <2>1 DEF Outer, Around
  <2>3. ASSUME f[x].k = "Copy" PROVE m1[f[x].block][1] = m[f[x].block][1]
    <3>1. f[x].block # 0 /\ 1 \in DOMAIN m[f[x].block]
      BY <2>1, <2>3 DEF Sound, InUse
    <3>2. <<f[x].block, 1>> # Addr(f, p)
      <4>1. SUFFICES ASSUME <<f[x].block, 1>> = Addr(f, p) PROVE FALSE
        OBVIOUS
      <4>2. Tree!Parent(p) # <<>>
        BY <3>1, <4>1, Place
      <4>3. /\ Tree!Parent(p) \in DOMAIN f /\ f[Tree!Parent(p)].block = f[x].block
            /\ f[Tree!Parent(p)].k \in {"Array", "Object"}
        BY <4>1, <4>2, Place
      <4>4. Tree!Parent(p) = x
        BY <2>1, <3>1, <4>3 DEF Placed, Body
      <4> QED BY <2>3, <4>3, <4>4
    <3> QED BY <2>2, <3>1, <3>2 DEF Same
  <2>4. Sound(m1, f[x])
    BY <2>1, <2>2, <2>3 DEF Sound, Same
  <2> QED BY <2>1, <2>2, <2>3, <2>4
<1>8. ASSUME NEW x \in DOMAIN g, NEW i \in 1..Kids(g[x])
      PROVE  g[Down(x, i)] = m1[g[x].block][i]
  <2>1. Sound(m1, g[x])
    BY <1>6, <1>7
  <2>2. i \in Steps /\ x \in Path /\ x # <<>> /\ g[x].block # 0
    BY <1>2, <1>3, <2>1, KidsBlock DEF ForestShape
  <2>3. /\ Down(x, i) \in DOMAIN g /\ Down(x, i) \in Path
        /\ Tree!Inside(Down(x, i), p) <=> Tree!Inside(x, p) \/ p = Down(x, i)
        /\ Tree!Inside(x, p) => Tree!Rest(Down(x, i), p) = Down(Tree!Rest(x, p), i)
    BY <1>1, <1>3, <2>2, PathDown, PathInside DEF ForestShape
  <2>4. CASE Tree!Inside(x, p)
    <3>1. g[Down(x, i)] = t[Down(Tree!Rest(x, p), i)]
      BY <1>2, <2>3, <2>4
    <3> QED BY <1>6, <2>4, <3>1 DEF Stands, Body
  <2>5. CASE ~Tree!Inside(x, p)
    <3>1. /\ x \in DOMAIN f /\ g[x] = f[x] /\ Sound(m, f[x])
          /\ Same(m, m1, f[x].block, Addr(f, p))
      BY <1>7, <2>2, <2>5
    <3>2. i \in DOMAIN m[f[x].block] /\ f[Down(x, i)] = m[f[x].block][i]
      BY <3>1, KidsBlock DEF Placed, Body
    <3>3. Down(x, i) \in DOMAIN f
      BY <2>2, <3>1 DEF Placed, ForestShape
    <3>4. Addr(f, Down(x, i)) = <<f[x].block, i>>
      BY <2>2, PathDown DEF Addr
    <3>5. CASE p = Down(x, i)
      BY <1>5, <3>1, <3>4, <3>5
    <3>6. CASE p # Down(x, i)
      <4>1. Addr(f, p) # <<f[x].block, i>>
        BY <3>3, <3>4, <3>6, PlaceSame
      <4>2. m1[f[x].block][i] = m[f[x].block][i]
        BY <3>1, <3>2, <4>1 DEF Same
      <4>3. g[Down(x, i)] = f[Down(x, i)]
        BY <1>2, <2>3, <2>5, <3>6
      <4> QED BY <3>1, <3>2, <4>2, <4>3
    <3> QED BY <3>5, <3>6
  <2> QED BY <2>4, <2>5
<1>9. ASSUME NEW x \in DOMAIN g, NEW y \in DOMAIN g, g[x].block = g[y].block, g[x].block # 0
      PROVE  x = y
  <2>1. CASE Tree!Inside(x, p) /\ Tree!Inside(y, p)
    <3>1. Tree!Rest(x, p) = Tree!Rest(y, p)
      BY <1>6, <1>9, <2>1 DEF Stands, Body
    <3> QED BY <1>1, <1>2, <2>1, <3>1, PathRest
  <2>2. CASE ~Tree!Inside(x, p) /\ ~Tree!Inside(y, p)
    BY <1>7, <1>9, <2>2 DEF Placed, Body
  <2>3. CASE Tree!Inside(x, p) /\ ~Tree!Inside(y, p)
    <3>1. g[x].block \in Used(t)
      BY <1>6, <1>9, <2>3 DEF Used
    <3> QED BY <1>7, <1>9, <2>3, <3>1
  <2>4. CASE ~Tree!Inside(x, p) /\ Tree!Inside(y, p)
    <3>1. g[y].block \in Used(t)
      BY <1>6, <1>9, <2>4 DEF Used
    <3> QED BY <1>7, <1>9, <2>4, <3>1
  <2> QED BY <2>1, <2>2, <2>3, <2>4
<1>10. 0 \in DOMAIN m1 /\ DOMAIN m1[0] = Roots
  BY DEF Same, Around, Placed
<1>11. ASSUME NEW x \in Roots PROVE g[Down(<<>>, x)] = m1[0][x]
  <2>1. x \in Steps /\ <<>> \in Path
    BY PathEmpty, <1>1 DEF Steps
  <2>2. Down(<<>>, x) \in DOMAIN f /\ f[Down(<<>>, x)] = m[0][x]
    BY <2>1 DEF Placed, ForestShape
  <2>3. Addr(f, Down(<<>>, x)) = <<0, x>>
    BY <2>1, PathDown DEF Addr
  <2>4. CASE p = Down(<<>>, x)
    BY <1>5, <2>3, <2>4
  <2>5. CASE p # Down(<<>>, x)
    <3>1. Addr(f, p) # <<0, x>>
      BY <2>2, <2>3, <2>5, PlaceSame
    <3>2. m1[0][x] = m[0][x]
      BY <3>1 DEF Same, Around, Placed
    <3>3. ~Tree!Inside(Down(<<>>, x), p)
      BY <1>1, <2>1, <2>5, PathInside, PathTop
    <3>4. g[Down(<<>>, x)] = f[Down(<<>>, x)]
      BY <1>1, <1>2, <2>2, <3>3
    <3> QED BY <2>2, <3>2, <3>4
  <2> QED BY <2>4, <2>5
<1>12. Placed(m1, g)
  BY <1>2, <1>3, <1>6, <1>7, <1>8, <1>9, <1>10, <1>11 DEF Placed, Body
<1>13. See(m1, g) = Tree!Put(See(m, f), p, See(m1, t))
  <2> DEFINE h == Tree!Put(See(m, f), p, See(m1, t))
  <2>1. /\ DOMAIN See(m, f) = DOMAIN f /\ \A x \in DOMAIN f : See(m, f)[x] = Shows(m, f[x])
        /\ DOMAIN See(m1, t) = DOMAIN t /\ \A x \in DOMAIN t : See(m1, t)[x] = Shows(m1, t[x])
        /\ DOMAIN See(m1, g) = DOMAIN g /\ \A x \in DOMAIN g : See(m1, g)[x] = Shows(m1, g[x])
    BY DEF See
  <2>2. /\ Map(h) /\ DOMAIN h \subseteq Path
        /\ \A x \in Path : x \in DOMAIN h <=>
              IF Tree!Inside(x, p) THEN Tree!Rest(x, p) \in DOMAIN t ELSE x \in DOMAIN f
        /\ \A x \in DOMAIN h : h[x] =
              IF Tree!Inside(x, p) THEN See(m1, t)[Tree!Rest(x, p)] ELSE See(m, f)[x]
    BY <1>1, <2>1, PutForm
  <2> HIDE DEF h
  <2>3. ASSUME NEW x \in DOMAIN g PROVE x \in DOMAIN h /\ Shows(m1, g[x]) = h[x]
    <3>1. x \in DOMAIN h
      BY <1>2, <2>2
    <3>2. CASE Tree!Inside(x, p)
      BY <1>6, <2>1, <2>2, <3>1, <3>2
    <3>3. CASE ~Tree!Inside(x, p)
      <4>1. Shows(m1, f[x]) = Shows(m, f[x])
        BY <1>7, <3>3, ShowsSame
      <4> QED BY <1>7, <2>1, <2>2, <3>1, <3>3, <4>1
    <3> QED BY <3>2, <3>3
  <2>4. \A x \in Path : x \in DOMAIN h => x \in DOMAIN g
    BY <1>2, <2>2
  <2>5. Map(See(m1, g))
    BY DEF See, Map
  <2>6. DOMAIN See(m1, g) = DOMAIN h
    BY <1>2, <2>1, <2>2, <2>3, <2>4
  <2>7. See(m1, g) = h
    BY <2>1, <2>2, <2>3, <2>5, <2>6, MapEqual
  <2> QED BY <2>7 DEF h
<1> QED BY <1>12, <1>13 DEF g

-------------------------------------------------------------------------------
\* What is reached from a tree's top are the tree's blocks, and from block 0 all
\* the forest's.
LEMMA TreeParent ==
    ASSUME NEW t, TreeShape(t), NEW x \in DOMAIN t, x # <<>>
    PROVE  /\ Tree!Parent(x) \in DOMAIN t /\ Tip(x) \in 1..Kids(t[Tree!Parent(x)])
           /\ Len(Tree!Parent(x)) < Len(x) /\ x = Down(Tree!Parent(x), Tip(x))
<1>1. /\ Tree!Parent(x) \in Path /\ Tip(x) \in Steps
      /\ Len(Tree!Parent(x)) = Len(x) - 1 /\ Len(x) \in Nat
      /\ Down(Tree!Parent(x), Tip(x)) = x
  BY PathUp DEF TreeShape
<1> QED BY <1>1 DEF TreeShape

LEMMA BodyClosed ==
    ASSUME NEW m, NEW f, Body(m, f),
           \A x \in DOMAIN f : \A i \in 1..Kids(f[x]) : Down(x, i) \in DOMAIN f
    PROVE  Used(f) \subseteq DOMAIN m /\ Closed(m, Used(f))
<1>1. ASSUME NEW b \in Used(f), NEW i \in DOMAIN m[b]
      PROVE  b \in DOMAIN m /\ m[b][i].block \in Used(f) \cup {0}
  <2>1. PICK x \in DOMAIN f : b = f[x].block /\ b # 0
    BY DEF Used
  <2>2. Sound(m, f[x])
    BY DEF Body
  <2>3. b \in DOMAIN m /\ i \in 1..InUse(f[x])
    BY <2>1, <2>2 DEF Sound
  <2>4. CASE f[x].k \in {"Array", "Object"}
    <3>1. i \in 1..Kids(f[x])
      BY <2>3, <2>4 DEF Kids
    <3>2. Down(x, i) \in DOMAIN f /\ f[Down(x, i)] = m[b][i]
      BY <2>1, <3>1 DEF Body
    <3> QED BY <2>3, <3>2 DEF Used
  <2>5. CASE f[x].k = "Copy"
    <3>1. InUse(f[x]) = 1
      BY <2>2, <2>5 DEF Sound, InUse
    <3> QED BY <2>1, <2>2, <2>3, <2>5, <3>1 DEF Sound
  <2> QED BY <2>1, <2>2, <2>4, <2>5 DEF Sound, CellSet, Values
<1>2. ASSUME NEW b \in Used(f) PROVE b \in DOMAIN m
  BY DEF Used, Body, Sound
<1> QED BY <1>1, <1>2 DEF Closed

LEMMA EmptyTree ==
    ASSUME NEW m, NEW t, Stands(m, t), t[<<>>].block = 0
    PROVE  DOMAIN t = {<<>>} /\ Used(t) = {}
<1>1. ASSUME NEW x \in DOMAIN t, \A y \in DOMAIN t : Len(y) < Len(x) => y \in {<<>>}
      PROVE  x \in {<<>>}
  <2>1. SUFFICES ASSUME x # <<>> PROVE FALSE
    OBVIOUS
  <2>2. Tree!Parent(x) = <<>> /\ Tip(x) \in 1..Kids(t[<<>>])
    BY <1>1, <2>1, TreeParent DEF Stands
  <2> QED BY <2>2, StandsPaths, KidsBlock
<1>2. DOMAIN t \in SUBSET Path
  BY StandsPaths
<1>3. DOMAIN t \subseteq {<<>>}
  BY <1>1, <1>2, PathInduction
<1> QED BY <1>3, StandsPaths DEF Used

LEMMA ReachedTree ==
    ASSUME NEW m, NEW t, Stands(m, t), t[<<>>].block # 0
    PROVE  Reached(m, t[<<>>].block) = Used(t)
<1> DEFINE b == t[<<>>].block
<1>1. \A x \in DOMAIN t : \A i \in 1..Kids(t[x]) : Down(x, i) \in DOMAIN t
  <2>1. \A x \in DOMAIN t : \A i \in 1..Kids(t[x]) : i \in Steps /\ x \in Path
    BY StandsPaths, KidsBlock
  <2> QED BY <2>1 DEF Stands, TreeShape
<1>2. Used(t) \subseteq DOMAIN m /\ Closed(m, Used(t)) /\ b \in Used(t)
  BY <1>1, BodyClosed, StandsPaths DEF Stands, Used
<1>3. Reached(m, b) \subseteq Used(t)
  BY <1>2 DEF Reached
<1>4. ASSUME NEW B \in SUBSET DOMAIN m, b \in B, Closed(m, B), NEW d \in Used(t) PROVE d \in B
  <2> DEFINE Q == {x \in DOMAIN t : t[x].block \in B \cup {0}}
  <2>1. ASSUME NEW x \in DOMAIN t, \A y \in DOMAIN t : Len(y) < Len(x) => y \in Q
        PROVE  x \in Q
    <3>1. CASE x = <<>>
      BY <1>4, <3>1
    <3>2. CASE x # <<>>
      <4>1. /\ Tree!Parent(x) \in Q /\ Tip(x) \in 1..Kids(t[Tree!Parent(x)])
            /\ x = Down(Tree!Parent(x), Tip(x))
        BY <2>1, <3>2, TreeParent DEF Stands
      <4>2. /\ t[Tree!Parent(x)].block # 0 /\ Tip(x) \in DOMAIN m[t[Tree!Parent(x)].block]
        BY <4>1, StandsPaths, KidsBlock
      <4>3. t[x] = m[t[Tree!Parent(x)].block][Tip(x)]
        BY <4>1 DEF Stands, Body
      <4>4. t[x].block \in B \cup {0}
        BY <1>4, <4>1, <4>2, <4>3 DEF Closed
      <4> QED BY <4>4
    <3> QED BY <3>1, <3>2
  <2>2. DOMAIN t \in SUBSET Path
    BY StandsPaths
  <2>3. DOMAIN t \subseteq Q
    <3> HIDE DEF Q
    <3> QED BY <2>1, <2>2, PathInduction
  <2> QED BY <2>3 DEF Used
<1>5. Used(t) \subseteq Reached(m, b)
  BY <1>2, <1>4 DEF Reached
<1> QED BY <1>3, <1>5

LEMMA ReachedForest ==
    ASSUME NEW m, NEW f, Placed(m, f)
    PROVE  Reached(m, 0) = {0} \cup Used(f)
<1>1. \A x \in DOMAIN f : \A i \in 1..Kids(f[x]) : Down(x, i) \in DOMAIN f
  <2>1. \A x \in DOMAIN f : \A i \in 1..Kids(f[x]) : i \in Steps /\ x \in Path /\ x # <<>>
    BY PlacedPaths, KidsBlock
  <2> QED BY <2>1 DEF Placed, ForestShape
<1>2. Used(f) \subseteq DOMAIN m /\ Closed(m, Used(f)) /\ 0 \in DOMAIN m
  BY <1>1, BodyClosed DEF Placed
<1>3. ASSUME NEW x \in Roots PROVE /\ m[0][x].block \in Used(f) \cup {0}
                                   /\ Down(<<>>, x) \in DOMAIN f
  <2>1. x \in Steps /\ <<>> \in Path
    BY DEF Steps, Path
  <2>2. Down(<<>>, x) \in DOMAIN f /\ f[Down(<<>>, x)] = m[0][x]
    BY <2>1 DEF Placed, ForestShape
  <2> QED BY <2>2 DEF Used
<1>4. Closed(m, {0} \cup Used(f))
  BY <1>2, <1>3 DEF Closed, Placed
<1>5. Reached(m, 0) \subseteq {0} \cup Used(f)
  BY <1>2, <1>4 DEF Reached
<1>6. ASSUME NEW B \in SUBSET DOMAIN m, 0 \in B, Closed(m, B), NEW d \in {0} \cup Used(f)
      PROVE  d \in B
  <2> DEFINE Q == {x \in DOMAIN f : f[x].block \in B}
  <2>1. ASSUME NEW x \in DOMAIN f, \A y \in DOMAIN f : Len(y) < Len(x) => y \in Q
        PROVE  x \in Q
    <3>1. /\ Addr(f, x)[2] \in DOMAIN m[Addr(f, x)[1]] /\ m[Addr(f, x)[1]][Addr(f, x)[2]] = f[x]
          /\ Tree!Parent(x) = <<>> => Addr(f, x) = <<0, Tip(x)>>
          /\ Tree!Parent(x) # <<>> => /\ Tree!Parent(x) \in DOMAIN f
                                      /\ Addr(f, x) = <<f[Tree!Parent(x)].block, Tip(x)>>
      BY Place
    <3>2. Len(Tree!Parent(x)) < Len(x)
      BY <3>1, PathUp, PlacedPaths
    <3>3. Addr(f, x)[1] \in B
      BY <1>6, <2>1, <3>1, <3>2, PlacedPaths
    <3>4. f[x].block \in B \cup {0}
      BY <1>6, <3>1, <3>3 DEF Closed
    <3> QED BY <1>6, <3>4
  <2>2. DOMAIN f \in SUBSET Path
    BY PlacedPaths
  <2>3. DOMAIN f \subseteq Q
    <3> HIDE DEF Q
    <3> QED BY <2>1, <2>2, PathInduction
  <2> QED BY <1>6, <2>3 DEF Used
<1>7. {0} \cup Used(f) \subseteq Reached(m, 0)
  BY <1>2, <1>6 DEF Reached
<1> QED BY <1>5, <1>7

-------------------------------------------------------------------------------
\* The caller's path leads to the cell.
LEMMA Prefixes ==
    ASSUME NEW m, NEW f, Placed(m, f), NEW p \in DOMAIN f, NEW k \in 1..Len(p)
    PROVE  SubSeq(p, 1, k) \in DOMAIN f
<1> DEFINE Q == {x \in DOMAIN f : \A i \in 1..Len(x) : SubSeq(x, 1, i) \in DOMAIN f}
<1>1. ASSUME NEW x \in DOMAIN f, \A y \in DOMAIN f : Len(y) < Len(x) => y \in Q
      PROVE  x \in Q
  <2>1. x \in Path /\ x # <<>> /\ Tree!Parent(x) \in Path /\ Len(Tree!Parent(x)) = Len(x) - 1
    BY PlacedPaths, PathUp
  <2>2. SUFFICES ASSUME NEW i \in 1..Len(x) PROVE SubSeq(x, 1, i) \in DOMAIN f
    OBVIOUS
  <2>3. CASE i = Len(x)
    BY <2>1, <2>3, SubSeqFull DEF Path
  <2>4. CASE i # Len(x)
    <3>1. Tree!Parent(x) # <<>> /\ i \in 1..Len(Tree!Parent(x)) /\ Len(Tree!Parent(x)) < Len(x)
      BY <2>1, <2>4 DEF Path
    <3>2. Tree!Parent(x) \in Q
      BY <1>1, <3>1, Place
    <3>3. SubSeq(Tree!Parent(x), 1, i) = SubSeq(x, 1, i)
      BY <2>1, <2>4 DEF Path, Tree!Parent
    <3> QED BY <3>1, <3>2, <3>3
  <2> QED BY <2>3, <2>4
<1>2. DOMAIN f \in SUBSET Path
  BY PlacedPaths
<1>3. DOMAIN f \subseteq Q
  <2> HIDE DEF Q
  <2> QED BY <1>1, <1>2, PathInduction
<1> QED BY <1>3

LEMMA FollowAddr ==
    ASSUME NEW m, NEW f, Placed(m, f), NEW p \in DOMAIN f
    PROVE  Follow(m, p) = Addr(f, p)
<1> DEFINE n == Len(p)
           P(k) == SubSeq(p, 1, k)
           next(g, k) == IF k = 1 THEN <<0, p[1]>> ELSE <<At(m, g[k - 1]).block, p[k]>>
           step == CHOOSE g : g = [k \in 1..n |-> next(g, k)]
           h == [k \in 1..n |-> Addr(f, P(k))]
<1>1. p \in Path /\ p # <<>> /\ n \in Nat \ {0}
  <2>1. p \in Path /\ p # <<>>
    BY Place
  <2> QED BY <2>1 DEF Path
<1>2. ASSUME NEW k \in 1..n
      PROVE  /\ P(k) \in Path /\ Len(P(k)) = k /\ Tip(P(k)) = p[k] /\ P(k) # <<>>
             /\ k = 1 => Tree!Parent(P(k)) = <<>>
             /\ k # 1 => Tree!Parent(P(k)) = P(k - 1)
  <2>1. P(k) \in Path /\ Len(P(k)) = k
    <3>1. \A i \in 1..k : p[i] \in Steps
      BY <1>1 DEF Path
    <3>2. SubSeq(p, 1, k) \in Seq(Steps) /\ Len(SubSeq(p, 1, k)) = k
      BY <3>1, SubSeqProperties
    <3> QED BY <3>2 DEF Path
  <2>2. Tip(P(k)) = p[k]
    BY <1>1, <2>1 DEF Path, Tip
  <2>3. P(k) # <<>>
    BY <2>1 DEF Path
  <2>4. k = 1 => Tree!Parent(P(k)) = <<>>
    BY <2>1 DEF Tree!Parent, Path
  <2>5. k # 1 => Tree!Parent(P(k)) = P(k - 1)
    BY <1>1, <2>1 DEF Tree!Parent, Path
  <2> QED BY <2>1, <2>2, <2>3, <2>4, <2>5
<1>3. P(n) = p
  BY <1>1 DEF Path
<1>4. \A k \in 1..n : P(k) \in DOMAIN f
  BY Prefixes
<1> HIDE DEF P, n
<1>5. ASSUME NEW k \in 1..n PROVE h[k] = next(h, k)
  <2>1. CASE k = 1
    BY <1>2, <2>1 DEF Addr
  <2>2. CASE k # 1
    <3>1. k - 1 \in 1..n
      BY <1>1, <2>2
    <3>2. h[k - 1] = Addr(f, P(k - 1)) /\ P(k - 1) \in DOMAIN f /\ P(k - 1) # <<>>
      BY <1>2, <1>4, <3>1
    <3>3. At(m, h[k - 1]) = f[P(k - 1)]
      BY <3>2, Place DEF At
    <3>4. h[k] = <<f[P(k - 1)].block, p[k]>>
      BY <1>2, <2>2, <3>2 DEF Addr
    <3> QED BY <2>2, <3>3, <3>4
  <2> QED BY <2>1, <2>2
<1>6. h = [k \in 1..n |-> next(h, k)]
  <2> DEFINE e == [k \in 1..n |-> next(h, k)]
  <2>1. \A k \in 1..n : h[k] = e[k]
    BY <1>5
  <2> QED BY <2>1
<1>7. step = [k \in 1..n |-> next(step, k)]
  BY <1>6
<1>8. \A k \in 1..n : step[k] = h[k]
  <2> DEFINE S == {P(k) : k \in 1..n}
             Q == {P(k) : k \in {k \in 1..n : step[k] = h[k]}}
  <2> HIDE DEF step, h
  <2>1. ASSUME NEW x \in S, \A y \in S : Len(y) < Len(x) => y \in Q PROVE x \in Q
    <3>1. PICK k \in 1..n : x = P(k)
      OBVIOUS
    <3>2. CASE k = 1
      <4>1. step[k] = next(step, k) /\ h[k] = next(h, k)
        BY <1>5, <1>7
      <4> QED BY <3>1, <3>2, <4>1
    <3>3. CASE k # 1
      <4>1. k - 1 \in 1..n
        BY <1>1, <3>3
      <4>2. P(k - 1) \in S /\ Len(P(k - 1)) < Len(x)
        BY <1>2, <3>1, <4>1
      <4>3. P(k - 1) \in Q
        BY <2>1, <4>2
      <4>4. PICK j \in 1..n : P(k - 1) = P(j) /\ step[j] = h[j]
        BY <4>3
      <4>5. j = k - 1
        BY <1>2, <4>1, <4>4
      <4>6. step[k] = next(step, k) /\ h[k] = next(h, k)
        BY <1>5, <1>7
      <4>7. step[k] = h[k]
        BY <4>4, <4>5, <4>6
      <4> QED BY <3>1, <4>7
    <3> QED BY <3>2, <3>3
  <2>2. S \in SUBSET Path
    BY <1>2
  <2>3. S \subseteq Q
    <3> HIDE DEF S, Q
    <3> QED BY <2>1, <2>2, PathInduction
  <2>4. SUFFICES ASSUME NEW k \in 1..n PROVE step[k] = h[k]
    OBVIOUS
  <2>5. PICK j \in 1..n : P(k) = P(j) /\ step[j] = h[j]
    BY <2>3
  <2> QED BY <1>2, <2>5
<1>9. Follow(m, p) = step[n]
  BY DEF Follow, n
<1>10. h[n] = Addr(f, p)
  BY <1>1, <1>3
<1> QED BY <1>1, <1>8, <1>9, <1>10

-------------------------------------------------------------------------------
LEMMA WriteForm ==
    ASSUME NEW m, NEW a, NEW c, a[1] \in DOMAIN m
    PROVE  /\ DOMAIN Write(m, a, c) = DOMAIN m
           /\ \A b \in DOMAIN m : b # a[1] => Write(m, a, c)[b] = m[b]
           /\ DOMAIN Write(m, a, c)[a[1]] = DOMAIN m[a[1]] \cup {a[2]}
           /\ Write(m, a, c)[a[1]][a[2]] = c
           /\ \A i \in DOMAIN m[a[1]] : i # a[2] => Write(m, a, c)[a[1]][i] = m[a[1]][i]
  BY DEF Write

LEMMA PlacedFrame ==
    ASSUME NEW m, NEW m1, NEW f, Placed(m, f),
           \A b \in Used(f) \cup {0} : b \in DOMAIN m1 /\ m1[b] = m[b]
    PROVE  Placed(m1, f) /\ See(m1, f) = See(m, f)
<1>1. ASSUME NEW x \in DOMAIN f
      PROVE  f[x].block # 0 => f[x].block \in DOMAIN m1 /\ m1[f[x].block] = m[f[x].block]
  BY DEF Used
<1>2. ASSUME NEW x \in DOMAIN f PROVE Sound(m1, f[x])
  BY <1>1, PlacedPaths DEF Sound
<1>3. ASSUME NEW x \in DOMAIN f, NEW i \in 1..Kids(f[x])
      PROVE  f[Down(x, i)] = m1[f[x].block][i]
  BY <1>1, PlacedPaths, KidsBlock DEF Placed, Body
<1>4. ASSUME NEW x \in DOMAIN f PROVE Shows(m1, f[x]) = Shows(m, f[x])
  <2>1. f[x].k = "Copy" => m1[f[x].block][1] = m[f[x].block][1]
    BY <1>1, PlacedPaths DEF Sound
  <2> QED BY <2>1, ShowsSame
<1>5. See(m1, f) = See(m, f)
  BY <1>4 DEF See
<1> QED BY <1>2, <1>3, <1>5 DEF Placed, Body

LEMMA Replace ==
    ASSUME NEW m, NEW f, Placed(m, f), NEW p \in DOMAIN f,
           NEW m0, NEW t, Stands(m0, t),
           Around(m, m0, f, p),
           Used(t) \cap Outer(f, p) = {}
    PROVE  LET m1 == Write(m0, Addr(f, p), t[<<>>])
               g  == Tree!Put(f, p, t)
           IN  /\ Placed(m1, g)
               /\ See(m1, g) = Tree!Put(See(m, f), p, See(m0, t))
               /\ DOMAIN m1 = DOMAIN m0
               /\ Used(g) = Outer(f, p) \cup Used(t)
<1> DEFINE a  == Addr(f, p)
           m1 == Write(m0, a, t[<<>>])
           g  == Tree!Put(f, p, t)
<1>1. /\ a[1] \in DOMAIN m /\ a[2] \in DOMAIN m[a[1]] /\ a = <<a[1], a[2]>>
      /\ a[1] \in Outer(f, p) \cup {0}
  BY Place DEF Addr
<1> HIDE DEF a
<1>2. a[1] \in DOMAIN m0 /\ a[2] \in DOMAIN m0[a[1]] /\ DOMAIN m0[a[1]] = DOMAIN m[a[1]]
  BY <1>1 DEF Same, Around, a
<1>3. /\ DOMAIN m1 = DOMAIN m0
      /\ \A b \in DOMAIN m0 : b # a[1] => m1[b] = m0[b]
      /\ DOMAIN m1[a[1]] = DOMAIN m0[a[1]]
      /\ m1[a[1]][a[2]] = t[<<>>]
      /\ \A i \in DOMAIN m0[a[1]] : i # a[2] => m1[a[1]][i] = m0[a[1]][i]
  <2>1. DOMAIN m0[a[1]] \cup {a[2]} = DOMAIN m0[a[1]]
    BY <1>2
  <2>2. DOMAIN m1[a[1]] = DOMAIN m0[a[1]] \cup {a[2]}
    BY <1>2, WriteForm
  <2> QED BY <1>2, <2>1, <2>2, WriteForm
<1> HIDE DEF m1
<1>4. a[1] \notin Used(t)
  BY <1>1 DEF Used
<1>5. \A b \in Used(t) : b \in DOMAIN m1 /\ m1[b] = m0[b]
  <2>1. \A b \in Used(t) : b \in DOMAIN m0
    BY StandsPaths DEF Used, Sound
  <2> QED BY <1>3, <1>4, <2>1
<1>6. Stands(m1, t) /\ See(m1, t) = See(m0, t)
  BY <1>5, Frame
<1>7. ASSUME NEW b \in Outer(f, p) \cup {0} PROVE Same(m, m1, b, a)
  <2>1. Same(m, m0, b, a)
    BY DEF a, Around
  <2>2. CASE b # a[1]
    BY <1>3, <2>1, <2>2 DEF Same
  <2>3. CASE b = a[1]
    BY <1>1, <1>3, <2>1, <2>3 DEF Same
  <2> QED BY <2>2, <2>3
<1>8. Placed(m1, g) /\ See(m1, g) = Tree!Put(See(m, f), p, See(m1, t))
  BY <1>3, <1>6, <1>7, Plug DEF a, Around
<1>9. Used(g) = Outer(f, p) \cup Used(t)
  BY UsedPut, PlacedPaths, StandsPaths
<1> QED BY <1>3, <1>6, <1>8, <1>9 DEF m1, a

LEMMA UnderAddr ==
    ASSUME NEW m, NEW f, Placed(m, f), NEW p \in DOMAIN f
    PROVE  Under(m, Addr(f, p)) = Used(Tree!Get(f, p))
<1>1. At(m, Addr(f, p)) = f[p]
  BY Place DEF At
<1>2. Stands(m, Tree!Get(f, p)) /\ Tree!Get(f, p)[<<>>] = f[p]
  BY Cut
<1>3. CASE f[p].block = 0
  BY <1>1, <1>2, <1>3, EmptyTree DEF Under
<1>4. CASE f[p].block # 0
  BY <1>1, <1>2, <1>4, ReachedTree DEF Under
<1> QED BY <1>3, <1>4

\* D is what destroying the value at p leaves.
Left(m, f, p, D) ==
    /\ DOMAIN D \subseteq DOMAIN m
    /\ DOMAIN m \ Used(Tree!Get(f, p)) \subseteq DOMAIN D
    /\ ~pool => DOMAIN D = DOMAIN m \ Used(Tree!Get(f, p))
    /\ \A b \in DOMAIN D : D[b] = m[b]
    /\ pool => D = m

LEMMA DestroyedOne ==
    ASSUME NEW m, NEW f, Placed(m, f), NEW p \in DOMAIN f
    PROVE  Left(m, f, p, Destroy(m, Addr(f, p)))
<1> DEFINE a == Addr(f, p)
           u == Used(Tree!Get(f, p))
<1>1. Under(m, a) = u
  BY UnderAddr
<1> HIDE DEF a, u
<1>2. UNION {Under(m, x) : x \in {a}} = u
  BY <1>1
<1> QED BY <1>2 DEF Destroy, DestroyAll, Keep, Left, a, u

-------------------------------------------------------------------------------
(* The inductive invariant: the cells of the roots' trees lie where their owners
   have them, these are all the cells there are, and they show the document. *)
Holds(m, f, d) == Placed(m, f) /\ d = See(m, f)

IInv ==
    /\ pool \in BOOLEAN
    /\ \E f : Holds(mem, f, doc) /\ DOMAIN mem = {0} \cup Used(f)

\* What is left of a memory that has a forest in it, and perhaps blocks that only
\* the pool still knows.
LEMMA Settled ==
    ASSUME IInv, NEW m, NEW f, NEW d, Holds(m, f, d),
           ~pool => DOMAIN m \subseteq {0} \cup Used(f),
           Becomes(m, d)
    PROVE  IInv'
<1> DEFINE n == Collected(m)
<1>1. Reached(m, 0) = {0} \cup Used(f)
  BY ReachedForest DEF Holds
<1>2. {0} \cup Used(f) \subseteq DOMAIN m
  BY <1>1 DEF Reached
<1>3. DOMAIN n = {0} \cup Used(f) /\ \A b \in DOMAIN n : n[b] = m[b]
  <2>1. CASE pool
    <3>1. n = [b \in DOMAIN m \cap ({0} \cup Used(f)) |-> m[b]]
      BY <1>1, <2>1 DEF Collected, Keep
    <3> QED BY <1>2, <3>1
  <2>2. CASE ~pool
    BY <1>2, <2>2 DEF Collected
  <2> QED BY <2>1, <2>2
<1> HIDE DEF n
<1>4. Placed(n, f) /\ See(n, f) = See(m, f)
  BY <1>3, PlacedFrame DEF Holds
<1>5. mem' = n /\ doc' = d /\ pool' = pool
  BY DEF Becomes, n
<1>6. Holds(mem', f, doc') /\ DOMAIN mem' = {0} \cup Used(f)
  BY <1>3, <1>4, <1>5 DEF Holds
<1>7. pool' \in BOOLEAN
  BY <1>5 DEF IInv
<1>8. (\E g : Holds(mem, g, doc) /\ DOMAIN mem = {0} \cup Used(g))'
  BY <1>6
<1> QED BY <1>7, <1>8 DEF IInv

-------------------------------------------------------------------------------
\* A cell without children is a tree.
LEMMA LeafStands ==
    ASSUME NEW m, NEW c, Sound(m, c), Kids(c) = 0
    PROVE  /\ Stands(m, Tree!Leaf(c)) /\ Tree!Leaf(c)[<<>>] = c
           /\ Used(Tree!Leaf(c)) = {c.block} \ {0}
           /\ See(m, Tree!Leaf(c)) = Tree!Leaf(Shows(m, c))
           /\ DOMAIN Tree!Leaf(c) = {<<>>} /\ Map(Tree!Leaf(c))
<1> DEFINE t == Tree!Leaf(c)
<1>1. DOMAIN t = {<<>>} /\ t[<<>>] = c /\ Map(t)
  BY DEF Tree!Leaf, Map
<1>2. See(m, t) = Tree!Leaf(Shows(m, c))
  BY DEF See, Tree!Leaf
<1> HIDE DEF t
<1>3. <<>> \in Path
  BY DEF Path
<1>4. \A x \in Path, i \in Steps : Down(x, i) # <<>>
  BY PathDown
<1>5. TreeShape(t)
  BY <1>1, <1>3, <1>4 DEF TreeShape, Sound
<1>6. Body(m, t)
  BY <1>1 DEF Body
<1>7. Used(t) = {c.block} \ {0}
  BY <1>1 DEF Used
<1> QED BY <1>1, <1>2, <1>5, <1>6, <1>7 DEF Stands, t

\* The new memory has all the blocks the old one has, as they were.
Keeps(m, m0) == \A b \in DOMAIN m : b \in DOMAIN m0 /\ m0[b] = m[b]

\* Inside what is destroyed a new tree is built, and its top written to p.
LEMMA Built ==
    ASSUME NEW m, NEW f, Placed(m, f), NEW p \in DOMAIN f,
           NEW m0, NEW t, Stands(m0, t), Used(t) \cap Outer(f, p) = {},
           Keeps(Destroy(m, Addr(f, p)), m0),
           DOMAIN m0 \subseteq DOMAIN Destroy(m, Addr(f, p)) \cup Used(t),
           ~pool => DOMAIN m \subseteq {0} \cup Used(f) \cup Used(t)
    PROVE  LET m1 == Write(m0, Addr(f, p), t[<<>>])
               g  == Tree!Put(f, p, t)
           IN  /\ Holds(m1, g, Tree!Put(See(m, f), p, See(m0, t)))
               /\ Used(g) = Outer(f, p) \cup Used(t)
               /\ ~pool => DOMAIN m1 \subseteq {0} \cup Used(g)
<1> DEFINE D  == Destroy(m, Addr(f, p))
           u  == Used(Tree!Get(f, p))
           m1 == Write(m0, Addr(f, p), t[<<>>])
           g  == Tree!Put(f, p, t)
<1>1. Left(m, f, p, D)
  BY DestroyedOne
<1>2. Used(f) = Outer(f, p) \cup u /\ Outer(f, p) \cap u = {}
  BY UsedSplit
<1>3. Outer(f, p) \cup {0} \subseteq DOMAIN m \ u
  <2>1. Reached(m, 0) = {0} \cup Used(f)
    BY ReachedForest
  <2>2. {0} \cup Used(f) \subseteq DOMAIN m
    BY <2>1 DEF Reached
  <2>3. 0 \notin u
    BY DEF Used
  <2> QED BY <1>2, <2>2, <2>3
<1> HIDE DEF D, u
<1>4. ASSUME NEW b \in Outer(f, p) \cup {0} PROVE Same(m, m0, b, Addr(f, p))
  <2>1. b \in DOMAIN D /\ m0[b] = m[b] /\ b \in DOMAIN m0 /\ b \in DOMAIN m
    BY <1>1, <1>3 DEF D, u, Left, Keeps
  <2> QED BY <2>1 DEF Same
<1>5. /\ Placed(m1, g) /\ See(m1, g) = Tree!Put(See(m, f), p, See(m0, t))
      /\ DOMAIN m1 = DOMAIN m0 /\ Used(g) = Outer(f, p) \cup Used(t)
  BY <1>4, Replace DEF Around
<1>6. ASSUME ~pool PROVE DOMAIN m1 \subseteq {0} \cup Used(g)
  <2>1. DOMAIN m1 \subseteq (DOMAIN m \ u) \cup Used(t)
    BY <1>1, <1>5, <1>6 DEF D, u, Left
  <2> QED BY <1>2, <1>5, <1>6, <2>1
<1> QED BY <1>5, <1>6 DEF Holds

-------------------------------------------------------------------------------
LEMMA AtPath ==
    ASSUME NEW f, Holds(mem, f, doc), NEW p \in Paths
    PROVE  /\ p \in DOMAIN f /\ p \in Path
           /\ Address(p) = Addr(f, p)
           /\ At(mem, Addr(f, p)) = f[p]
<1>1. p \in DOMAIN f /\ p \in Path
  BY PlacedPaths DEF Paths, Tree!Values, Holds, See
<1>2. Address(p) = Addr(f, p)
  BY <1>1, FollowAddr DEF Address, Holds
<1>3. At(mem, Addr(f, p)) = f[p]
  BY <1>1, Place DEF At, Holds
<1> QED BY <1>1, <1>2, <1>3

\* A new leaf in the place of what was at p.
LEMMA LeafBuilt ==
    ASSUME IInv, NEW f, Holds(mem, f, doc), DOMAIN mem = {0} \cup Used(f), NEW p \in Paths,
           NEW m0, NEW c, Sound(m0, c), Kids(c) = 0, c.block \notin Outer(f, p),
           Keeps(Destroy(mem, Address(p)), m0),
           DOMAIN m0 \subseteq DOMAIN Destroy(mem, Address(p)) \cup ({c.block} \ {0}),
           Becomes(Write(m0, Address(p), c), Tree!Put(doc, p, Tree!Leaf(Shows(m0, c))))
    PROVE  IInv'
<1> DEFINE t == Tree!Leaf(c)
           m1 == Write(m0, Address(p), c)
           g == Tree!Put(f, p, t)
<1>1. Placed(mem, f) /\ doc = See(mem, f)
  BY DEF Holds
<1>2. p \in DOMAIN f /\ Address(p) = Addr(f, p)
  BY AtPath
<1>3. /\ Stands(m0, t) /\ t[<<>>] = c /\ Used(t) = {c.block} \ {0}
      /\ See(m0, t) = Tree!Leaf(Shows(m0, c))
  BY LeafStands
<1> HIDE DEF t
<1>4. Used(t) \cap Outer(f, p) = {}
  BY <1>3
<1>5. ~pool => DOMAIN mem \subseteq {0} \cup Used(f) \cup Used(t)
  OBVIOUS
<1>6. /\ Holds(m1, g, Tree!Put(doc, p, See(m0, t)))
      /\ ~pool => DOMAIN m1 \subseteq {0} \cup Used(g)
  BY <1>1, <1>2, <1>3, <1>4, <1>5, Built
<1> QED BY <1>3, <1>6, Settled

LEMMA ScalarStep ==
    ASSUME IInv, NEW p \in Paths, SetScalar(p)
    PROVE  IInv'
<1>1. PICK f : Holds(mem, f, doc) /\ DOMAIN mem = {0} \cup Used(f)
  BY DEF IInv
<1> DEFINE D == Destroy(mem, Address(p))
<1>2. Sound(D, NullCell) /\ Kids(NullCell) = 0 /\ NullCell.block = 0
  BY DEF Sound, NullCell, Cell, CellSet, Kids, Values
<1>3. Shows(D, NullCell) = Tree!Null
  BY DEF Shows, NullCell, Cell
<1>4. NullCell.block \notin Outer(f, p)
  BY <1>2 DEF Outer
<1>5. Keeps(D, D) /\ DOMAIN D \subseteq DOMAIN D \cup ({NullCell.block} \ {0})
  BY DEF Keeps
<1>6. Becomes(Write(D, Address(p), NullCell), Tree!Put(doc, p, Tree!Leaf(Shows(D, NullCell))))
  BY <1>3 DEF SetScalar, Constructed
<1> QED BY <1>1, <1>2, <1>4, <1>5, <1>6, LeafBuilt

LEMMA ContainerStep ==
    ASSUME IInv, NEW p \in Paths, SetContainer(p)
    PROVE  IInv'
<1>1. PICK f : Holds(mem, f, doc) /\ DOMAIN mem = {0} \cup Used(f)
  BY DEF IInv
<1>0. PICK kind \in {"Array", "Object"} :
         Becomes(Constructed(mem, Address(p), Empty(kind)),
                 Tree!Put(doc, p, Tree!Leaf(Tree!Container(kind))))
  BY DEF SetContainer
<1> DEFINE D == Destroy(mem, Address(p))
           c == Empty(kind)
<1>2. Sound(D, c) /\ Kids(c) = 0 /\ c.block = 0
  BY DEF Sound, Empty, Cell, CellSet, Kids, Values, InUse
<1>3. Shows(D, c) = Tree!Container(kind)
  <2>1. c.k = kind /\ InUse(c) = 0
    BY DEF Empty, Cell, InUse
  <2>2. CASE kind = "Array"
    BY <2>1, <2>2 DEF Shows, Tree!Container
  <2>3. CASE kind = "Object"
    BY <2>1, <2>3 DEF Shows, Tree!Container
  <2> QED BY <2>2, <2>3
<1>4. c.block \notin Outer(f, p)
  BY <1>2 DEF Outer
<1>5. Keeps(D, D) /\ DOMAIN D \subseteq DOMAIN D \cup ({c.block} \ {0})
  BY DEF Keeps
<1>6. Becomes(Write(D, Address(p), c), Tree!Put(doc, p, Tree!Leaf(Shows(D, c))))
  BY <1>0, <1>3 DEF Constructed
<1> HIDE DEF c, D
<1> QED BY <1>1, <1>2, <1>4, <1>5, <1>6, LeafBuilt DEF D

LEMMA Allocated ==
    ASSUME NEW m, Room(m)
    PROVE  /\ NewBlock(m) \in Blocks /\ NewBlock(m) \in Nat \ {0} /\ NewBlock(m) \notin DOMAIN m
           /\ DOMAIN Alloc(m) = DOMAIN m \cup {NewBlock(m)}
           /\ Keeps(m, Alloc(m))
           /\ Alloc(m)[NewBlock(m)] = <<>>
<1>1. NewBlock(m) \in Blocks /\ NewBlock(m) \notin DOMAIN m
  BY DEF Room, NewBlock
<1> QED BY <1>1, DomAssumption DEF Alloc, Keeps

\* The blocks the rest of the forest is in are not destroyed.
LEMMA OuterLeft ==
    ASSUME NEW m, NEW f, Placed(m, f), NEW p \in DOMAIN f, NEW D, Left(m, f, p, D)
    PROVE  Outer(f, p) \cup {0} \subseteq DOMAIN D
<1>1. Used(f) = Outer(f, p) \cup Used(Tree!Get(f, p)) /\ Outer(f, p) \cap Used(Tree!Get(f, p)) = {}
  BY UsedSplit
<1>2. {0} \cup Used(f) \subseteq DOMAIN m
  BY ReachedForest DEF Reached
<1>3. 0 \notin Used(Tree!Get(f, p))
  BY DEF Used
<1> QED BY <1>1, <1>2, <1>3 DEF Left

LEMMA StringStep ==
    ASSUME IInv, NEW p \in Paths, SetString(p)
    PROVE  IInv'
<1>1. PICK f : Holds(mem, f, doc) /\ DOMAIN mem = {0} \cup Used(f)
  BY DEF IInv
<1> DEFINE D == Destroy(mem, Address(p))
           b == NewBlock(D)
           A == Alloc(D)
<1>2. PICK s \in Names :
         /\ Room(D)
         /\ Becomes(CopiedString(D, Address(p), s), Tree!Put(doc, p, Tree!Leaf(Tree!Str(s))))
  BY DEF SetString
<1> DEFINE m0 == Write(A, <<b, 1>>, Units(s))
           c == Copied(b)
<1>3. /\ b \in Nat \ {0} /\ b \notin DOMAIN D /\ DOMAIN A = DOMAIN D \cup {b}
      /\ Keeps(D, A) /\ A[b] = <<>>
  BY <1>2, Allocated
<1> HIDE DEF D, b, A
<1>4. /\ DOMAIN m0 = DOMAIN A /\ DOMAIN m0[b] = {1} /\ m0[b][1] = Units(s)
      /\ \A d \in DOMAIN A : d # b => m0[d] = A[d]
  <2>1. <<b, 1>>[1] = b /\ <<b, 1>>[2] = 1 /\ b \in DOMAIN A /\ DOMAIN A[b] = {}
    BY <1>3
  <2>2. DOMAIN m0[b] = DOMAIN A[b] \cup {1}
    BY <2>1, WriteForm
  <2>3. DOMAIN m0 = DOMAIN A /\ m0[b][1] = Units(s)
    BY <2>1, WriteForm
  <2>4. \A d \in DOMAIN A : d # b => m0[d] = A[d]
    BY <2>1, WriteForm
  <2> QED BY <2>1, <2>2, <2>3, <2>4
<1> HIDE DEF m0
<1>5. c \in CellSet /\ c.k = "Copy" /\ c.block = b /\ c.size = 1 /\ InUse(c) = 1 /\ Kids(c) = 0
  BY <1>3 DEF Copied, Cell, CellSet, Values, InUse, Kids
<1>6. Units(s) \in CellSet /\ Units(s).k = "Units" /\ Units(s).block = 0 /\ Units(s).s = s
  BY DEF Units, Cell, CellSet, Values
<1> HIDE DEF c
<1>7. Sound(m0, c)
  BY <1>3, <1>4, <1>5, <1>6 DEF Sound
<1>8. Shows(m0, c) = Tree!Str(s)
  BY <1>4, <1>5, <1>6 DEF Shows
<1>9. Keeps(D, m0) /\ DOMAIN m0 \subseteq DOMAIN D \cup ({c.block} \ {0})
  BY <1>3, <1>4, <1>5 DEF Keeps
<1>10. c.block \notin Outer(f, p)
  <2>1. p \in DOMAIN f /\ Placed(mem, f) /\ Address(p) = Addr(f, p)
    BY <1>1, AtPath DEF Holds
  <2>2. Left(mem, f, p, D)
    BY <2>1, DestroyedOne DEF D
  <2> QED BY <1>3, <1>5, <2>1, <2>2, OuterLeft
<1>11. Becomes(Write(m0, Address(p), c), Tree!Put(doc, p, Tree!Leaf(Shows(m0, c))))
  BY <1>2, <1>8 DEF CopiedString, m0, c, A, b
<1> QED BY <1>1, <1>5, <1>7, <1>9, <1>10, <1>11, LeafBuilt DEF D

-------------------------------------------------------------------------------
LEMMA WriteSwap ==
    ASSUME NEW m, NEW a, NEW b, NEW c, NEW e, a[1] \in DOMAIN m, b[1] \in DOMAIN m,
           a[1] # b[1] \/ a[2] # b[2]
    PROVE  Write(Write(m, a, c), b, e) = Write(Write(m, b, e), a, c)
<1> DEFINE u == Write(Write(m, a, c), b, e)
           v == Write(Write(m, b, e), a, c)
<1>0. /\ DOMAIN u = DOMAIN m /\ DOMAIN v = DOMAIN m
      /\ u = [d \in DOMAIN u |-> u[d]] /\ v = [d \in DOMAIN v |-> v[d]]
  BY DEF Write
<1>1. CASE a[1] # b[1]
  <2> DEFINE x == [i \in DOMAIN m[a[1]] \cup {a[2]} |-> IF i = a[2] THEN c ELSE m[a[1]][i]]
             y == [i \in DOMAIN m[b[1]] \cup {b[2]} |-> IF i = b[2] THEN e ELSE m[b[1]][i]]
  <2>1. DOMAIN Write(m, a, c) = DOMAIN m /\ \A d \in DOMAIN m : Write(m, a, c)[d] = IF d = a[1] THEN x ELSE m[d]
    BY DEF Write
  <2>2. DOMAIN Write(m, b, e) = DOMAIN m /\ \A d \in DOMAIN m : Write(m, b, e)[d] = IF d = b[1] THEN y ELSE m[d]
    BY DEF Write
  <2>3. \A d \in DOMAIN m : u[d] = IF d = b[1] THEN y ELSE IF d = a[1] THEN x ELSE m[d]
    <3>1. Write(m, a, c)[b[1]] = m[b[1]]
      BY <1>1, <2>1
    <3>2. u[b[1]] = y
      BY <2>1, <3>1 DEF Write
    <3>3. \A d \in DOMAIN m : d # b[1] => u[d] = Write(m, a, c)[d]
      BY <2>1 DEF Write
    <3> QED BY <2>1, <3>2, <3>3
  <2>4. \A d \in DOMAIN m : v[d] = IF d = a[1] THEN x ELSE IF d = b[1] THEN y ELSE m[d]
    <3>1. Write(m, b, e)[a[1]] = m[a[1]]
      BY <1>1, <2>2
    <3>2. v[a[1]] = x
      BY <2>2, <3>1 DEF Write
    <3>3. \A d \in DOMAIN m : d # a[1] => v[d] = Write(m, b, e)[d]
      BY <2>2 DEF Write
    <3> QED BY <2>2, <3>2, <3>3
  <2> HIDE DEF u, v, x, y
  <2>5. \A d \in DOMAIN m : u[d] = v[d]
    BY <1>1, <2>3, <2>4
  <2>6. u = v
    BY <1>0, <2>5
  <2> QED BY <2>6 DEF u, v
<1>2. CASE a[1] = b[1]
  <2>1. a[2] # b[2]
    BY <1>2
  <2>2. Write(m, a, c)[a[1]] = [i \in DOMAIN m[a[1]] \cup {a[2]} |-> IF i = a[2] THEN c ELSE m[a[1]][i]]
    BY DEF Write
  <2>3. Write(m, b, e)[a[1]] = [i \in DOMAIN m[a[1]] \cup {b[2]} |-> IF i = b[2] THEN e ELSE m[a[1]][i]]
    BY <1>2 DEF Write
  <2>4. u[a[1]] = [i \in (DOMAIN m[a[1]] \cup {a[2]}) \cup {b[2]} |->
                       IF i = b[2] THEN e ELSE IF i = a[2] THEN c ELSE m[a[1]][i]]
    BY <1>2, <2>2 DEF Write
  <2>5. v[a[1]] = [i \in (DOMAIN m[a[1]] \cup {b[2]}) \cup {a[2]} |->
                       IF i = a[2] THEN c ELSE IF i = b[2] THEN e ELSE m[a[1]][i]]
    BY <1>2, <2>3 DEF Write
  <2>6. u[a[1]] = v[a[1]]
    BY <2>1, <2>4, <2>5
  <2>7. \A d \in DOMAIN m : d # a[1] => u[d] = v[d]
    BY <1>2 DEF Write
  <2> HIDE DEF u, v
  <2>8. u = v
    BY <1>0, <2>6, <2>7
  <2> QED BY <2>8 DEF u, v
<1> QED BY <1>1, <1>2

LEMMA WriteTwice ==
    ASSUME NEW m, NEW a, NEW c, NEW e, a[1] \in DOMAIN m
    PROVE  Write(Write(m, a, c), a, e) = Write(m, a, e)
  BY DEF Write

LEMMA WriteKeep ==
    ASSUME NEW m, NEW a, NEW c, NEW B, a[1] \in DOMAIN m, a[1] \in B
    PROVE  Keep(Write(m, a, c), B) = Write(Keep(m, B), a, c)
  BY DEF Write, Keep

-------------------------------------------------------------------------------
LEMMA PutSwap ==
    ASSUME NEW d, DOMAIN d \subseteq Path, NEW p \in Path, NEW q \in Path, Tree!Apart(p, q),
           NEW t, DOMAIN t \subseteq Path, NEW u, DOMAIN u \subseteq Path
    PROVE  Tree!Put(Tree!Put(d, q, u), p, t) = Tree!Put(Tree!Put(d, p, t), q, u)
<1> DEFINE g == Tree!Put(d, q, u)
           h == Tree!Put(d, p, t)
<1>1. DOMAIN g \subseteq Path /\ DOMAIN h \subseteq Path
  BY PutForm
<1>2. ASSUME NEW x \in Path
      PROVE  /\ x \in DOMAIN Tree!Put(g, p, t) <=> x \in DOMAIN Tree!Put(h, q, u)
             /\ x \in DOMAIN Tree!Put(g, p, t) => Tree!Put(g, p, t)[x] = Tree!Put(h, q, u)[x]
  <2>1. ~(Tree!Inside(x, p) /\ Tree!Inside(x, q))
    BY PathOrder DEF Tree!Apart
  <2>2. /\ x \in DOMAIN g <=> IF Tree!Inside(x, q) THEN Tree!Rest(x, q) \in DOMAIN u ELSE x \in DOMAIN d
        /\ x \in DOMAIN g => g[x] = IF Tree!Inside(x, q) THEN u[Tree!Rest(x, q)] ELSE d[x]
    BY PutForm
  <2>3. /\ x \in DOMAIN h <=> IF Tree!Inside(x, p) THEN Tree!Rest(x, p) \in DOMAIN t ELSE x \in DOMAIN d
        /\ x \in DOMAIN h => h[x] = IF Tree!Inside(x, p) THEN t[Tree!Rest(x, p)] ELSE d[x]
    BY PutForm
  <2> HIDE DEF g, h
  <2>4. /\ x \in DOMAIN Tree!Put(g, p, t) <=>
              IF Tree!Inside(x, p) THEN Tree!Rest(x, p) \in DOMAIN t ELSE x \in DOMAIN g
        /\ x \in DOMAIN Tree!Put(g, p, t) => Tree!Put(g, p, t)[x] =
              IF Tree!Inside(x, p) THEN t[Tree!Rest(x, p)] ELSE g[x]
    BY <1>1, PutForm
  <2>5. /\ x \in DOMAIN Tree!Put(h, q, u) <=>
              IF Tree!Inside(x, q) THEN Tree!Rest(x, q) \in DOMAIN u ELSE x \in DOMAIN h
        /\ x \in DOMAIN Tree!Put(h, q, u) => Tree!Put(h, q, u)[x] =
              IF Tree!Inside(x, q) THEN u[Tree!Rest(x, q)] ELSE h[x]
    BY <1>1, PutForm
  <2> QED BY <2>1, <2>2, <2>3, <2>4, <2>5
<1>3. Map(Tree!Put(g, p, t)) /\ DOMAIN Tree!Put(g, p, t) \subseteq Path
  <2> HIDE DEF g
  <2> QED BY <1>1, PutForm
<1>4. Map(Tree!Put(h, q, u)) /\ DOMAIN Tree!Put(h, q, u) \subseteq Path
  <2> HIDE DEF h
  <2> QED BY <1>1, PutForm
<1> QED BY <1>2, <1>3, <1>4, PathMapEqual

\* A put elsewhere leaves an address alone.
LEMMA AddrPut ==
    ASSUME NEW m, NEW f, Placed(m, f), NEW p \in DOMAIN f, NEW q \in DOMAIN f,
           ~Tree!Inside(p, q), NEW t, DOMAIN t \subseteq Path
    PROVE  /\ Addr(Tree!Put(f, q, t), p) = Addr(f, p)
           /\ p \in DOMAIN Tree!Put(f, q, t)
<1> DEFINE g == Tree!Put(f, q, t)
<1>1. /\ DOMAIN f \subseteq Path /\ p \in Path /\ q \in Path
      /\ Tree!Parent(p) \in Path /\ Tip(p) \in Steps /\ p = Down(Tree!Parent(p), Tip(p))
      /\ Tree!Parent(p) # <<>> => Tree!Parent(p) \in DOMAIN f
  BY PlacedPaths, Place
<1>2. ~Tree!Inside(Tree!Parent(p), q)
  BY <1>1, PathInside
<1>3. /\ p \in DOMAIN g
      /\ Tree!Parent(p) # <<>> => g[Tree!Parent(p)] = f[Tree!Parent(p)]
  BY <1>1, <1>2, PutForm
<1> QED BY <1>3 DEF Addr

\* A cell whose tree stays where it is becomes null.
Nulled(m, f, q, m1, g) ==
    /\ Placed(m1, g) /\ See(m1, g) = Tree!Put(See(m, f), q, Tree!Leaf(Tree!Null))
    /\ DOMAIN m1 = DOMAIN m /\ Used(g) = Outer(f, q)
    /\ Stands(m1, Tree!Get(f, q)) /\ See(m1, Tree!Get(f, q)) = Tree!Get(See(m, f), q)
    /\ Used(f) = Used(g) \cup Used(Tree!Get(f, q))
    /\ Used(g) \cap Used(Tree!Get(f, q)) = {}
    /\ Tree!Get(f, q)[<<>>] = f[q]

LEMMA NullSound ==
    ASSUME NEW m
    PROVE  /\ Sound(m, NullCell) /\ Kids(NullCell) = 0 /\ NullCell.block = 0
           /\ Shows(m, NullCell) = Tree!Null
<1>1. Sound(m, NullCell) /\ Kids(NullCell) = 0 /\ NullCell.block = 0
  BY DEF Sound, NullCell, Cell, CellSet, Kids, Values
<1>2. Shows(m, NullCell) = Tree!Null
  BY DEF Shows, NullCell, Cell
<1> QED BY <1>1, <1>2

LEMMA NullOut ==
    ASSUME NEW m, NEW f, Placed(m, f), NEW q \in DOMAIN f
    PROVE  Nulled(m, f, q, Write(m, Addr(f, q), NullCell), Tree!Put(f, q, Tree!Leaf(NullCell)))
<1> DEFINE t  == Tree!Leaf(NullCell)
           u  == Tree!Get(f, q)
           a  == Addr(f, q)
           m1 == Write(m, a, NullCell)
           g  == Tree!Put(f, q, t)
<1>1. /\ Stands(m, t) /\ t[<<>>] = NullCell /\ Used(t) = {}
      /\ See(m, t) = Tree!Leaf(Tree!Null)
  BY NullSound, LeafStands
<1> HIDE DEF t
<1>2. Stands(m, u) /\ u[<<>>] = f[q] /\ See(m, u) = Tree!Get(See(m, f), q)
  BY Cut
<1>3. Used(f) = Outer(f, q) \cup Used(u) /\ Outer(f, q) \cap Used(u) = {}
  BY UsedSplit
<1> HIDE DEF u
<1>4. Used(f) \cup {0} \subseteq DOMAIN m
  BY ReachedForest DEF Reached
<1>5. Around(m, m, f, q)
  BY <1>3, <1>4 DEF Same, Around
<1>6. /\ Placed(m1, g) /\ See(m1, g) = Tree!Put(See(m, f), q, See(m, t))
      /\ DOMAIN m1 = DOMAIN m /\ Used(g) = Outer(f, q) \cup Used(t)
  <2>1. Used(t) \cap Outer(f, q) = {}
    BY <1>1
  <2> DEFINE m2 == Write(m, a, t[<<>>])
  <2>2. /\ Placed(m2, g) /\ See(m2, g) = Tree!Put(See(m, f), q, See(m, t))
        /\ DOMAIN m2 = DOMAIN m /\ Used(g) = Outer(f, q) \cup Used(t)
    BY <1>1, <1>5, <2>1, Replace
  <2>3. m2 = m1
    BY <1>1
  <2> QED BY <2>2, <2>3
<1>7. Stands(m1, u) /\ See(m1, u) = See(m, u)
  <2>1. a[1] \notin Used(u) /\ a[1] \in DOMAIN m
    BY <1>3, Place DEF Used
  <2>2. \A b \in Used(u) : b \in DOMAIN m1 /\ m1[b] = m[b]
    BY <1>3, <1>4, <2>1, WriteForm
  <2> QED BY <1>2, <2>2, Frame
<1> QED BY <1>1, <1>2, <1>3, <1>6, <1>7 DEF Nulled, t, u

-------------------------------------------------------------------------------
\* Destroying the value at p leaves what is apart from it.
LEMMA MoveApart ==
    ASSUME NEW m, NEW f, Placed(m, f), ~pool => DOMAIN m \subseteq {0} \cup Used(f),
           NEW p \in DOMAIN f, NEW q \in DOMAIN f, Tree!Apart(p, q)
    PROVE  LET m1 == MoveAssign(m, Addr(f, p), Addr(f, q))
               g  == Tree!Put(Tree!Put(f, q, Tree!Leaf(NullCell)), p, Tree!Get(f, q))
           IN  /\ Holds(m1, g, Tree!Assign(See(m, f), p, q))
               /\ ~pool => DOMAIN m1 \subseteq {0} \cup Used(g)
<1> DEFINE a  == Addr(f, p)
           b  == Addr(f, q)
           D  == Destroy(m, a)
           mA == Write(m, b, NullCell)
           t  == Tree!Get(f, q)
           fA == Tree!Put(f, q, Tree!Leaf(NullCell))
           m0 == Destroy(mA, a)
           m1 == Write(m0, a, t[<<>>])
           g  == Tree!Put(fA, p, t)
<1>1. /\ p \in Path /\ q \in Path /\ DOMAIN f \subseteq Path
      /\ ~Tree!Inside(q, p) /\ ~Tree!Inside(p, q) /\ Tree!Apart(q, p)
  BY PlacedPaths DEF Tree!Apart
<1>2. Nulled(m, f, q, mA, fA)
  BY NullOut
<1>3. DOMAIN Tree!Leaf(NullCell) \subseteq Path /\ DOMAIN t \subseteq Path
  <2>1. DOMAIN t \subseteq Path
    BY <1>1, GetForm
  <2> QED BY <2>1, NullSound, LeafStands, PathEmpty, <1>1
<1>4. Addr(fA, p) = a /\ p \in DOMAIN fA
  BY <1>1, <1>3, AddrPut
<1>5. Tree!Get(fA, p) = Tree!Get(f, p)
  BY <1>1, <1>3, GetPutApart
<1> HIDE DEF t, fA, mA
<1>6. Left(mA, fA, p, m0)
  BY <1>2, <1>4, DestroyedOne DEF Nulled
<1>7. Left(m, f, p, D)
  BY DestroyedOne
<1>8. Used(t) \cap Used(Tree!Get(fA, p)) = {} /\ Used(t) \cap Outer(fA, p) = {}
  <2>1. Used(fA) = Outer(fA, p) \cup Used(Tree!Get(fA, p))
    BY <1>2, <1>4, UsedSplit DEF Nulled
  <2>2. Used(fA) \cap Used(t) = {}
    BY <1>2 DEF Nulled, t
  <2> QED BY <2>1, <2>2
<1>9. Stands(mA, t) /\ See(mA, t) = Tree!Get(See(m, f), q) /\ t[<<>>] = f[q]
  BY <1>2 DEF Nulled, t
<1>10. Stands(m0, t) /\ See(m0, t) = Tree!Get(See(m, f), q)
  <2>1. \A x \in Used(t) : x \in DOMAIN mA
    BY <1>9, StandsPaths DEF Used, Sound
  <2>2. \A x \in Used(t) : x \in DOMAIN m0 /\ m0[x] = mA[x]
    BY <1>6, <1>8, <2>1 DEF Left
  <2> HIDE DEF m0
  <2> QED BY <1>9, <2>2, Frame
<1>11. ~pool => DOMAIN mA \subseteq {0} \cup Used(fA) \cup Used(t)
  BY <1>2 DEF Nulled, t
<1>12. Keeps(m0, m0) /\ DOMAIN m0 \subseteq DOMAIN m0 \cup Used(t)
  BY DEF Keeps
<1>13. /\ Holds(m1, g, Tree!Put(See(mA, fA), p, See(m0, t)))
       /\ ~pool => DOMAIN m1 \subseteq {0} \cup Used(g)
  BY <1>2, <1>4, <1>8, <1>10, <1>11, <1>12, Built DEF Nulled
<1>14. Tree!Put(See(mA, fA), p, See(m0, t)) = Tree!Assign(See(m, f), p, q)
  BY <1>1, <1>2, <1>10 DEF Nulled, Tree!Assign
<1>15. m1 = MoveAssign(m, a, b)
  <2>1. /\ a[1] \in DOMAIN m /\ b[1] \in DOMAIN m /\ (a[1] # b[1] \/ a[2] # b[2]) /\ a # b
        /\ m[b[1]][b[2]] = f[q]
    <3>1. a # b
      BY <1>1, PlaceSame, PathSelf
    <3>2. a[1] # b[1] \/ a[2] # b[2]
      BY <3>1 DEF Addr
    <3> QED BY <3>1, <3>2, Place
  <2>2. b[1] \in Outer(f, p) \cup {0}
    BY <1>1, AddrOuter
  <2>3. b[1] \in DOMAIN D /\ D[b[1]] = m[b[1]]
    BY <1>7, <2>2, OuterLeft DEF Left
  <2>4. a[1] \in DOMAIN D
    BY <1>7, Place, OuterLeft
  <2>5. At(D, b) = t[<<>>]
    BY <1>9, <2>1, <2>3 DEF At
  <2>6. m0 = Write(D, b, NullCell)
    <3>1. CASE pool
      BY <1>6, <1>7, <3>1 DEF Left, mA
    <3>2. CASE ~pool
      <4>1. D = Keep(m, DOMAIN m \ Under(m, a)) /\ m0 = Keep(mA, DOMAIN mA \ Under(mA, a))
        BY <3>2 DEF Destroy, DestroyAll
      <4>2. Under(m, a) = Used(Tree!Get(f, p))
        BY UnderAddr
      <4>3. Under(mA, a) = Used(Tree!Get(fA, p))
        BY <1>2, <1>4, UnderAddr DEF Nulled
      <4>4. m0 = Keep(mA, DOMAIN m \ Under(m, a))
        BY <1>2, <1>5, <4>1, <4>2, <4>3 DEF Nulled
      <4>5. b[1] \in DOMAIN m \ Under(m, a)
        BY <2>3, <4>1 DEF Keep
      <4> HIDE DEF m0, D
      <4> QED BY <2>1, <4>1, <4>4, <4>5, WriteKeep DEF mA
    <3> QED BY <3>1, <3>2
  <2>7. RawAssign(D, a, b) = Write(Write(D, a, t[<<>>]), b, NullCell)
    BY <2>5 DEF RawAssign
  <2> HIDE DEF D, m0, a, b
  <2>8. Write(Write(D, a, t[<<>>]), b, NullCell) = Write(m0, a, t[<<>>])
    BY <2>1, <2>3, <2>4, <2>6, WriteSwap
  <2> QED BY <2>1, <2>7, <2>8 DEF MoveAssign, D, a, b
<1> QED BY <1>13, <1>14, <1>15 DEF fA, t

\* A part of the destination is moved up, its old place among what is forgotten.
LEMMA MoveUp ==
    ASSUME NEW m, NEW f, Placed(m, f), pool,
           NEW p \in DOMAIN f, NEW q \in DOMAIN f, Tree!Inside(q, p), p # q
    PROVE  Holds(MoveAssign(m, Addr(f, p), Addr(f, q)), Tree!Put(f, p, Tree!Get(f, q)),
                 Tree!Assign(See(m, f), p, q))
<1> DEFINE a  == Addr(f, p)
           b  == Addr(f, q)
           t  == Tree!Get(f, q)
           m0 == Write(m, b, NullCell)
           m1 == Write(m0, a, t[<<>>])
           g  == Tree!Put(f, p, t)
<1>1. p \in Path /\ q \in Path /\ DOMAIN f \subseteq Path
  BY PlacedPaths
<1>2. Nulled(m, f, q, m0, Tree!Put(f, q, Tree!Leaf(NullCell)))
  BY NullOut
<1>3. Stands(m0, t) /\ See(m0, t) = Tree!Get(See(m, f), q) /\ t[<<>>] = f[q] /\ DOMAIN m0 = DOMAIN m
  BY <1>2 DEF Nulled
<1>4. /\ a[1] \in DOMAIN m /\ b[1] \in DOMAIN m /\ m[b[1]][b[2]] = f[q]
      /\ a # b /\ (a[1] # b[1] \/ a[2] # b[2])
  <2>1. a # b
    BY PlaceSame
  <2>2. a[1] # b[1] \/ a[2] # b[2]
    BY <2>1 DEF Addr
  <2> QED BY <2>1, <2>2, Place
<1>5. b[1] \notin Outer(f, p) \cup {0}
  <2>1. ~Tree!Inside(p, q)
    BY <1>1, PathOrder
  <2>2. /\ Tree!Parent(q) \in Path /\ Tip(q) \in Steps /\ q = Down(Tree!Parent(q), Tip(q))
    BY Place
  <2>3. Tree!Inside(Tree!Parent(q), p)
    BY <1>1, <2>2, PathInside
  <2>4. Tree!Parent(q) # <<>>
    BY <1>1, <2>3, PathTop, PlacedPaths
  <2>5. Tree!Parent(q) \in DOMAIN f /\ b[1] = f[Tree!Parent(q)].block /\ b[1] # 0
    BY <2>4, Place
  <2>6. ASSUME NEW x \in DOMAIN f, ~Tree!Inside(x, p), f[x].block = b[1] PROVE FALSE
    <3>1. x = Tree!Parent(q)
      BY <2>5, <2>6 DEF Placed, Body
    <3> QED BY <2>3, <2>6, <3>1
  <2> QED BY <2>5, <2>6 DEF Outer
<1>6. Used(f) \cup {0} \subseteq DOMAIN m
  BY ReachedForest DEF Reached
<1>7. Outer(f, p) \subseteq Used(f)
  BY DEF Outer, Used
<1>8. ASSUME NEW d \in Outer(f, p) \cup {0} PROVE Same(m, m0, d, a)
  <2>1. d \in DOMAIN m /\ d # b[1]
    BY <1>5, <1>6, <1>7
  <2>2. m0[d] = m[d]
    BY <1>4, <2>1, WriteForm
  <2> QED BY <1>3, <2>1, <2>2 DEF Same
<1>9. Used(t) \cap Outer(f, p) = {}
  <2>1. Outer(f, p) \subseteq Outer(f, q)
    <3>1. \A x \in DOMAIN f : ~Tree!Inside(x, p) => ~Tree!Inside(x, q)
      BY <1>1, PathOrder
    <3> QED BY <3>1 DEF Outer
  <2>2. Outer(f, q) \cap Used(t) = {}
    BY UsedSplit
  <2> QED BY <2>1, <2>2
<1>10. Placed(m1, g) /\ See(m1, g) = Tree!Put(See(m, f), p, See(m0, t))
  <2> HIDE DEF m0, t
  <2> QED BY <1>3, <1>8, <1>9, Replace DEF Around
<1>11. m1 = MoveAssign(m, a, b)
  <2>1. Destroy(m, a) = m
    BY DEF Destroy, DestroyAll
  <2>2. RawAssign(m, a, b) = Write(Write(m, a, t[<<>>]), b, NullCell)
    BY <1>3, <1>4 DEF RawAssign, At
  <2> HIDE DEF t, a, b
  <2>3. Write(Write(m, a, t[<<>>]), b, NullCell) = Write(m0, a, t[<<>>])
    BY <1>4, WriteSwap
  <2> QED BY <1>4, <2>1, <2>2, <2>3 DEF MoveAssign
<1> QED BY <1>3, <1>10, <1>11 DEF Holds, Tree!Assign

LEMMA AssignStep ==
    ASSUME IInv, NEW p \in Paths, NEW q \in Paths, Assign(p, q)
    PROVE  IInv'
<1>1. PICK f : Holds(mem, f, doc) /\ DOMAIN mem = {0} \cup Used(f)
  BY DEF IInv
<1>2. Placed(mem, f) /\ doc = See(mem, f)
  BY <1>1 DEF Holds
<1>3. /\ p \in DOMAIN f /\ Address(p) = Addr(f, p) /\ p \in Path
      /\ q \in DOMAIN f /\ Address(q) = Addr(f, q) /\ q \in Path
  BY <1>1, AtPath
<1>4. /\ ~Tree!Inside(p, q) /\ (Tree!Inside(q, p) => pool)
      /\ Becomes(MoveAssign(mem, Addr(f, p), Addr(f, q)), Tree!Assign(doc, p, q))
  BY <1>3 DEF Assign
<1>5. CASE Tree!Inside(q, p)
  <2>1. p # q
    BY <1>3, <1>4, PathSelf
  <2>2. Holds(MoveAssign(mem, Addr(f, p), Addr(f, q)), Tree!Put(f, p, Tree!Get(f, q)),
              Tree!Assign(doc, p, q))
    BY <1>2, <1>3, <1>4, <1>5, <2>1, MoveUp
  <2> QED BY <1>4, <1>5, <2>2, Settled
<1>6. CASE ~Tree!Inside(q, p)
  <2> DEFINE m1 == MoveAssign(mem, Addr(f, p), Addr(f, q))
             g  == Tree!Put(Tree!Put(f, q, Tree!Leaf(NullCell)), p, Tree!Get(f, q))
  <2>1. Tree!Apart(p, q)
    BY <1>4, <1>6 DEF Tree!Apart
  <2>2. Holds(m1, g, Tree!Assign(doc, p, q)) /\ (~pool => DOMAIN m1 \subseteq {0} \cup Used(g))
    BY <1>1, <1>2, <1>3, <2>1, MoveApart
  <2> HIDE DEF m1, g
  <2>3. Becomes(m1, Tree!Assign(doc, p, q))
    BY <1>4 DEF m1
  <2> QED BY <2>2, <2>3, Settled
<1> QED BY <1>5, <1>6

-------------------------------------------------------------------------------
LEMMA AroundSelf ==
    ASSUME NEW m, NEW f, Placed(m, f), NEW p \in DOMAIN f
    PROVE  Around(m, m, f, p)
<1>1. Used(f) \cup {0} \subseteq DOMAIN m
  BY ReachedForest DEF Reached
<1>2. Outer(f, p) \subseteq Used(f)
  BY DEF Outer, Used
<1> QED BY <1>1, <1>2 DEF Around, Same

LEMMA NullLeaf ==
    /\ DOMAIN Tree!Leaf(NullCell) \subseteq Path /\ Map(Tree!Leaf(NullCell))
    /\ Used(Tree!Leaf(NullCell)) = {}
    /\ DOMAIN Tree!Leaf(Tree!Null) \subseteq Path /\ Map(Tree!Leaf(Tree!Null))
<1>1. <<>> \in Path
  BY DEF Path
<1>2. DOMAIN Tree!Leaf(Tree!Null) \subseteq Path /\ Map(Tree!Leaf(Tree!Null))
  BY <1>1 DEF Tree!Leaf, Map
<1>3. DOMAIN Tree!Leaf(NullCell) \subseteq Path /\ Map(Tree!Leaf(NullCell))
  BY <1>1 DEF Tree!Leaf, Map
<1>4. Used(Tree!Leaf(NullCell)) = {}
  BY NullSound, LeafStands
<1> QED BY <1>2, <1>3, <1>4

LEMMA SeeForm ==
    ASSUME NEW m, NEW f
    PROVE  /\ Map(See(m, f)) /\ DOMAIN See(m, f) = DOMAIN f
           /\ \A x \in DOMAIN f : See(m, f)[x] = Shows(m, f[x])
  BY DEF See, Map

LEMMA SwapStep ==
    ASSUME IInv, NEW p \in Paths, NEW q \in Paths, Swap(p, q)
    PROVE  IInv'
<1>1. PICK f : Holds(mem, f, doc) /\ DOMAIN mem = {0} \cup Used(f)
  BY DEF IInv
<1> DEFINE a  == Addr(f, p)
           b  == Addr(f, q)
           tp == Tree!Get(f, p)
           tq == Tree!Get(f, q)
           mA == Write(mem, b, NullCell)
           fA == Tree!Put(f, q, Tree!Leaf(NullCell))
           mB == Write(mA, a, tq[<<>>])
           fB == Tree!Put(fA, p, tq)
           mC == Write(mB, b, tp[<<>>])
           fC == Tree!Put(fB, q, tp)
<1>2. Placed(mem, f) /\ doc = See(mem, f)
  BY <1>1 DEF Holds
<1>3. /\ p \in DOMAIN f /\ Address(p) = a /\ p \in Path /\ At(mem, a) = f[p]
      /\ q \in DOMAIN f /\ Address(q) = b /\ q \in Path /\ At(mem, b) = f[q]
  BY <1>1, AtPath
<1>4. /\ Tree!Apart(p, q) /\ Tree!Apart(q, p) /\ ~Tree!Inside(p, q) /\ ~Tree!Inside(q, p)
      /\ Becomes(Write(Write(mem, a, f[q]), b, f[p]), Tree!Swap(doc, p, q))
  BY <1>3 DEF Swap, Tree!Apart
<1>5. Nulled(mem, f, q, mA, fA)
  BY <1>2, <1>3, NullOut
<1>6. /\ DOMAIN f \subseteq Path /\ DOMAIN tp \subseteq Path /\ DOMAIN tq \subseteq Path
      /\ Map(tp) /\ Map(tq) /\ DOMAIN doc \subseteq Path
      /\ DOMAIN Tree!Get(doc, p) \subseteq Path /\ DOMAIN Tree!Get(doc, q) \subseteq Path
  BY <1>2, <1>3, PlacedPaths, GetForm, SeeForm
<1>7. Addr(fA, p) = a /\ p \in DOMAIN fA /\ tp = Tree!Get(fA, p)
  BY <1>2, <1>3, <1>4, <1>6, NullLeaf, AddrPut, GetPutApart
<1>8. Stands(mem, tp) /\ tp[<<>>] = f[p] /\ tq[<<>>] = f[q]
  BY <1>2, <1>3, Cut
<1>9. DOMAIN fA \subseteq Path /\ DOMAIN fB \subseteq Path
  <2>1. DOMAIN fA \subseteq Path
    BY <1>3, <1>6, NullLeaf, PutForm
  <2> HIDE DEF fA, tq
  <2> QED BY <1>3, <1>6, <2>1, PutForm DEF tq
<1>10. Tree!Get(fA, q) = Tree!Leaf(NullCell)
  BY <1>3, <1>6, NullLeaf, GetPut
<1> HIDE DEF tp, tq, mA, fA
<1>11. /\ Stands(mA, tp) /\ See(mA, tp) = Tree!Get(doc, p)
       /\ Used(fA) = Outer(fA, p) \cup Used(tp) /\ Outer(fA, p) \cap Used(tp) = {}
  <2>1. Placed(mA, fA)
    BY <1>5 DEF Nulled
  <2>2. Stands(mA, tp) /\ See(mA, tp) = Tree!Get(See(mA, fA), p)
    BY <1>7, <2>1, Cut
  <2>3. See(mA, fA) = Tree!Put(doc, q, Tree!Leaf(Tree!Null))
    BY <1>2, <1>5 DEF Nulled
  <2>4. See(mA, tp) = Tree!Get(doc, p)
    BY <1>3, <1>4, <1>6, <2>2, <2>3, NullLeaf, GetPutApart
  <2> QED BY <1>7, <2>1, <2>2, <2>4, UsedSplit
<1>12. /\ Stands(mA, tq) /\ See(mA, tq) = Tree!Get(doc, q)
       /\ Used(fA) \cap Used(tq) = {} /\ Used(f) = Used(fA) \cup Used(tq)
       /\ Placed(mA, fA) /\ See(mA, fA) = Tree!Put(doc, q, Tree!Leaf(Tree!Null))
       /\ DOMAIN mA = DOMAIN mem
  BY <1>2, <1>5 DEF Nulled, tq
<1>13. /\ Placed(mB, fB) /\ See(mB, fB) = Tree!Put(See(mA, fA), p, See(mA, tq))
       /\ DOMAIN mB = DOMAIN mA /\ Used(fB) = Outer(fA, p) \cup Used(tq)
  <2>1. Used(tq) \cap Outer(fA, p) = {}
    BY <1>11, <1>12
  <2>2. Around(mA, mA, fA, p)
    BY <1>7, <1>12, AroundSelf
  <2> QED BY <1>7, <1>12, <2>1, <2>2, Replace
<1>14. Stands(mB, tp) /\ See(mB, tp) = Tree!Get(doc, p)
  <2>1. a[1] \in DOMAIN mA /\ a[1] \notin Used(tp)
    BY <1>7, <1>11, <1>12, Place DEF Used
  <2>2. \A d \in Used(tp) : d \in DOMAIN mA
    BY <1>11, StandsPaths DEF Used, Sound
  <2>3. \A d \in Used(tp) : d \in DOMAIN mB /\ mB[d] = mA[d]
    BY <2>1, <2>2, WriteForm
  <2> HIDE DEF mB
  <2> QED BY <1>11, <2>3, Frame
<1>15. /\ q \in DOMAIN fB /\ Addr(fB, q) = b /\ Tree!Get(fB, q) = Tree!Leaf(NullCell)
  <2>1. q \in DOMAIN fA /\ Addr(fA, q) = b
    <3>1. q \in DOMAIN fA
      BY <1>3, <1>6, NullLeaf, PutForm, PathSelf, LeafStands, NullSound DEF fA
    <3>2. /\ Tree!Parent(q) \in Path /\ Tip(q) \in Steps /\ q = Down(Tree!Parent(q), Tip(q))
          /\ Len(Tree!Parent(q)) < Len(q)
          /\ Tree!Parent(q) # <<>> => Tree!Parent(q) \in DOMAIN f
      BY <1>2, <1>3, Place, PathUp
    <3>3. ~Tree!Inside(Tree!Parent(q), q)
      BY <1>3, <3>2, PathInside DEF Path
    <3>4. Tree!Parent(q) # <<>> => fA[Tree!Parent(q)] = f[Tree!Parent(q)]
      BY <1>3, <1>6, <3>2, <3>3, NullLeaf, PutForm DEF fA
    <3> QED BY <3>1, <3>4 DEF Addr
  <2>2. q \in DOMAIN fB /\ Addr(fB, q) = Addr(fA, q)
    BY <1>4, <1>6, <1>7, <1>12, <2>1, AddrPut
  <2>3. Tree!Get(fB, q) = Tree!Get(fA, q)
    BY <1>3, <1>4, <1>6, <1>9, GetPutApart
  <2> QED BY <1>10, <2>1, <2>2, <2>3
<1> HIDE DEF mB, fB
<1>16. Outer(fB, q) \cap Used(tp) = {} /\ Used(fB) = Outer(fB, q)
  <2>1. Used(fB) = Outer(fB, q) \cup Used(Tree!Get(fB, q))
    BY <1>13, <1>15, UsedSplit
  <2>2. Used(fB) = Outer(fB, q)
    BY <1>15, <2>1, NullLeaf
  <2> QED BY <1>11, <1>12, <1>13, <2>2
<1>17. /\ Placed(mC, fC) /\ See(mC, fC) = Tree!Put(See(mB, fB), q, See(mB, tp))
       /\ DOMAIN mC = DOMAIN mB /\ Used(fC) = Outer(fB, q) \cup Used(tp)
  <2>1. Around(mB, mB, fB, q)
    BY <1>13, <1>15, AroundSelf
  <2> QED BY <1>13, <1>14, <1>15, <1>16, <2>1, Replace
<1>18. See(mC, fC) = Tree!Swap(doc, p, q)
  <2> DEFINE u == Tree!Leaf(Tree!Null)
             t == Tree!Get(doc, q)
             s == Tree!Get(doc, p)
  <2>1. See(mC, fC) = Tree!Put(Tree!Put(Tree!Put(doc, q, u), p, t), q, s)
    BY <1>12, <1>13, <1>14, <1>17
  <2>2. Tree!Put(Tree!Put(doc, q, u), p, t) = Tree!Put(Tree!Put(doc, p, t), q, u)
    BY <1>3, <1>4, <1>6, NullLeaf, PutSwap
  <2>3. DOMAIN Tree!Put(doc, p, t) \subseteq Path
    BY <1>3, <1>6, PutForm
  <2>4. Tree!Put(Tree!Put(Tree!Put(doc, p, t), q, u), q, s) = Tree!Put(Tree!Put(doc, p, t), q, s)
    BY <1>3, <1>6, <2>3, NullLeaf, PathSelf, PutPut
  <2> QED BY <2>1, <2>2, <2>4 DEF Tree!Swap
<1>19. mC = Write(Write(mem, a, f[q]), b, f[p])
  <2>1. a[1] \in DOMAIN mem /\ b[1] \in DOMAIN mem /\ (a[1] # b[1] \/ a[2] # b[2])
    <3>1. a # b
      BY <1>2, <1>3, <1>4, PlaceSame, PathSelf
    <3>2. a[1] # b[1] \/ a[2] # b[2]
      BY <3>1 DEF Addr
    <3> QED BY <1>2, <1>3, <3>2, Place
  <2>2. mB = Write(Write(mem, a, f[q]), b, NullCell)
    <3> HIDE DEF a, b
    <3> QED BY <1>8, <2>1, WriteSwap DEF mB, mA
  <2>3. b[1] \in DOMAIN Write(mem, a, f[q])
    BY <2>1, WriteForm
  <2> HIDE DEF a, b
  <2> QED BY <1>8, <2>2, <2>3, WriteTwice
<1>20. DOMAIN mC \subseteq {0} \cup Used(fC)
  BY <1>1, <1>11, <1>12, <1>13, <1>16, <1>17
<1> HIDE DEF mC, fC
<1>21. Holds(mC, fC, Tree!Swap(doc, p, q)) /\ Becomes(mC, Tree!Swap(doc, p, q))
  BY <1>4, <1>17, <1>18, <1>19 DEF Holds
<1> QED BY <1>20, <1>21, Settled

-------------------------------------------------------------------------------
\* The new blocks stand for those of the tree u with cells in them.
Renames(m, u, new) ==
    /\ DOMAIN new = {b \in Used(u) : DOMAIN m[b] # {}}
    /\ \A b \in DOMAIN new : new[b] \in Nat \ {0} /\ new[b] \notin DOMAIN m
    /\ \A b, d \in DOMAIN new : new[b] = new[d] => b = d

LEMMA Renaming ==
    ASSUME NEW m, NEW u, Stands(m, u), NEW new \in NewBlocks(m, u[<<>>])
    PROVE  Renames(m, u, new)
<1>1. FilledBlocks(m, u[<<>>]) = {b \in Used(u) : DOMAIN m[b] # {}}
  <2>1. CASE u[<<>>].block = 0
    BY <2>1, EmptyTree DEF FilledBlocks
  <2>2. CASE u[<<>>].block # 0
    BY <2>2, ReachedTree DEF FilledBlocks
  <2> QED BY <2>1, <2>2
<1> DEFINE F == FilledBlocks(m, u[<<>>])
<1>2. new \in [F -> Blocks \ DOMAIN m] /\ \A x, y \in F : new[x] = new[y] => x = y
  BY DEF NewBlocks, Injections
<1> HIDE DEF F
<1>3. DOMAIN new = F /\ \A b \in F : new[b] \in Blocks \ DOMAIN m
  BY <1>2
<1>4. \A b \in DOMAIN new : new[b] \in Nat \ {0} /\ new[b] \notin DOMAIN m
  BY <1>3, DomAssumption
<1> QED BY <1>1, <1>2, <1>3, <1>4 DEF Renames, F

Copies(m, new, m0) ==
    /\ DOMAIN m0 = DOMAIN m \cup {new[d] : d \in DOMAIN new}
    /\ Keeps(m, m0)
    /\ \A b \in DOMAIN new : /\ DOMAIN m0[new[b]] = DOMAIN m[b]
                             /\ \A i \in DOMAIN m[b] : m0[new[b]][i] = CopyOf(m[b][i], new)

LEMMA CopiedBlocks ==
    ASSUME NEW m, NEW u, NEW new, Renames(m, u, new)
    PROVE  Copies(m, new, CopyBlocks(m, new))
<1> DEFINE old(b) == CHOOSE d \in DOMAIN new : new[d] = b
           B == DOMAIN m \cup {new[d] : d \in DOMAIN new}
           e(b) == IF b \in DOMAIN m THEN m[b]
                   ELSE [i \in DOMAIN m[old(b)] |-> CopyOf(m[old(b)][i], new)]
<1>1. CopyBlocks(m, new) = [b \in B |-> e(b)]
  BY DEF CopyBlocks
<1>2. ASSUME NEW b \in DOMAIN new PROVE old(new[b]) = b
  BY DEF Renames
<1>3. ASSUME NEW b \in DOMAIN new
      PROVE  CopyBlocks(m, new)[new[b]] = [i \in DOMAIN m[b] |-> CopyOf(m[b][i], new)]
  <2>1. new[b] \in B /\ new[b] \notin DOMAIN m
    BY DEF Renames
  <2>2. CopyBlocks(m, new)[new[b]] = e(new[b])
    BY <1>1, <2>1
  <2>3. e(new[b]) = [i \in DOMAIN m[old(new[b])] |-> CopyOf(m[old(new[b])][i], new)]
    BY <2>1
  <2> HIDE DEF e, old
  <2> QED BY <1>2, <2>2, <2>3
<1>4. \A b \in DOMAIN m : b \in DOMAIN CopyBlocks(m, new) /\ CopyBlocks(m, new)[b] = m[b]
  BY <1>1
<1>5. DOMAIN CopyBlocks(m, new) = B
  BY <1>1
<1> DEFINE m0 == CopyBlocks(m, new)
<1>6. ASSUME NEW b \in DOMAIN new
      PROVE  DOMAIN m0[new[b]] = DOMAIN m[b] /\ \A i \in DOMAIN m[b] : m0[new[b]][i] = CopyOf(m[b][i], new)
  BY <1>3
<1> HIDE DEF m0
<1>7. Keeps(m, m0)
  BY <1>4 DEF Keeps, m0
<1>8. DOMAIN m0 = B
  BY <1>5 DEF m0
<1>9. Copies(m, new, m0)
  BY <1>6, <1>7, <1>8 DEF Copies
<1> QED BY <1>9 DEF m0

LEMMA CopiedCell ==
    ASSUME NEW m, NEW u, Stands(m, u), NEW new, Renames(m, u, new), NEW x \in DOMAIN u
    PROVE  /\ CopyOf(u[x], new) \in CellSet
           /\ CopyOf(u[x], new).k = u[x].k /\ CopyOf(u[x], new).s = u[x].s
           /\ CopyOf(u[x], new).size = u[x].size
           /\ Kids(CopyOf(u[x], new)) = Kids(u[x]) /\ InUse(CopyOf(u[x], new)) = InUse(u[x])
           /\ u[x].block \in DOMAIN new => CopyOf(u[x], new).block = new[u[x].block]
           /\ u[x].block \notin DOMAIN new =>
                 /\ CopyOf(u[x], new).block = 0 /\ CopyOf(u[x], new).cap = 0
                 /\ u[x].size = 0 /\ u[x].k # "Copy"
           /\ u[x].block \in DOMAIN new => u[x].block # 0
<1> DEFINE c == u[x]
<1>1. c \in CellSet /\ Sound(m, c)
  BY StandsPaths
<1>2. c.block # 0 => c.block \in Used(u)
  BY DEF Used
<1>3. c.block \in DOMAIN new => c.block # 0
  BY DEF Renames, Used
<1>4. c.block \in DOMAIN new => new[c.block] \in Nat
  BY DEF Renames
<1> HIDE DEF c
<1>5. c.block \notin DOMAIN new => c.size = 0 /\ c.k # "Copy"
  <2>1. SUFFICES ASSUME c.block \notin DOMAIN new, c.block # 0 PROVE c.size = 0 /\ c.k # "Copy"
    BY <1>1 DEF Sound
  <2>2. DOMAIN m[c.block] = {}
    BY <1>2, <2>1 DEF Renames
  <2>3. InUse(c) = 0
    BY <1>1, <2>1, <2>2, KidsNat DEF Sound
  <2> QED BY <1>1, <2>3, KidsNat DEF Sound
<1>6. /\ CopyOf(c, new) \in CellSet
      /\ CopyOf(c, new).k = c.k /\ CopyOf(c, new).s = c.s /\ CopyOf(c, new).size = c.size
      /\ c.block \in DOMAIN new => CopyOf(c, new).block = new[c.block]
      /\ c.block \notin DOMAIN new => CopyOf(c, new).block = 0 /\ CopyOf(c, new).cap = 0
  BY <1>1, <1>4 DEF CopyOf, CellSet
<1>7. Kids(CopyOf(c, new)) = Kids(c) /\ InUse(CopyOf(c, new)) = InUse(c)
  BY <1>6 DEF Kids, InUse
<1> QED BY <1>3, <1>5, <1>6, <1>7 DEF c

\* The copy of a tree that stands, in its new blocks.
CopyTree(u, new) == [x \in DOMAIN u |-> CopyOf(u[x], new)]

LEMMA CopyUsed ==
    ASSUME NEW m, NEW u, Stands(m, u), NEW new, Renames(m, u, new)
    PROVE  Used(CopyTree(u, new)) = {new[b] : b \in DOMAIN new}
<1> DEFINE t == CopyTree(u, new)
<1>1. DOMAIN t = DOMAIN u /\ \A x \in DOMAIN u : t[x] = CopyOf(u[x], new)
  BY DEF CopyTree
<1> HIDE DEF t
<1>2. ASSUME NEW x \in DOMAIN u, t[x].block # 0 PROVE \E b \in DOMAIN new : t[x].block = new[b]
  BY <1>1, <1>2, CopiedCell
<1>3. ASSUME NEW b \in DOMAIN new PROVE \E x \in DOMAIN u : t[x].block = new[b]
  <2>1. PICK x \in DOMAIN u : u[x].block = b
    BY DEF Renames, Used
  <2> QED BY <1>1, <2>1, CopiedCell
<1>4. \A b \in DOMAIN new : new[b] # 0
  BY DEF Renames
<1> QED BY <1>1, <1>2, <1>3, <1>4 DEF Used, t

LEMMA CopyStands ==
    ASSUME NEW m, NEW u, Stands(m, u), NEW new, Renames(m, u, new)
    PROVE  /\ Stands(CopyBlocks(m, new), CopyTree(u, new))
           /\ See(CopyBlocks(m, new), CopyTree(u, new)) = See(m, u)
           /\ CopyTree(u, new)[<<>>] = CopyOf(u[<<>>], new)
<1> DEFINE t  == CopyTree(u, new)
           m0 == CopyBlocks(m, new)
<1>1. DOMAIN t = DOMAIN u /\ \A x \in DOMAIN u : t[x] = CopyOf(u[x], new)
  BY DEF CopyTree
<1>3. \A b \in DOMAIN new : /\ new[b] \in DOMAIN m0 /\ DOMAIN m0[new[b]] = DOMAIN m[b]
                            /\ \A i \in DOMAIN m[b] : m0[new[b]][i] = CopyOf(m[b][i], new)
  <2> HIDE DEF m0
  <2>1. Copies(m, new, m0)
    BY CopiedBlocks DEF m0
  <2> QED BY <2>1 DEF Copies
<1> HIDE DEF t, m0
<1>4. DOMAIN u \subseteq Path /\ <<>> \in DOMAIN u /\ TreeShape(u)
  BY StandsPaths DEF Stands
<1>5. TreeShape(t)
  <2>1. \A x \in DOMAIN t : t[x] \in CellSet /\ Kids(t[x]) = Kids(u[x])
    BY <1>1, CopiedCell
  <2> QED BY <1>1, <1>4, <2>1 DEF TreeShape
<1>6. ASSUME NEW x \in DOMAIN u
      PROVE  /\ Sound(m0, t[x]) /\ Shows(m0, t[x]) = Shows(m, u[x])
  <2>1. Sound(m, u[x]) /\ u[x] \in CellSet /\ Kids(u[x]) \in Nat
    BY StandsPaths, KidsNat
  <2>2. /\ t[x] \in CellSet /\ t[x].k = u[x].k /\ t[x].s = u[x].s /\ t[x].size = u[x].size
        /\ InUse(t[x]) = InUse(u[x])
        /\ u[x].block \in DOMAIN new => t[x].block = new[u[x].block] /\ u[x].block # 0
        /\ u[x].block \notin DOMAIN new => t[x].block = 0 /\ t[x].cap = 0 /\ u[x].size = 0 /\ u[x].k # "Copy"
    BY <1>1, CopiedCell
  <2>3. u[x].k = "Copy" =>
           /\ u[x].block \in DOMAIN new
           /\ m0[t[x].block][1] \in CellSet /\ m0[t[x].block][1].k = "Units"
           /\ m0[t[x].block][1].block = 0 /\ m0[t[x].block][1].s = m[u[x].block][1].s
    <3>1. SUFFICES ASSUME u[x].k = "Copy" PROVE
           /\ u[x].block \in DOMAIN new
           /\ m0[t[x].block][1] \in CellSet /\ m0[t[x].block][1].k = "Units"
           /\ m0[t[x].block][1].block = 0 /\ m0[t[x].block][1].s = m[u[x].block][1].s
      OBVIOUS
    <3>2. u[x].block \in DOMAIN new /\ t[x].block = new[u[x].block]
      BY <2>2, <3>1
    <3> DEFINE c == m[u[x].block][1]
    <3>3. c \in CellSet /\ c.k = "Units" /\ c.block = 0 /\ 1 \in DOMAIN m[u[x].block]
      BY <2>1, <3>1 DEF Sound, InUse
    <3>4. m0[t[x].block][1] = CopyOf(c, new)
      BY <1>3, <3>2, <3>3
    <3>5. 0 \notin DOMAIN new
      BY DEF Renames, Used
    <3> HIDE DEF c
    <3>6. CopyOf(c, new) \in CellSet /\ CopyOf(c, new).k = "Units" /\ CopyOf(c, new).block = 0 /\ CopyOf(c, new).s = c.s
      BY <3>3, <3>5 DEF CopyOf, CellSet
    <3> QED BY <3>2, <3>4, <3>6 DEF c
  <2>4. Sound(m0, t[x])
    <3>1. t[x].k \in {"Null", "Const"} => t[x].block = 0
      BY <2>1, <2>2 DEF Sound
    <3>2. t[x].block = 0 => t[x].size = 0 /\ t[x].cap = 0
      BY <2>2 DEF Renames
    <3>3. t[x].block # 0 => t[x].block \in DOMAIN m0 /\ DOMAIN m0[t[x].block] = 1..InUse(t[x])
      BY <1>3, <2>1, <2>2 DEF Sound
    <3>4. t[x].k = "Copy" => t[x].block # 0 /\ t[x].size = 1
      BY <1>3, <2>1, <2>2 DEF Sound, Renames
    <3> QED BY <2>1, <2>2, <2>3, <3>1, <3>2, <3>3, <3>4 DEF Sound
  <2>5. Shows(m0, t[x]) = Shows(m, u[x])
    BY <2>1, <2>2, <2>3 DEF Shows
  <2> QED BY <2>4, <2>5
<1>7. ASSUME NEW x \in DOMAIN u, NEW i \in 1..Kids(t[x])
      PROVE  t[Down(x, i)] = m0[t[x].block][i]
  <2>1. i \in 1..Kids(u[x]) /\ Sound(m, u[x])
    BY <1>1, CopiedCell, StandsPaths
  <2>2. u[x].block # 0 /\ i \in DOMAIN m[u[x].block] /\ i \in Steps
    BY <2>1, KidsBlock
  <2>3. u[x].block \in DOMAIN new
    BY <2>2 DEF Renames, Used
  <2>4. t[x].block = new[u[x].block]
    BY <1>1, <2>3, CopiedCell
  <2>5. Down(x, i) \in DOMAIN u /\ u[Down(x, i)] = m[u[x].block][i]
    BY <1>4, <2>1, <2>2 DEF TreeShape, Stands, Body
  <2> QED BY <1>1, <1>3, <2>2, <2>3, <2>4, <2>5
<1>8. ASSUME NEW x \in DOMAIN u, NEW y \in DOMAIN u, t[x].block = t[y].block, t[x].block # 0
      PROVE  x = y
  <2>1. u[x].block \in DOMAIN new /\ u[y].block \in DOMAIN new
    BY <1>1, <1>8, CopiedCell
  <2>2. new[u[x].block] = new[u[y].block]
    BY <1>1, <1>8, <2>1, CopiedCell
  <2>3. u[x].block = u[y].block /\ u[x].block # 0
    BY <2>1, <2>2 DEF Renames, Used
  <2> QED BY <2>3 DEF Stands, Body
<1>9. See(m0, t) = See(m, u)
  BY <1>1, <1>6 DEF See
<1> QED BY <1>1, <1>4, <1>5, <1>6, <1>7, <1>8, <1>9 DEF Stands, Body, t, m0

LEMMA CopyFromStep ==
    ASSUME IInv, NEW p \in Paths, NEW q \in Paths, CopyFrom(p, q)
    PROVE  IInv'
<1>1. PICK f : Holds(mem, f, doc) /\ DOMAIN mem = {0} \cup Used(f)
  BY DEF IInv
<1> DEFINE D   == Destroy(mem, Addr(f, p))
           u   == Tree!Get(f, q)
           c   == At(D, Addr(f, q))
           new == CHOOSE h \in NewBlocks(D, c) : TRUE
           t   == CopyTree(u, new)
           m0  == CopyBlocks(D, new)
           m1  == Write(m0, Addr(f, p), t[<<>>])
           g   == Tree!Put(f, p, t)
<1>2. Placed(mem, f) /\ doc = See(mem, f)
  BY <1>1 DEF Holds
<1>3. /\ p \in DOMAIN f /\ Address(p) = Addr(f, p) /\ p \in Path
      /\ q \in DOMAIN f /\ Address(q) = Addr(f, q) /\ q \in Path
  BY <1>1, AtPath
<1>4. /\ Tree!Apart(p, q) \/ pool
      /\ NewBlocks(D, c) # {}
      /\ Becomes(CopyInto(D, Addr(f, p), c), Tree!Copy(doc, p, q))
  BY <1>3 DEF CopyFrom
<1>5. Left(mem, f, p, D)
  BY <1>2, <1>3, DestroyedOne
<1>6. Stands(mem, u) /\ u[<<>>] = f[q] /\ See(mem, u) = Tree!Get(doc, q)
  BY <1>2, <1>3, Cut
<1> HIDE DEF u, D
<1>7. \A b \in Used(u) : b \in DOMAIN mem
  BY <1>6, StandsPaths DEF Used, Sound
<1>8. /\ \A b \in Used(u) : b \in DOMAIN D /\ D[b] = mem[b]
      /\ c = u[<<>>]
  <2>1. CASE pool
    <3>1. D = mem
      BY <1>5, <2>1 DEF Left
    <3>2. At(mem, Addr(f, q)) = f[q]
      BY <1>2, <1>3, Place DEF At
    <3> QED BY <1>6, <1>7, <3>1, <3>2
  <2>2. CASE Tree!Apart(p, q)
    <3>1. ~Tree!Inside(q, p) /\ ~Tree!Inside(p, q)
      BY <2>2 DEF Tree!Apart
    <3>2. Used(u) \subseteq Outer(f, p)
      <4>1. \A r \in DOMAIN u : Below(q, r) \in DOMAIN f /\ r \in Path /\ u[r] = f[Below(q, r)]
        BY <1>2, <1>3, GetForm, PlacedPaths DEF u
      <4>2. \A r \in DOMAIN u : ~Tree!Inside(Below(q, r), p)
        BY <1>3, <2>2, <4>1, ApartBelow
      <4> QED BY <4>1, <4>2 DEF Used, Outer
    <3>3. Outer(f, p) \cup {0} \subseteq DOMAIN D
      BY <1>2, <1>3, <1>5, OuterLeft
    <3>4. \A b \in Outer(f, p) \cup {0} : D[b] = mem[b]
      BY <1>5, <3>3 DEF Left
    <3>5. At(D, Addr(f, q)) = At(mem, Addr(f, q))
      BY <1>2, <1>3, <3>1, <3>4, AddrOuter DEF At
    <3>6. At(mem, Addr(f, q)) = f[q]
      BY <1>2, <1>3, Place DEF At
    <3> QED BY <1>6, <3>2, <3>3, <3>4, <3>5, <3>6
  <2> QED BY <1>4, <2>1, <2>2
<1>9. Stands(D, u) /\ See(D, u) = Tree!Get(doc, q)
  BY <1>6, <1>8, Frame
<1>10. Renames(D, u, new)
  BY <1>4, <1>8, <1>9, Renaming
<1> HIDE DEF new, c
<1>11. /\ Stands(m0, t) /\ See(m0, t) = Tree!Get(doc, q) /\ t[<<>>] = CopyOf(c, new)
       /\ Used(t) = {new[b] : b \in DOMAIN new}
  BY <1>8, <1>9, <1>10, CopyStands, CopyUsed
<1>12. Copies(D, new, m0)
  BY <1>10, CopiedBlocks
<1> HIDE DEF t, m0
<1>13. Used(t) \cap Outer(f, p) = {}
  <2>1. \A b \in Used(t) : b \notin DOMAIN D
    BY <1>10, <1>11 DEF Renames
  <2>2. Outer(f, p) \cup {0} \subseteq DOMAIN D
    BY <1>2, <1>3, <1>5, OuterLeft
  <2> QED BY <2>1, <2>2
<1>14. Keeps(D, m0) /\ DOMAIN m0 \subseteq DOMAIN D \cup Used(t)
  BY <1>11, <1>12 DEF Copies
<1>15. ~pool => DOMAIN mem \subseteq {0} \cup Used(f) \cup Used(t)
  BY <1>1
<1>16. /\ Holds(m1, g, Tree!Put(doc, p, See(m0, t)))
       /\ ~pool => DOMAIN m1 \subseteq {0} \cup Used(g)
  BY <1>2, <1>3, <1>11, <1>13, <1>14, <1>15, Built DEF D
<1>17. m1 = CopyInto(D, Addr(f, p), c) /\ Tree!Put(doc, p, See(m0, t)) = Tree!Copy(doc, p, q)
  BY <1>11 DEF CopyInto, m0, new, Tree!Copy
<1> HIDE DEF m1, g
<1>18. Holds(m1, g, Tree!Copy(doc, p, q)) /\ Becomes(m1, Tree!Copy(doc, p, q))
  BY <1>4, <1>16, <1>17
<1> QED BY <1>16, <1>18, Settled

-------------------------------------------------------------------------------
\* A value's blocks are its own and its children's, and these are all different.
LEMMA UsedInside ==
    ASSUME NEW f, DOMAIN f \subseteq Path, NEW p \in Path
    PROVE  Used(Tree!Get(f, p)) = {f[y].block : y \in {y \in DOMAIN f : Tree!Inside(y, p)}} \ {0}
<1> DEFINE t == Tree!Get(f, p)
<1>1. /\ DOMAIN t \subseteq Path
      /\ \A r \in Path : r \in DOMAIN t <=> Below(p, r) \in DOMAIN f
      /\ \A r \in DOMAIN t : t[r] = f[Below(p, r)]
  BY GetForm
<1> HIDE DEF t
<1>2. ASSUME NEW r \in DOMAIN t
      PROVE  \E y \in DOMAIN f : Tree!Inside(y, p) /\ t[r].block = f[y].block
  BY <1>1, PathBelow
<1>3. ASSUME NEW y \in DOMAIN f, Tree!Inside(y, p)
      PROVE  \E r \in DOMAIN t : t[r].block = f[y].block
  <2>1. Tree!Rest(y, p) \in Path /\ Below(p, Tree!Rest(y, p)) = y
    BY <1>3, PathRest
  <2> QED BY <1>1, <2>1
<1> QED BY <1>2, <1>3 DEF Used, t

LEMMA ChildApart ==
    ASSUME NEW p \in Path, NEW i \in Steps, NEW j \in Steps, i # j
    PROVE  /\ Tree!Apart(Down(p, i), Down(p, j))
           /\ ~Tree!Inside(p, Down(p, i)) /\ Tree!Inside(Down(p, i), p)
<1>1. Down(p, i) # Down(p, j)
  BY PathDown
<1>2. /\ Down(p, i) \in Path /\ Down(p, j) \in Path
      /\ Len(Down(p, i)) = Len(p) + 1 /\ Len(Down(p, j)) = Len(p) + 1
      /\ Tree!Inside(Down(p, i), p)
  BY PathDown
<1>3. ~Tree!Inside(p, Down(p, i)) /\ ~Tree!Inside(p, Down(p, j))
  BY <1>2, PathInside DEF Path
<1>4. ~Tree!Inside(Down(p, i), Down(p, j)) /\ ~Tree!Inside(Down(p, j), Down(p, i))
  BY <1>1, <1>2, <1>3, PathInside
<1> QED BY <1>2, <1>3, <1>4 DEF Tree!Apart

LEMMA ChildPath ==
    ASSUME NEW m, NEW f, Placed(m, f), NEW p \in DOMAIN f, NEW i \in 1..Kids(f[p])
    PROVE  /\ Down(p, i) \in DOMAIN f /\ i \in Steps /\ i \in Nat
           /\ f[Down(p, i)] = m[f[p].block][i] /\ Addr(f, Down(p, i)) = <<f[p].block, i>>
           /\ f[p].block # 0 /\ f[p].block \in DOMAIN m /\ p \in Path /\ p # <<>>
<1>1. p \in Path /\ p # <<>> /\ Sound(m, f[p]) /\ f[p] \in CellSet
  BY PlacedPaths
<1>2. i \in Steps /\ i \in Nat /\ f[p].block # 0 /\ f[p].block \in DOMAIN m
  BY <1>1, KidsBlock, KidsNat
<1>3. Down(p, i) \in DOMAIN f
  BY <1>1, <1>2 DEF Placed, ForestShape
<1>4. f[Down(p, i)] = m[f[p].block][i]
  BY DEF Placed, Body
<1>5. Addr(f, Down(p, i)) = <<f[p].block, i>>
  BY <1>1, <1>2, PathDown DEF Addr
<1> QED BY <1>1, <1>2, <1>3, <1>4, <1>5

LEMMA InsideChild ==
    ASSUME NEW m, NEW f, Placed(m, f), NEW p \in DOMAIN f,
           NEW y \in DOMAIN f, Tree!Inside(y, p), y # p
    PROVE  \E i \in 1..Kids(f[p]) : Tree!Inside(y, Down(p, i))
<1>1. p \in Path /\ p # <<>> /\ y \in Path
  BY PlacedPaths
<1>2. Tree!Rest(y, p) \in Path /\ Below(p, Tree!Rest(y, p)) = y /\ Tree!Rest(y, p) # <<>>
  BY <1>1, PathRest, PathEmpty
<1>3. PICK i \in Steps, r \in Path : Tree!Rest(y, p) = Below(<<i>>, r)
  BY <1>2, PathHead
<1>4. y = Below(Down(p, i), r) /\ Down(p, i) \in Path
  BY <1>1, <1>2, <1>3, PathBelowBelow, PathDown
<1>5. Tree!Inside(y, Down(p, i))
  BY <1>4, PathBelow
<1>6. Down(p, i) \in DOMAIN f
  <2> DEFINE x == Down(p, i)
             k == Len(x)
  <2>1. x \in Path /\ k \in Nat \ {0} /\ k <= Len(y) /\ \A j \in 1..k : y[j] = x[j]
    <3>1. x \in Path /\ x # <<>> /\ Tree!Inside(y, x)
      BY <1>1, <1>4, <1>5, PathDown
    <3> HIDE DEF x
    <3> QED BY <1>1, <3>1 DEF Tree!Inside, Path
  <2>2. SubSeq(y, 1, k) = x
    <3> HIDE DEF x
    <3>1. x \in Seq(Steps) /\ y \in Seq(Steps) /\ k \in Nat
      BY <1>1, <2>1 DEF Path
    <3> QED BY <2>1, <3>1
  <2>3. k \in 1..Len(y)
    BY <1>1, <2>1 DEF Path
  <2> QED BY <2>2, <2>3, Prefixes
<1>7. i \in 1..Kids(f[p])
  BY <1>1, <1>6 DEF Placed, ForestShape
<1> QED BY <1>5, <1>7

LEMMA ChildBlocks ==
    ASSUME NEW m, NEW f, Placed(m, f), NEW p \in DOMAIN f
    PROVE  /\ Used(Tree!Get(f, p)) = ({f[p].block} \ {0}) \cup
                 UNION {Used(Tree!Get(f, Down(p, i))) : i \in 1..Kids(f[p])}
           /\ \A i \in 1..Kids(f[p]) : f[p].block \notin Used(Tree!Get(f, Down(p, i)))
           /\ \A i, j \in 1..Kids(f[p]) : i # j =>
                 Used(Tree!Get(f, Down(p, i))) \cap Used(Tree!Get(f, Down(p, j))) = {}
<1> DEFINE K == 1..Kids(f[p])
           U(i) == Used(Tree!Get(f, Down(p, i)))
<1>1. p \in Path /\ DOMAIN f \subseteq Path
  BY PlacedPaths
<1>2. \A i \in K : Down(p, i) \in DOMAIN f /\ i \in Steps
  BY ChildPath
<1>3. \A x, y \in DOMAIN f : f[x].block = f[y].block /\ f[x].block # 0 => x = y
  BY DEF Placed, Body
<1>4. Used(Tree!Get(f, p)) = {f[y].block : y \in {y \in DOMAIN f : Tree!Inside(y, p)}} \ {0}
  BY <1>1, UsedInside
<1>5. \A i \in K : U(i) = {f[y].block : y \in {y \in DOMAIN f : Tree!Inside(y, Down(p, i))}} \ {0}
  BY <1>1, <1>2, UsedInside
<1>6. \A i \in K : ~Tree!Inside(p, Down(p, i)) /\ Tree!Inside(Down(p, i), p)
  BY <1>1, <1>2, PathDown, PathInside DEF Path
<1>7. \A i, j \in K : i # j => Tree!Apart(Down(p, i), Down(p, j))
  BY <1>1, <1>2, ChildApart
<1>8. \A y \in DOMAIN f : Tree!Inside(y, p) /\ y # p => \E i \in K : Tree!Inside(y, Down(p, i))
  BY InsideChild
<1>9. \A i \in K : \A y \in DOMAIN f : Tree!Inside(y, Down(p, i)) => Tree!Inside(y, p)
  BY <1>1, <1>2, <1>6, PathOrder
<1> HIDE DEF K, U
<1>10. Used(Tree!Get(f, p)) = ({f[p].block} \ {0}) \cup UNION {U(i) : i \in K}
  <2>1. ASSUME NEW b \in Used(Tree!Get(f, p)), b # f[p].block PROVE \E i \in K : b \in U(i)
    <3>1. PICK y \in DOMAIN f : Tree!Inside(y, p) /\ b = f[y].block /\ b # 0
      BY <1>4
    <3>2. PICK i \in K : Tree!Inside(y, Down(p, i))
      BY <1>8, <2>1, <3>1
    <3> QED BY <1>5, <3>1, <3>2
  <2>2. \A i \in K : U(i) \subseteq Used(Tree!Get(f, p))
    BY <1>4, <1>5, <1>9
  <2>3. {f[p].block} \ {0} \subseteq Used(Tree!Get(f, p))
    BY <1>1, <1>4, PathSelf
  <2>4. \A b \in Used(Tree!Get(f, p)) : b # 0
    BY DEF Used
  <2> QED BY <2>1, <2>2, <2>3, <2>4
<1>11. ASSUME NEW i \in K, f[p].block \in U(i) PROVE FALSE
  <2>1. PICK y \in DOMAIN f : Tree!Inside(y, Down(p, i)) /\ f[p].block = f[y].block /\ f[y].block # 0
    BY <1>5, <1>11
  <2> QED BY <1>3, <1>6, <2>1
<1>12. ASSUME NEW i \in K, NEW j \in K, i # j, NEW b \in U(i), b \in U(j) PROVE FALSE
  <2>1. PICK x \in DOMAIN f : Tree!Inside(x, Down(p, i)) /\ b = f[x].block /\ b # 0
    BY <1>5
  <2>2. PICK y \in DOMAIN f : Tree!Inside(y, Down(p, j)) /\ b = f[y].block
    BY <1>5, <1>12
  <2>3. x = y
    BY <1>3, <2>1, <2>2
  <2>4. Tree!Inside(Down(p, i), Down(p, j)) \/ Tree!Inside(Down(p, j), Down(p, i))
    BY <1>1, <1>2, <2>1, <2>2, <2>3, PathOrder
  <2> QED BY <1>7, <1>12, <2>4 DEF Tree!Apart
<1> QED BY <1>10, <1>11, <1>12 DEF K, U

-------------------------------------------------------------------------------
\* The trees ts stand in m, one below each cell of c's block, and share no block.
Joins(m, c, ts) ==
    /\ Sound(m, c) /\ DOMAIN ts = 1..Kids(c)
    /\ \A i \in DOMAIN ts : /\ Stands(m, ts[i]) /\ ts[i][<<>>] = m[c.block][i]
                            /\ c.block \notin Used(ts[i])
    /\ \A i, j \in DOMAIN ts : i # j => Used(ts[i]) \cap Used(ts[j]) = {}

UsedBy(ts) == UNION {Used(ts[i]) : i \in DOMAIN ts}
SeeAll(m, ts) == [i \in DOMAIN ts |-> See(m, ts[i])]

LEMMA JoinForm ==
    ASSUME NEW m, NEW c, NEW ts, Joins(m, c, ts)
    PROVE  /\ IsOver(Tree!Over(c, ts), c, ts) /\ Trees(ts) /\ TreeShape(Tree!Over(c, ts))
           /\ c \in CellSet /\ \A i \in DOMAIN ts : i \in Steps
<1>1. c \in CellSet /\ DOMAIN ts = 1..Kids(c) /\ \A i \in DOMAIN ts : TreeShape(ts[i])
  BY DEF Joins, Sound, Stands
<1>2. TreeShape(Tree!Over(c, ts)) /\ Trees(ts)
  BY <1>1, OverTree
<1>3. \A i \in DOMAIN ts : i \in Steps
  BY <1>2 DEF Trees, Steps
<1> QED BY <1>1, <1>2, <1>3, OverForm

LEMMA JoinUsed ==
    ASSUME NEW m, NEW c, NEW ts, Joins(m, c, ts)
    PROVE  Used(Tree!Over(c, ts)) = ({c.block} \ {0}) \cup UsedBy(ts)
<1> DEFINE t == Tree!Over(c, ts)
<1>1. IsOver(t, c, ts) /\ Trees(ts) /\ \A i \in DOMAIN ts : i \in Steps
  BY JoinForm
<1> HIDE DEF t
<1>2. ASSUME NEW b \in Used(t) PROVE b \in ({c.block} \ {0}) \cup UsedBy(ts)
  <2>1. PICK x \in DOMAIN t : b = t[x].block /\ b # 0
    BY DEF Used
  <2>2. CASE x = <<>>
    BY <1>1, <2>1, <2>2 DEF IsOver
  <2>3. CASE x # <<>>
    <3>1. PICK i \in Steps, r \in Path : i \in DOMAIN ts /\ r \in DOMAIN ts[i] /\ x = Below(<<i>>, r)
      BY <1>1, <2>3 DEF IsOver
    <3>2. t[x] = ts[i][r]
      BY <1>1, <3>1 DEF IsOver
    <3>3. b \in Used(ts[i])
      BY <2>1, <3>1, <3>2 DEF Used
    <3> QED BY <3>1, <3>3 DEF UsedBy
  <2> QED BY <2>2, <2>3
<1>3. ASSUME NEW i \in DOMAIN ts, NEW b \in Used(ts[i]) PROVE b \in Used(t)
  <2>1. PICK r \in DOMAIN ts[i] : b = ts[i][r].block /\ b # 0
    BY DEF Used
  <2>2. i \in Steps /\ r \in Path
    BY <1>1 DEF Trees
  <2>3. Below(<<i>>, r) \in DOMAIN t /\ t[Below(<<i>>, r)] = ts[i][r]
    BY <1>1, <2>2 DEF IsOver
  <2> QED BY <2>1, <2>3 DEF Used
<1>4. {c.block} \ {0} \subseteq Used(t)
  BY <1>1 DEF IsOver, Used
<1> QED BY <1>2, <1>3, <1>4 DEF UsedBy, t

LEMMA JoinSee ==
    ASSUME NEW m, NEW c, NEW ts, Joins(m, c, ts)
    PROVE  See(m, Tree!Over(c, ts)) = Tree!Over(Shows(m, c), SeeAll(m, ts))
<1> DEFINE t == Tree!Over(c, ts)
           us == SeeAll(m, ts)
           u == Tree!Over(Shows(m, c), us)
           s == See(m, t)
<1>1. IsOver(t, c, ts) /\ Trees(ts) /\ \A i \in DOMAIN ts : i \in Steps
  BY JoinForm
<1>2. /\ DOMAIN us = DOMAIN ts
      /\ \A i \in DOMAIN ts : /\ DOMAIN us[i] = DOMAIN ts[i]
                              /\ \A r \in DOMAIN ts[i] : us[i][r] = Shows(m, ts[i][r])
  BY DEF SeeAll, See
<1>3. /\ Map(s) /\ DOMAIN s = DOMAIN t
      /\ \A x \in DOMAIN t : s[x] = Shows(m, t[x])
  BY SeeForm
<1> HIDE DEF us, s, t
<1>4. Trees(us)
  BY <1>1, <1>2 DEF Trees
<1>5. Map(u) /\ IsOver(u, Shows(m, c), us)
  BY <1>4, OverForm
<1> HIDE DEF u
<1>6. ASSUME NEW x \in Path
      PROVE  /\ x \in DOMAIN s <=> x \in DOMAIN u
             /\ x \in DOMAIN s => s[x] = u[x]
  <2>1. CASE x = <<>>
    BY <1>1, <1>3, <1>5, <2>1 DEF IsOver
  <2>2. CASE x # <<>>
    <3>1. PICK i \in Steps, r \in Path : x = Below(<<i>>, r)
      BY <2>2, PathHead
    <3>2. /\ x \in DOMAIN t <=> i \in DOMAIN ts /\ r \in DOMAIN ts[i]
          /\ x \in DOMAIN t => t[x] = ts[i][r]
      BY <1>1, <3>1 DEF IsOver
    <3>3. /\ x \in DOMAIN u <=> i \in DOMAIN us /\ r \in DOMAIN us[i]
          /\ x \in DOMAIN u => u[x] = us[i][r]
      BY <1>5, <3>1 DEF IsOver
    <3> QED BY <1>2, <1>3, <3>2, <3>3
  <2> QED BY <2>1, <2>2
<1>7. DOMAIN s \subseteq Path /\ DOMAIN u \subseteq Path
  BY <1>1, <1>3, <1>5 DEF IsOver
<1> QED BY <1>3, <1>5, <1>6, <1>7, PathMapEqual DEF s, t, u, us

LEMMA JoinStands ==
    ASSUME NEW m, NEW c, NEW ts, Joins(m, c, ts)
    PROVE  Stands(m, Tree!Over(c, ts)) /\ Tree!Over(c, ts)[<<>>] = c
<1> DEFINE t == Tree!Over(c, ts)
<1>1. /\ IsOver(t, c, ts) /\ Trees(ts) /\ TreeShape(t) /\ \A i \in DOMAIN ts : i \in Steps
      /\ c \in CellSet
  BY JoinForm
<1> HIDE DEF t
<1>2. /\ <<>> \in DOMAIN t /\ t[<<>>] = c /\ DOMAIN t \subseteq Path
  BY <1>1 DEF IsOver
<1>3. ASSUME NEW x \in DOMAIN t, x # <<>>
      PROVE  \E i \in Steps, r \in Path : /\ i \in DOMAIN ts /\ r \in DOMAIN ts[i]
                                          /\ x = Below(<<i>>, r) /\ t[x] = ts[i][r]
  <2>1. PICK i \in Steps, r \in Path : i \in DOMAIN ts /\ r \in DOMAIN ts[i] /\ x = Below(<<i>>, r)
    BY <1>1, <1>3 DEF IsOver
  <2>2. t[x] = ts[i][r]
    BY <1>1, <2>1 DEF IsOver
  <2> QED BY <2>1, <2>2
<1>4. ASSUME NEW x \in DOMAIN t PROVE Sound(m, t[x])
  <2>1. CASE x = <<>>
    BY <1>2, <2>1 DEF Joins
  <2>2. CASE x # <<>>
    <3>1. PICK i \in Steps, r \in Path : /\ i \in DOMAIN ts /\ r \in DOMAIN ts[i]
                                         /\ x = Below(<<i>>, r) /\ t[x] = ts[i][r]
      BY <1>3, <2>2
    <3>2. Stands(m, ts[i])
      BY <3>1 DEF Joins
    <3>3. Sound(m, ts[i][r])
      BY <3>1, <3>2, StandsPaths
    <3> QED BY <3>1, <3>3
  <2> QED BY <2>1, <2>2
<1>5. ASSUME NEW x \in DOMAIN t, NEW i \in 1..Kids(t[x]) PROVE t[Down(x, i)] = m[t[x].block][i]
  <2>0. i \in Steps
    BY <1>4, KidsBlock
  <2>1. CASE x = <<>>
    <3>1. i \in DOMAIN ts /\ <<>> \in DOMAIN ts[i] /\ ts[i][<<>>] = m[c.block][i]
      BY <1>2, <2>1, StandsPaths DEF Joins
    <3>2. <<>> \in Path /\ <<i>> \in Path /\ Down(<<>>, i) = <<i>>
      <4>1. <<>> \in Path
        BY DEF Path
      <4> QED BY <2>0, <4>1, PathOne
    <3>3. Below(<<i>>, <<>>) = Down(x, i)
      BY <2>1, <3>2, PathEmpty
    <3>4. t[Below(<<i>>, <<>>)] = ts[i][<<>>]
      BY <1>1, <2>0, <3>1, <3>2 DEF IsOver
    <3> QED BY <1>2, <2>1, <3>1, <3>3, <3>4
  <2>2. CASE x # <<>>
    <3>1. PICK j \in Steps, r \in Path : /\ j \in DOMAIN ts /\ r \in DOMAIN ts[j]
                                         /\ x = Below(<<j>>, r) /\ t[x] = ts[j][r]
      BY <1>3, <2>2
    <3>2. Down(x, i) = Below(<<j>>, Down(r, i)) /\ Down(r, i) \in Path
      <4>1. <<j>> \in Path
        BY <3>1, PathOne
      <4>2. Below(<<j>>, Down(r, i)) = Down(Below(<<j>>, r), i)
        BY <2>0, <4>1, PathBelowDown
      <4> QED BY <2>0, <3>1, <4>2, PathDown
    <3>3. Stands(m, ts[j])
      BY <3>1 DEF Joins
    <3>4. Down(r, i) \in DOMAIN ts[j] /\ ts[j][Down(r, i)] = m[ts[j][r].block][i]
      BY <2>0, <3>1, <3>3 DEF Stands, TreeShape, Body
    <3>5. t[Below(<<j>>, Down(r, i))] = ts[j][Down(r, i)]
      BY <1>1, <3>1, <3>2, <3>4 DEF IsOver
    <3> QED BY <3>1, <3>2, <3>4, <3>5
  <2> QED BY <2>1, <2>2
<1>6. \A x \in DOMAIN t : x # <<>> /\ t[x].block # 0 => t[x].block # c.block
  <2>1. ASSUME NEW x \in DOMAIN t, x # <<>>, t[x].block # 0 PROVE t[x].block # c.block
    <3>1. PICK i \in Steps, r \in Path : /\ i \in DOMAIN ts /\ r \in DOMAIN ts[i]
                                         /\ x = Below(<<i>>, r) /\ t[x] = ts[i][r]
      BY <1>3, <2>1
    <3>2. t[x].block \in Used(ts[i])
      BY <2>1, <3>1 DEF Used
    <3> QED BY <3>1, <3>2 DEF Joins
  <2> QED BY <2>1
<1>7. ASSUME NEW x \in DOMAIN t, NEW y \in DOMAIN t, t[x].block = t[y].block, t[x].block # 0
      PROVE  x = y
  <2>1. CASE x = <<>> \/ y = <<>>
    BY <1>2, <1>6, <1>7, <2>1
  <2>2. CASE x # <<>> /\ y # <<>>
    <3>1. PICK i \in Steps, r \in Path : /\ i \in DOMAIN ts /\ r \in DOMAIN ts[i]
                                         /\ x = Below(<<i>>, r) /\ t[x] = ts[i][r]
      BY <1>3, <2>2
    <3>2. PICK j \in Steps, s \in Path : /\ j \in DOMAIN ts /\ s \in DOMAIN ts[j]
                                         /\ y = Below(<<j>>, s) /\ t[y] = ts[j][s]
      BY <1>3, <2>2
    <3>3. t[x].block \in Used(ts[i]) /\ t[x].block \in Used(ts[j])
      BY <1>7, <3>1, <3>2 DEF Used
    <3>4. i = j
      BY <3>1, <3>2, <3>3 DEF Joins
    <3>5. r = s
      BY <1>7, <3>1, <3>2, <3>4 DEF Joins, Stands, Body
    <3> QED BY <3>1, <3>2, <3>4, <3>5
  <2> QED BY <2>1, <2>2
<1>8. Body(m, t)
  BY <1>4, <1>5, <1>7 DEF Body
<1> QED BY <1>1, <1>2, <1>8 DEF Stands, t

-------------------------------------------------------------------------------
LEMMA LenOf ==
    ASSUME NEW n \in Nat, NEW s, Map(s), DOMAIN s = 1..n
    PROVE  Len(s) = n
<1> DEFINE R == {s[i] : i \in 1..n}
<1>1. s \in [1..n -> R]
  BY DEF Map
<1>2. s \in Seq(R)
  BY <1>1, SeqDef
<1> HIDE DEF R
<1> QED BY <1>2, LenProperties

\* A value gets a new cell with the trees ts below it.
LEMMA Refilled ==
    ASSUME NEW m, NEW f, Placed(m, f), NEW p \in DOMAIN f,
           NEW m0, NEW c, NEW ts, Joins(m0, c, ts), Around(m, m0, f, p),
           c.block \notin Outer(f, p), UsedBy(ts) \cap Outer(f, p) = {}
    PROVE  LET m1 == Write(m0, Addr(f, p), c)
               g  == Tree!Put(f, p, Tree!Over(c, ts))
           IN  /\ Placed(m1, g)
               /\ See(m1, g) = Tree!Put(See(m, f), p, Tree!Over(Shows(m0, c), SeeAll(m0, ts)))
               /\ DOMAIN m1 = DOMAIN m0
               /\ Used(g) = Outer(f, p) \cup ({c.block} \ {0}) \cup UsedBy(ts)
<1> DEFINE t  == Tree!Over(c, ts)
           m1 == Write(m0, Addr(f, p), c)
           g  == Tree!Put(f, p, t)
<1>1. /\ Stands(m0, t) /\ t[<<>>] = c
      /\ See(m0, t) = Tree!Over(Shows(m0, c), SeeAll(m0, ts))
      /\ Used(t) = ({c.block} \ {0}) \cup UsedBy(ts)
  BY JoinStands, JoinSee, JoinUsed
<1> HIDE DEF t
<1>2. Used(t) \cap Outer(f, p) = {}
  BY <1>1
<1>3. /\ Placed(Write(m0, Addr(f, p), t[<<>>]), g)
      /\ See(Write(m0, Addr(f, p), t[<<>>]), g) = Tree!Put(See(m, f), p, See(m0, t))
      /\ DOMAIN Write(m0, Addr(f, p), t[<<>>]) = DOMAIN m0
      /\ Used(g) = Outer(f, p) \cup Used(t)
  BY <1>1, <1>2, Replace
<1> HIDE DEF g
<1>4. /\ Placed(m1, g) /\ See(m1, g) = Tree!Put(See(m, f), p, See(m0, t))
      /\ DOMAIN m1 = DOMAIN m0 /\ Used(g) = Outer(f, p) \cup Used(t)
  BY <1>1, <1>3
<1>5. Used(g) = Outer(f, p) \cup ({c.block} \ {0}) \cup UsedBy(ts)
  BY <1>1, <1>4
<1> QED BY <1>1, <1>4, <1>5 DEF g, t

\* Arrays and objects with a block.
Filled(c) == c.k \in {"Array", "Object"} /\ c.block # 0
Sized(c, n) == [c EXCEPT !.size = n]

\* D has what is outside of p and p's block as m has it.
Kept(m, f, p, D) ==
    /\ DOMAIN D \subseteq DOMAIN m
    /\ \A b \in DOMAIN D : D[b] = m[b]
    /\ Outer(f, p) \cup {0, f[p].block} \subseteq DOMAIN D

\* The children of p at the indexes in from are still there in D.
Picks(f, p, D, n, from) ==
    /\ n \in Nat /\ DOMAIN from = 1..InUse(Sized(f[p], n))
    /\ \A k \in DOMAIN from : /\ from[k] \in 1..Kids(f[p])
                              /\ Used(Tree!Get(f, Down(p, from[k]))) \subseteq DOMAIN D
    /\ \A k, l \in DOMAIN from : from[k] = from[l] => k = l

Picked(d, p, from) == [k \in DOMAIN from |-> Tree!Get(d, Down(p, from[k]))]

LEMMA SizedForm ==
    ASSUME NEW m, NEW c, Sound(m, c), Filled(c), NEW n \in Nat
    PROVE  /\ Sized(c, n) \in CellSet /\ Sized(c, n).block = c.block /\ Sized(c, n).k = c.k
           /\ Sized(c, n).size = n /\ Filled(Sized(c, n))
           /\ Kids(Sized(c, n)) = InUse(Sized(c, n)) /\ InUse(Sized(c, n)) \in Nat
           /\ Kids(c) = InUse(c)
           /\ \A m1 : /\ Shows(m1, c) = Tree!Node(c.k, <<>>, InUse(c))
                      /\ Shows(m1, Sized(c, n)) = Tree!Node(c.k, <<>>, InUse(Sized(c, n)))
<1>1. c \in CellSet
  BY DEF Sound
<1>2. /\ Sized(c, n) \in CellSet /\ Sized(c, n).block = c.block /\ Sized(c, n).k = c.k
      /\ Sized(c, n).size = n
  BY <1>1 DEF Sized, CellSet
<1>3. Filled(Sized(c, n))
  BY <1>2 DEF Filled
<1>4. Kids(c) = InUse(c) /\ Kids(Sized(c, n)) = InUse(Sized(c, n))
  BY <1>3 DEF Filled, Kids
<1>5. InUse(Sized(c, n)) \in Nat
  BY <1>2, KidsNat
<1>6. \A m1 : /\ Shows(m1, c) = Tree!Node(c.k, <<>>, InUse(c))
              /\ Shows(m1, Sized(c, n)) = Tree!Node(c.k, <<>>, InUse(Sized(c, n)))
  BY <1>2, <1>3 DEF Shows, Filled
<1> QED BY <1>2, <1>3, <1>4, <1>5, <1>6

LEMMA Chosen ==
    ASSUME NEW m, NEW f, Placed(m, f), NEW p \in DOMAIN f, Filled(f[p]),
           NEW D, Kept(m, f, p, D), NEW n, NEW from, Map(from), Picks(f, p, D, n, from)
    PROVE  LET m1 == Moved(D, Addr(f, p), n, from)
               ts == Picked(f, p, from)
               g  == Tree!Put(f, p, Tree!Over(Sized(f[p], n), ts))
           IN  /\ Holds(m1, g, Tree!WithChildren(See(m, f), p, Picked(See(m, f), p, from)))
               /\ DOMAIN m1 = DOMAIN D
               /\ Used(g) = Outer(f, p) \cup {f[p].block} \cup UsedBy(ts)
<1> DEFINE b  == f[p].block
           a  == Addr(f, p)
           c  == Sized(f[p], n)
           ts == Picked(f, p, from)
           cells == [k \in DOMAIN from |-> D[b][from[k]]]
           m0 == [D EXCEPT ![b] = cells]
           m1 == Write(m0, a, c)
           g  == Tree!Put(f, p, Tree!Over(c, ts))
           U(i) == Used(Tree!Get(f, Down(p, i)))
<1>1. p \in Path /\ DOMAIN f \subseteq Path /\ Sound(m, f[p])
  BY PlacedPaths
<1>2. /\ c \in CellSet /\ c.block = b /\ c.k = f[p].k /\ c.size = n /\ Filled(c)
      /\ Kids(c) = InUse(c) /\ InUse(c) \in Nat /\ Kids(f[p]) = InUse(f[p])
      /\ Shows(m0, c) = Tree!Node(f[p].k, <<>>, InUse(c))
      /\ Shows(m, f[p]) = Tree!Node(f[p].k, <<>>, InUse(f[p]))
  BY <1>1, SizedForm DEF Picks
<1>3. /\ \A i \in 1..Kids(f[p]) : b \notin U(i)
      /\ \A i, j \in 1..Kids(f[p]) : i # j => U(i) \cap U(j) = {}
      /\ Used(Tree!Get(f, p)) = ({b} \ {0}) \cup UNION {U(i) : i \in 1..Kids(f[p])}
      /\ Outer(f, p) \cap Used(Tree!Get(f, p)) = {}
  BY ChildBlocks, UsedSplit
<1>4. b # 0 /\ b \notin Outer(f, p) /\ \A i \in 1..Kids(f[p]) : U(i) \cap Outer(f, p) = {}
  BY <1>3 DEF Filled
<1>5. DOMAIN from = 1..InUse(c) /\ \A k \in DOMAIN from : from[k] \in 1..Kids(f[p])
  BY DEF Picks
<1>6. /\ DOMAIN m0 = DOMAIN D /\ m0[b] = cells /\ DOMAIN cells = DOMAIN from
      /\ \A k \in DOMAIN from : m0[b][k] = D[b][from[k]]
  BY DEF Kept
<1>7. \A d \in DOMAIN D : d # b => m0[d] = m[d]
  BY DEF Kept
<1>8. /\ DOMAIN ts = DOMAIN from
      /\ \A k \in DOMAIN from : ts[k] = Tree!Get(f, Down(p, from[k]))
  BY DEF Picked
<1> HIDE DEF m0, c, b, ts, U
<1>9. ASSUME NEW k \in DOMAIN from
      PROVE  /\ Stands(m0, ts[k]) /\ ts[k][<<>>] = m0[b][k] /\ Used(ts[k]) = U(from[k])
             /\ See(m0, ts[k]) = Tree!Get(See(m, f), Down(p, from[k]))
  <2> DEFINE i == from[k]
  <2>1. Down(p, i) \in DOMAIN f /\ f[Down(p, i)] = m[b][i] /\ b \in DOMAIN D /\ D[b] = m[b]
    BY <1>5, ChildPath DEF Kept, b
  <2> HIDE DEF i
  <2>2. /\ Stands(m, Tree!Get(f, Down(p, i))) /\ Tree!Get(f, Down(p, i))[<<>>] = f[Down(p, i)]
        /\ See(m, Tree!Get(f, Down(p, i))) = Tree!Get(See(m, f), Down(p, i))
    BY <2>1, Cut
  <2>3. U(i) \subseteq DOMAIN D
    BY DEF Picks, U, i
  <2>4. \A d \in U(i) : d \in DOMAIN m0 /\ m0[d] = m[d]
    BY <1>3, <1>5, <1>6, <1>7, <2>3 DEF i
  <2>5. Stands(m0, Tree!Get(f, Down(p, i))) /\ See(m0, Tree!Get(f, Down(p, i))) = See(m, Tree!Get(f, Down(p, i)))
    BY <2>2, <2>4, Frame DEF U
  <2>6. ts[k] = Tree!Get(f, Down(p, i))
    BY <1>8 DEF i
  <2>7. ts[k][<<>>] = m0[b][k]
    BY <1>6, <2>1, <2>2, <2>6 DEF i
  <2> QED BY <2>2, <2>5, <2>6, <2>7 DEF U, i
<1>10. Joins(m0, c, ts)
  <2>1. Sound(m0, c)
    <3>1. b \in DOMAIN m0 /\ DOMAIN m0[b] = 1..InUse(c)
      BY <1>5, <1>6 DEF Kept, b
    <3> QED BY <1>2, <1>4, <3>1 DEF Sound, Filled
  <2>2. \A k \in DOMAIN ts : b \notin Used(ts[k])
    BY <1>3, <1>5, <1>8, <1>9
  <2>3. ASSUME NEW k \in DOMAIN ts, NEW l \in DOMAIN ts, k # l
        PROVE  Used(ts[k]) \cap Used(ts[l]) = {}
    <3>1. from[k] # from[l]
      BY <1>8, <2>3 DEF Picks
    <3> QED BY <1>3, <1>5, <1>8, <1>9, <3>1
  <2>4. DOMAIN ts = 1..Kids(c)
    BY <1>2, <1>5, <1>8
  <2> QED BY <1>2, <1>8, <1>9, <2>1, <2>2, <2>3, <2>4 DEF Joins
<1>11. Around(m, m0, f, p)
  <2>1. ASSUME NEW d \in Outer(f, p) \cup {0} PROVE Same(m, m0, d, a)
    <3>1. d \in DOMAIN m0 /\ d \in DOMAIN m /\ m0[d] = m[d]
      BY <1>4, <1>6, <1>7 DEF Kept
    <3> QED BY <3>1 DEF Same
  <2> QED BY <2>1 DEF Around
<1>12. c.block \notin Outer(f, p) /\ UsedBy(ts) \cap Outer(f, p) = {}
  <2>1. \A k \in DOMAIN ts : Used(ts[k]) \cap Outer(f, p) = {}
    BY <1>4, <1>5, <1>8, <1>9
  <2> QED BY <1>2, <1>4, <2>1 DEF UsedBy
<1>13. /\ Placed(m1, g)
       /\ See(m1, g) = Tree!Put(See(m, f), p, Tree!Over(Shows(m0, c), SeeAll(m0, ts)))
       /\ DOMAIN m1 = DOMAIN m0
       /\ Used(g) = Outer(f, p) \cup ({c.block} \ {0}) \cup UsedBy(ts)
  BY <1>10, <1>11, <1>12, Refilled
<1>14. Tree!Put(See(m, f), p, Tree!Over(Shows(m0, c), SeeAll(m0, ts))) =
           Tree!WithChildren(See(m, f), p, Picked(See(m, f), p, from))
  <2> DEFINE us == Picked(See(m, f), p, from)
  <2>1. SeeAll(m0, ts) = us
    BY <1>8, <1>9 DEF SeeAll, Picked
  <2>2. Map(us) /\ DOMAIN us = DOMAIN from
    BY DEF Map, Picked
  <2> HIDE DEF us
  <2>3. Len(us) = InUse(c)
    BY <1>2, <1>5, <2>2, LenOf
  <2>4. See(m, f)[p] = Tree!Node(f[p].k, <<>>, InUse(f[p]))
    BY <1>2, SeeForm
  <2>5. [See(m, f)[p] EXCEPT !.n = Len(us)] = Shows(m0, c)
    BY <1>2, <2>3, <2>4 DEF Tree!Node
  <2> QED BY <2>1, <2>5 DEF Tree!WithChildren, us
<1>15. m1 = Moved(D, a, n, from)
  <2>1. a[1] \in Outer(f, p) \cup {0} /\ m[a[1]][a[2]] = f[p]
    BY Place
  <2>2. At(D, a) = f[p]
    BY <2>1 DEF At, Kept
  <2> HIDE DEF a
  <2> QED BY <2>2 DEF Moved, m0, c, b, Sized
<1>16. Used(g) = Outer(f, p) \cup {f[p].block} \cup UsedBy(ts)
  BY <1>2, <1>4, <1>13 DEF b
<1> HIDE DEF m1, g
<1>17. Holds(m1, g, Tree!WithChildren(See(m, f), p, Picked(See(m, f), p, from)))
  BY <1>13, <1>14 DEF Holds
<1> QED BY <1>6, <1>13, <1>15, <1>16, <1>17 DEF g, ts, c

-------------------------------------------------------------------------------
\* D is what destroying the children of p at the indexes in K leaves.
Without(m, f, p, K, D) ==
    LET gone == UNION {Used(Tree!Get(f, Down(p, i))) : i \in K}
    IN  /\ DOMAIN D \subseteq DOMAIN m
        /\ DOMAIN m \ gone \subseteq DOMAIN D
        /\ ~pool => DOMAIN D = DOMAIN m \ gone
        /\ \A b \in DOMAIN D : D[b] = m[b]
        /\ pool => D = m

LEMMA WithoutKept ==
    ASSUME NEW m, NEW f, Placed(m, f), NEW p \in DOMAIN f, Filled(f[p]),
           NEW K \in SUBSET (1..Kids(f[p])), NEW D, Without(m, f, p, K, D)
    PROVE  /\ Kept(m, f, p, D)
           /\ \A i \in 1..Kids(f[p]) : i \notin K =>
                 Used(Tree!Get(f, Down(p, i))) \subseteq DOMAIN D
<1> DEFINE b == f[p].block
           U(i) == Used(Tree!Get(f, Down(p, i)))
           gone == UNION {U(i) : i \in K}
<1>1. /\ \A i \in 1..Kids(f[p]) : b \notin U(i)
      /\ \A i, j \in 1..Kids(f[p]) : i # j => U(i) \cap U(j) = {}
      /\ Used(Tree!Get(f, p)) = ({b} \ {0}) \cup UNION {U(i) : i \in 1..Kids(f[p])}
      /\ Outer(f, p) \cap Used(Tree!Get(f, p)) = {}
      /\ Used(f) = Outer(f, p) \cup Used(Tree!Get(f, p))
  BY ChildBlocks, UsedSplit
<1>2. Used(f) \cup {0} \subseteq DOMAIN m
  BY ReachedForest DEF Reached
<1>3. b # 0 /\ \A i \in K : 0 \notin U(i)
  BY DEF Filled, Used
<1>4. /\ DOMAIN D \subseteq DOMAIN m /\ DOMAIN m \ gone \subseteq DOMAIN D
      /\ \A d \in DOMAIN D : D[d] = m[d]
  BY DEF Without
<1> HIDE DEF b, U
<1>5. Outer(f, p) \cup {0, b} \subseteq DOMAIN m \ gone
  BY <1>1, <1>2, <1>3
<1>6. ASSUME NEW i \in 1..Kids(f[p]), i \notin K PROVE U(i) \subseteq DOMAIN m \ gone
  BY <1>1, <1>2, <1>6
<1> QED BY <1>4, <1>5, <1>6 DEF Kept, b, U

\* What is left of p when its other children were destroyed.
LEMMA KeptChildren ==
    ASSUME NEW m, NEW f, Placed(m, f), ~pool => DOMAIN m \subseteq {0} \cup Used(f),
           NEW p \in DOMAIN f, Filled(f[p]),
           NEW K \in SUBSET (1..Kids(f[p])), NEW D, Without(m, f, p, K, D),
           NEW n \in Nat, NEW from, Map(from), DOMAIN from = 1..InUse(Sized(f[p], n)),
           \A k, l \in DOMAIN from : from[k] = from[l] => k = l,
           {from[k] : k \in DOMAIN from} = (1..Kids(f[p])) \ K
    PROVE  LET m1 == Moved(D, Addr(f, p), n, from)
               g  == Tree!Put(f, p, Tree!Over(Sized(f[p], n), Picked(f, p, from)))
           IN  /\ Holds(m1, g, Tree!WithChildren(See(m, f), p, Picked(See(m, f), p, from)))
               /\ ~pool => DOMAIN m1 \subseteq {0} \cup Used(g)
<1> DEFINE m1 == Moved(D, Addr(f, p), n, from)
           ts == Picked(f, p, from)
           g  == Tree!Put(f, p, Tree!Over(Sized(f[p], n), ts))
           d1 == Tree!WithChildren(See(m, f), p, Picked(See(m, f), p, from))
           U(i) == Used(Tree!Get(f, Down(p, i)))
<1>1. /\ Kept(m, f, p, D)
      /\ \A i \in 1..Kids(f[p]) : i \notin K => U(i) \subseteq DOMAIN D
  BY WithoutKept
<1>2. Picks(f, p, D, n, from)
  <2>1. \A k \in DOMAIN from : from[k] \in 1..Kids(f[p]) /\ from[k] \notin K
    OBVIOUS
  <2> QED BY <1>1, <2>1 DEF Picks
<1>3. /\ Holds(m1, g, d1) /\ DOMAIN m1 = DOMAIN D
      /\ Used(g) = Outer(f, p) \cup {f[p].block} \cup UsedBy(ts)
  BY <1>1, <1>2, Chosen
<1>4. ASSUME ~pool PROVE DOMAIN D \subseteq {0} \cup Outer(f, p) \cup {f[p].block} \cup UsedBy(ts)
  <2>1. DOMAIN D = DOMAIN m \ UNION {U(i) : i \in K}
    BY <1>4 DEF Without
  <2>2. Used(f) = Outer(f, p) \cup Used(Tree!Get(f, p))
    BY UsedSplit
  <2>3. Used(Tree!Get(f, p)) = ({f[p].block} \ {0}) \cup UNION {U(i) : i \in 1..Kids(f[p])}
    BY ChildBlocks
  <2>4. DOMAIN ts = DOMAIN from /\ \A k \in DOMAIN from : Used(ts[k]) = U(from[k])
    BY DEF Picked
  <2> HIDE DEF ts, U
  <2>5. UsedBy(ts) = UNION {U(i) : i \in (1..Kids(f[p])) \ K}
    BY <2>4 DEF UsedBy
  <2> QED BY <1>4, <2>1, <2>2, <2>3, <2>5
<1> HIDE DEF m1, g, d1, ts
<1>5. ~pool => DOMAIN m1 \subseteq {0} \cup Used(g)
  BY <1>3, <1>4
<1> QED BY <1>3, <1>5 DEF m1, g, d1, ts

LEMMA ChildrenForm ==
    ASSUME NEW m, NEW f, Placed(m, f), NEW p \in DOMAIN f, Filled(f[p])
    PROVE  /\ Map(Tree!Children(See(m, f), p))
           /\ DOMAIN Tree!Children(See(m, f), p) = 1..InUse(f[p])
           /\ InUse(f[p]) \in Nat /\ Kids(f[p]) = InUse(f[p])
           /\ Len(Tree!Children(See(m, f), p)) = InUse(f[p])
           /\ \A i \in 1..InUse(f[p]) :
                 Tree!Children(See(m, f), p)[i] = Tree!Get(See(m, f), Down(p, i))
<1> DEFINE ts == Tree!Children(See(m, f), p)
<1>1. f[p] \in CellSet /\ InUse(f[p]) \in Nat /\ Kids(f[p]) = InUse(f[p])
  BY PlacedPaths, KidsNat DEF Filled, Kids
<1>2. See(m, f)[p].n = InUse(f[p])
  <2>1. See(m, f)[p] = Shows(m, f[p])
    BY SeeForm
  <2>2. Shows(m, f[p]) = Tree!Node(f[p].k, <<>>, InUse(f[p]))
    BY DEF Shows, Filled
  <2> QED BY <2>1, <2>2 DEF Tree!Node
<1>3. ts = [i \in 1..InUse(f[p]) |-> Tree!Get(See(m, f), Down(p, i))]
  BY <1>2 DEF Tree!Children, Down
<1>4. /\ Map(ts) /\ DOMAIN ts = 1..InUse(f[p])
      /\ \A i \in 1..InUse(f[p]) : ts[i] = Tree!Get(See(m, f), Down(p, i))
  BY <1>3 DEF Map
<1> HIDE DEF ts
<1>5. Len(ts) = InUse(f[p])
  BY <1>1, <1>4, LenOf
<1> QED BY <1>1, <1>4, <1>5 DEF ts

\* The parts of a sequence of length n before i and behind j.
IsCut(us, ts, n, i, j) ==
    /\ Map(us) /\ DOMAIN us = 1..n - (j - i + 1)
    /\ \A k \in DOMAIN us : us[k] = ts[IF k < i THEN k ELSE k + (j - i + 1)]

LEMMA CutOut ==
    ASSUME NEW n \in Nat, NEW ts, Map(ts), DOMAIN ts = 1..n, NEW i \in 1..n, NEW j \in i..n
    PROVE  IsCut(SubSeq(ts, 1, i - 1) \o SubSeq(ts, j + 1, Len(ts)), ts, n, i, j)
<1> DEFINE R == {ts[k] : k \in 1..n}
<1>1. ts \in [1..n -> R]
  BY DEF Map
<1>2. ts \in Seq(R) /\ Len(ts) = n
  <2> HIDE DEF R
  <2>1. ts \in Seq(R)
    BY <1>1, SeqDef
  <2>2. Len(ts) = n
    BY LenOf
  <2> QED BY <2>1, <2>2
<1>3. i \in Nat /\ j \in Nat /\ 1 <= i /\ i <= j /\ j <= n
  OBVIOUS
<1> HIDE DEF R
<1>4. SubSeq(ts, 1, i - 1) \o SubSeq(ts, j + 1, Len(ts)) =
          [k \in 1..n - (j - i + 1) |-> ts[IF k < i THEN k ELSE k + (j - i + 1)]]
  BY <1>2, <1>3
<1> QED BY <1>4 DEF IsCut, Map

LEMMA DestroyedChildren ==
    ASSUME NEW m, NEW f, Placed(m, f), NEW p \in DOMAIN f, NEW K \in SUBSET (1..Kids(f[p]))
    PROVE  Without(m, f, p, K, DestroyAll(m, {f[p].block} \X K))
<1> DEFINE A == {f[p].block} \X K
           gone == UNION {Used(Tree!Get(f, Down(p, i))) : i \in K}
<1>1. \A i \in K : Under(m, <<f[p].block, i>>) = Used(Tree!Get(f, Down(p, i)))
  <2>1. ASSUME NEW i \in K PROVE Under(m, <<f[p].block, i>>) = Used(Tree!Get(f, Down(p, i)))
    <3>1. Down(p, i) \in DOMAIN f /\ Addr(f, Down(p, i)) = <<f[p].block, i>>
      BY ChildPath
    <3> QED BY <3>1, UnderAddr
  <2> QED BY <2>1
<1>2. \A a \in A : \E i \in K : a = <<f[p].block, i>>
  <2>1. \A a \in A : a = <<a[1], a[2]>> /\ a[1] = f[p].block /\ a[2] \in K
    OBVIOUS
  <2> HIDE DEF A
  <2> QED BY <2>1
<1>3. \A i \in K : <<f[p].block, i>> \in A
  OBVIOUS
<1> HIDE DEF A
<1>4. UNION {Under(m, a) : a \in A} = gone
  <2>1. ASSUME NEW a \in A, NEW b \in Under(m, a) PROVE b \in gone
    BY <1>1, <1>2
  <2>2. ASSUME NEW i \in K, NEW b \in Used(Tree!Get(f, Down(p, i))) PROVE \E a \in A : b \in Under(m, a)
    BY <1>1, <1>3
  <2> QED BY <2>1, <2>2
<1> HIDE DEF gone
<1>5. Without(m, f, p, K, DestroyAll(m, A))
  BY <1>4 DEF DestroyAll, Keep, Without, gone
<1> QED BY <1>5 DEF A

LEMMA CellsErased ==
    ASSUME IInv, NEW p \in Paths, Filled(At(mem, Address(p))),
           NEW i \in 1..InUse(At(mem, Address(p))), NEW j \in i..InUse(At(mem, Address(p))),
           At(mem, Address(p)).k = "Object" => \E h \in Nat : j - i + 1 = 2 * h,
           Becomes(EraseCells(mem, Address(p), i, j), Tree!Erase(doc, p, i, j))
    PROVE  IInv'
<1>1. PICK f : Holds(mem, f, doc) /\ DOMAIN mem = {0} \cup Used(f)
  BY DEF IInv
<1> DEFINE a == Addr(f, p)
           c == f[p]
           gone == j - i + 1
           K == i..j
           n == c.size - (IF c.k = "Object" THEN gone \div 2 ELSE gone)
           from == [k \in 1..InUse(c) - gone |-> IF k < i THEN k ELSE k + gone]
           D == DestroyAll(mem, {c.block} \X (i..j))
           m1 == Moved(D, a, n, from)
           g  == Tree!Put(f, p, Tree!Over(Sized(f[p], n), Picked(f, p, from)))
           d1 == Tree!WithChildren(doc, p, Picked(doc, p, from))
<1>2. Placed(mem, f) /\ doc = See(mem, f)
  BY <1>1 DEF Holds
<1>3. /\ p \in DOMAIN f /\ p \in Path /\ Address(p) = a /\ At(mem, a) = c
      /\ Sound(mem, c) /\ Filled(c)
  BY <1>1, <1>2, AtPath, PlacedPaths
<1>4. Kids(c) = InUse(c) /\ InUse(c) \in Nat /\ c.size \in Nat
  BY <1>3, KidsNat DEF Filled, Kids, Sound, CellSet
<1>5. /\ i \in Nat /\ j \in Nat /\ 1 <= i /\ i <= j /\ j <= InUse(c) /\ gone \in Nat
      /\ K \subseteq 1..Kids(c)
  BY <1>3, <1>4
<1>6. n \in Nat /\ InUse(Sized(c, n)) = InUse(c) - gone
  <2>1. Sized(c, n).size = n /\ Sized(c, n).k = c.k
    BY <1>3 DEF Sized, Sound, CellSet
  <2> HIDE DEF gone
  <2>2. CASE c.k = "Object"
    <3>1. PICK h \in Nat : gone = 2 * h
      BY <1>3, <2>2 DEF gone
    <3>2. n = c.size - h
      BY <2>2, <3>1
    <3>3. InUse(c) = 2 * c.size
      BY <2>2 DEF InUse
    <3> HIDE DEF n
    <3>4. n \in Nat
      BY <1>4, <1>5, <3>1, <3>2, <3>3 DEF gone
    <3>5. InUse(Sized(c, n)) = 2 * n
      BY <2>1, <2>2 DEF InUse
    <3> QED BY <1>4, <3>1, <3>2, <3>3, <3>4, <3>5
  <2>3. CASE c.k # "Object"
    <3>1. n = c.size - gone /\ InUse(c) = c.size
      BY <2>3 DEF InUse
    <3> HIDE DEF n
    <3>2. n \in Nat
      BY <1>4, <1>5, <3>1 DEF gone
    <3>3. InUse(Sized(c, n)) = n
      BY <2>1, <2>3 DEF InUse
    <3> QED BY <3>1, <3>2, <3>3
  <2> QED BY <2>2, <2>3
<1> HIDE DEF n
<1>7. /\ Map(from) /\ DOMAIN from = 1..InUse(Sized(c, n))
      /\ \A k, l \in DOMAIN from : from[k] = from[l] => k = l
      /\ {from[k] : k \in DOMAIN from} = (1..Kids(c)) \ K
  <2>1. Map(from) /\ DOMAIN from = 1..InUse(c) - gone
    BY DEF Map
  <2>2. \A k \in DOMAIN from : from[k] = IF k < i THEN k ELSE k + gone
    OBVIOUS
  <2>3. \A k, l \in DOMAIN from : from[k] = from[l] => k = l
    BY <1>4, <1>5
  <2>4. \A k \in DOMAIN from : from[k] \in (1..Kids(c)) \ K
    BY <1>4, <1>5
  <2>5. ASSUME NEW h \in (1..Kids(c)) \ K PROVE \E k \in DOMAIN from : from[k] = h
    <3>1. CASE h < i
      <4>1. h \in DOMAIN from /\ from[h] = h
        BY <1>4, <1>5, <3>1
      <4> QED BY <4>1
    <3>2. CASE h > j
      <4>1. h - gone \in DOMAIN from /\ from[h - gone] = h
        BY <1>4, <1>5, <3>2
      <4> QED BY <4>1
    <3> QED BY <1>4, <1>5, <3>1, <3>2
  <2> HIDE DEF from, K
  <2>6. {from[k] : k \in DOMAIN from} = (1..Kids(c)) \ K
    BY <2>4, <2>5
  <2> QED BY <1>6, <2>1, <2>3, <2>6
<1>8. Without(mem, f, p, K, D)
  BY <1>2, <1>3, <1>5, DestroyedChildren
<1> HIDE DEF D, from, K
<1>9. Holds(m1, g, d1) /\ (~pool => DOMAIN m1 \subseteq {0} \cup Used(g))
  <2>1. K \in SUBSET (1..Kids(c))
    BY <1>5
  <2>2. ~pool => DOMAIN mem \subseteq {0} \cup Used(f)
    BY <1>1
  <2> QED BY <1>2, <1>3, <1>6, <1>7, <1>8, <2>1, <2>2, KeptChildren
<1>10. m1 = EraseCells(mem, Address(p), i, j)
  BY <1>3 DEF EraseCells, D, n, from
<1>11. d1 = Tree!Erase(doc, p, i, j)
  <2> DEFINE ts == Tree!Children(doc, p)
             us == SubSeq(ts, 1, i - 1) \o SubSeq(ts, j + 1, Len(ts))
             ps == Picked(doc, p, from)
  <2>1. /\ Map(ts) /\ DOMAIN ts = 1..InUse(c) /\ Len(ts) = InUse(c)
        /\ \A k \in 1..InUse(c) : ts[k] = Tree!Get(doc, Down(p, k))
    BY <1>2, <1>3, ChildrenForm
  <2> HIDE DEF ts
  <2>2. i \in 1..InUse(c) /\ j \in i..InUse(c)
    BY <1>3
  <2>3. IsCut(us, ts, InUse(c), i, j)
    BY <1>4, <2>1, <2>2, CutOut
  <2>4. /\ DOMAIN from = 1..InUse(c) - gone
        /\ \A k \in DOMAIN from : from[k] = (IF k < i THEN k ELSE k + gone) /\ from[k] \in 1..InUse(c)
    BY <1>4, <1>5 DEF from
  <2>5. /\ Map(ps) /\ DOMAIN ps = DOMAIN from
        /\ \A k \in DOMAIN from : ps[k] = Tree!Get(doc, Down(p, from[k]))
    BY DEF Picked, Map
  <2> HIDE DEF us, ps
  <2>6. ps = us
    <3>1. DOMAIN ps = DOMAIN us /\ Map(us)
      BY <2>3, <2>4, <2>5 DEF IsCut
    <3>2. ASSUME NEW k \in DOMAIN ps PROVE ps[k] = us[k]
      BY <2>1, <2>3, <2>4, <2>5, <3>1 DEF IsCut
    <3> QED BY <2>5, <3>1, <3>2, MapEqual
  <2> QED BY <2>6 DEF Tree!Erase, ts, us, ps
<1> HIDE DEF m1, g, d1
<1> QED BY <1>9, <1>10, <1>11, Settled

LEMMA SizeFilled ==
    ASSUME IInv, NEW p \in Paths, Is(p, "Array") \/ Is(p, "Object"), Size(p) # 0
    PROVE  /\ Filled(At(mem, Address(p))) /\ Size(p) \in Nat
           /\ Is(p, "Array") => InUse(At(mem, Address(p))) = Size(p)
           /\ Is(p, "Object") => InUse(At(mem, Address(p))) = 2 * Size(p)
<1>1. PICK f : Holds(mem, f, doc)
  BY DEF IInv
<1> DEFINE c == At(mem, Address(p))
<1>2. Sound(mem, c)
  <2>1. Placed(mem, f) /\ c = f[p] /\ p \in DOMAIN f
    BY <1>1, AtPath DEF Holds
  <2> QED BY <2>1, PlacedPaths
<1>3. c.block # 0 /\ c.size \in Nat
  BY <1>2 DEF Sound, CellSet, Size
<1> QED BY <1>3 DEF Filled, InUse, Is, Size

LEMMA EraseStep ==
    ASSUME IInv, NEW p \in Paths, Erase(p)
    PROVE  IInv'
<1>1. PICK i \in 1..Size(p) : \E j \in i..Size(p) :
          Becomes(EraseCells(mem, Address(p), i, j), Tree!Erase(doc, p, i, j))
  BY DEF Erase
<1>2. PICK j \in i..Size(p) :
          Becomes(EraseCells(mem, Address(p), i, j), Tree!Erase(doc, p, i, j))
  BY <1>1
<1>3. Is(p, "Array") /\ Size(p) # 0
  BY DEF Erase
<1>4. Filled(At(mem, Address(p))) /\ InUse(At(mem, Address(p))) = Size(p)
  BY <1>3, SizeFilled
<1>5. At(mem, Address(p)).k # "Object"
  BY <1>3 DEF Is
<1> QED BY <1>2, <1>4, <1>5, CellsErased

LEMMA EraseMemberStep ==
    ASSUME IInv, NEW p \in Paths, EraseMember(p)
    PROVE  IInv'
<1>1. PICK i \in 1..Size(p) : \E j \in i..Size(p) :
          Becomes(EraseCells(mem, Address(p), 2 * i - 1, 2 * j),
                  Tree!Erase(doc, p, 2 * i - 1, 2 * j))
  BY DEF EraseMember
<1>2. PICK j \in i..Size(p) :
          Becomes(EraseCells(mem, Address(p), 2 * i - 1, 2 * j),
                  Tree!Erase(doc, p, 2 * i - 1, 2 * j))
  BY <1>1
<1>3. Is(p, "Object") /\ Size(p) # 0
  BY DEF EraseMember
<1>4. /\ Filled(At(mem, Address(p))) /\ Size(p) \in Nat
      /\ InUse(At(mem, Address(p))) = 2 * Size(p)
  BY <1>3, SizeFilled
<1>5. /\ 2 * i - 1 \in 1..InUse(At(mem, Address(p)))
      /\ 2 * j \in (2 * i - 1)..InUse(At(mem, Address(p)))
  BY <1>4
<1>6. j - i + 1 \in Nat /\ 2 * j - (2 * i - 1) + 1 = 2 * (j - i + 1)
  BY <1>4
<1> QED BY <1>2, <1>4, <1>5, <1>6, CellsErased

-------------------------------------------------------------------------------
\* What two children of p are replaced by is there, and all else stays.
LEMMA PutTwo ==
    ASSUME NEW d, DOMAIN d \subseteq Path, NEW p \in Path,
           NEW i \in Steps, NEW j \in Steps, i # j,
           NEW t, Map(t), DOMAIN t \subseteq Path, NEW u, Map(u), DOMAIN u \subseteq Path
    PROVE  LET e == Tree!Put(Tree!Put(d, Down(p, j), u), Down(p, i), t)
           IN  /\ DOMAIN e \subseteq Path
               /\ Tree!Get(e, Down(p, i)) = t /\ Tree!Get(e, Down(p, j)) = u
               /\ \A k \in Steps \ {i, j} : Tree!Get(e, Down(p, k)) = Tree!Get(d, Down(p, k))
               /\ p \in DOMAIN d => p \in DOMAIN e /\ e[p] = d[p]
<1> DEFINE x == Down(p, i)
           y == Down(p, j)
           e1 == Tree!Put(d, y, u)
           e == Tree!Put(e1, x, t)
<1>1. x \in Path /\ y \in Path /\ Tree!Apart(x, y) /\ ~Tree!Inside(p, x) /\ ~Tree!Inside(p, y)
  BY PathDown, ChildApart
<1>2. \A k \in Steps \ {i, j} : Down(p, k) \in Path /\ Tree!Apart(x, Down(p, k)) /\ Tree!Apart(y, Down(p, k))
  BY PathDown, ChildApart
<1> HIDE DEF x, y
<1>3. DOMAIN e1 \subseteq Path
  BY <1>1, PutForm
<1>4. Tree!Get(e1, y) = u
  BY <1>1, GetPut
<1> HIDE DEF e1
<1>5. DOMAIN e \subseteq Path
  BY <1>1, <1>3, PutForm
<1>6. Tree!Get(e, x) = t /\ Tree!Get(e, y) = u
  BY <1>1, <1>3, <1>4, GetPut, GetPutApart
<1>7. ASSUME NEW k \in Steps \ {i, j} PROVE Tree!Get(e, Down(p, k)) = Tree!Get(d, Down(p, k))
  <2>1. Tree!Get(e, Down(p, k)) = Tree!Get(e1, Down(p, k))
    BY <1>1, <1>2, <1>3, GetPutApart
  <2>2. Tree!Get(e1, Down(p, k)) = Tree!Get(d, Down(p, k))
    BY <1>1, <1>2, GetPutApart DEF e1
  <2> QED BY <2>1, <2>2
<1>8. ASSUME p \in DOMAIN d PROVE p \in DOMAIN e /\ e[p] = d[p]
  <2>1. p \in DOMAIN e1 /\ e1[p] = d[p]
    BY <1>1, <1>8, PutForm DEF e1
  <2> QED BY <1>1, <1>3, <2>1, PutForm
<1> QED BY <1>5, <1>6, <1>7, <1>8 DEF e, e1, x, y

\* One member's name and value destroyed one after the other.
LEMMA DestroyedTwo ==
    ASSUME NEW m, NEW f, Placed(m, f), NEW p \in DOMAIN f,
           NEW i \in 1..Kids(f[p]), NEW j \in 1..Kids(f[p]), i # j
    PROVE  Without(m, f, p, {i, j},
                   Destroy(Destroy(m, <<f[p].block, i>>), <<f[p].block, j>>))
<1> DEFINE x == Down(p, i)
           y == Down(p, j)
           D == Destroy(m, Addr(f, x))
           u == Tree!Get(f, y)
           E == Destroy(D, Addr(f, y))
<1>1. /\ x \in DOMAIN f /\ y \in DOMAIN f /\ p \in Path /\ i \in Steps /\ j \in Steps
      /\ Addr(f, x) = <<f[p].block, i>> /\ Addr(f, y) = <<f[p].block, j>>
      /\ f[p].block # 0
  BY ChildPath
<1>2. ~Tree!Inside(y, x) /\ ~Tree!Inside(p, x)
  BY <1>1, ChildApart DEF Tree!Apart
<1>3. Left(m, f, x, D)
  BY <1>1, DestroyedOne
<1>4. /\ f[p].block \in DOMAIN D
      /\ D[f[p].block] = m[f[p].block] /\ m[f[p].block][j] = f[y]
  <2>1. f[p].block \in Outer(f, x)
    BY <1>1, <1>2 DEF Outer
  <2>2. f[p].block \in DOMAIN D
    BY <1>1, <1>3, <2>1, OuterLeft
  <2>3. m[f[p].block][j] = f[y]
    BY ChildPath
  <2> HIDE DEF D, y
  <2> QED BY <1>3, <2>2, <2>3 DEF Left
<1>5. Used(u) \cap Used(Tree!Get(f, x)) = {}
  BY ChildBlocks
<1>6. Stands(m, u) /\ u[<<>>] = f[y]
  BY <1>1, Cut
<1> HIDE DEF u, D, x, y
<1>7. Stands(D, u)
  <2>1. \A b \in Used(u) : b \in DOMAIN m
    BY <1>6, StandsPaths DEF Used, Sound
  <2>2. \A b \in Used(u) : b \in DOMAIN D /\ D[b] = m[b]
    BY <1>3, <1>5, <2>1 DEF Left
  <2> QED BY <1>6, <2>2, Frame
<1>8. Under(D, Addr(f, y)) = Used(u)
  <2>1. At(D, Addr(f, y)) = u[<<>>]
    BY <1>1, <1>4, <1>6 DEF At
  <2>2. CASE u[<<>>].block = 0
    BY <1>7, <2>1, <2>2, EmptyTree DEF Under
  <2>3. CASE u[<<>>].block # 0
    BY <1>7, <2>1, <2>3, ReachedTree DEF Under
  <2> QED BY <2>2, <2>3
<1>9. UNION {Under(D, a) : a \in {Addr(f, y)}} = Used(u)
  BY <1>8
<1>10. UNION {Used(Tree!Get(f, Down(p, k))) : k \in {i, j}} = Used(Tree!Get(f, x)) \cup Used(u)
  BY DEF x, y, u
<1>11. Without(m, f, p, {i, j}, E)
  <2> DEFINE U == Used(u)
             V == Used(Tree!Get(f, x))
  <2>1. E = IF pool THEN D ELSE Keep(D, DOMAIN D \ U)
    BY <1>9 DEF Destroy, DestroyAll
  <2> HIDE DEF E, U, V
  <2>2. CASE pool
    BY <1>3, <1>10, <2>1, <2>2 DEF Left, Without, U, V
  <2>3. CASE ~pool
    <3>1. DOMAIN D = DOMAIN m \ V /\ \A b \in DOMAIN D : D[b] = m[b]
      BY <1>3, <2>3 DEF Left, V
    <3>2. DOMAIN E = DOMAIN m \ (V \cup U) /\ \A b \in DOMAIN E : E[b] = m[b]
      BY <2>1, <2>3, <3>1 DEF Keep
    <3> QED BY <1>10, <2>3, <3>2 DEF Without, U, V
  <2> QED BY <2>2, <2>3
<1> QED BY <1>1, <1>11 DEF D, x, y

\* A child of p is moved to the place of another, and nothing else is.
Shifted(m, f, p, i, j, m1, g) ==
    /\ Holds(m1, g, Tree!Assign(See(m, f), Down(p, i), Down(p, j)))
    /\ ~pool => DOMAIN m1 \subseteq {0} \cup Used(g)
    /\ p \in DOMAIN g /\ g[p] = f[p] /\ Addr(g, p) = Addr(f, p)
    /\ Tree!Get(g, Down(p, i)) = Tree!Get(f, Down(p, j))
    /\ Tree!Get(g, Down(p, j)) = Tree!Leaf(NullCell)
    /\ \A k \in 1..Kids(f[p]) : k \notin {i, j} =>
          Tree!Get(g, Down(p, k)) = Tree!Get(f, Down(p, k))

LEMMA MoveShift ==
    ASSUME NEW m, NEW f, Placed(m, f), ~pool => DOMAIN m \subseteq {0} \cup Used(f),
           NEW p \in DOMAIN f, NEW i \in 1..Kids(f[p]), NEW j \in 1..Kids(f[p]), i # j
    PROVE  \E g : Shifted(m, f, p, i, j,
                          MoveAssign(m, <<f[p].block, i>>, <<f[p].block, j>>), g)
<1> DEFINE x == Down(p, i)
           y == Down(p, j)
           t == Tree!Get(f, y)
           u == Tree!Leaf(NullCell)
           g == Tree!Put(Tree!Put(f, y, u), x, t)
           m1 == MoveAssign(m, <<f[p].block, i>>, <<f[p].block, j>>)
<1>1. /\ x \in DOMAIN f /\ y \in DOMAIN f /\ p \in Path /\ i \in Steps /\ j \in Steps
      /\ Addr(f, x) = <<f[p].block, i>> /\ Addr(f, y) = <<f[p].block, j>>
      /\ DOMAIN f \subseteq Path /\ \A k \in 1..Kids(f[p]) : k \in Steps
  BY ChildPath, PlacedPaths
<1>2. Tree!Apart(x, y)
  BY <1>1, ChildApart
<1>3. Map(t) /\ DOMAIN t \subseteq Path /\ Map(u) /\ DOMAIN u \subseteq Path
  BY <1>1, GetForm, NullLeaf
<1>4. Holds(m1, g, Tree!Assign(See(m, f), x, y)) /\ (~pool => DOMAIN m1 \subseteq {0} \cup Used(g))
  BY <1>1, <1>2, MoveApart
<1> HIDE DEF t, u, m1
<1>5. /\ Tree!Get(g, x) = t /\ Tree!Get(g, y) = u
      /\ \A k \in Steps \ {i, j} : Tree!Get(g, Down(p, k)) = Tree!Get(f, Down(p, k))
      /\ p \in DOMAIN g /\ g[p] = f[p]
  BY <1>1, <1>3, PutTwo
<1>6. Addr(g, p) = Addr(f, p)
  <2>1. ~Tree!Inside(p, y) /\ ~Tree!Inside(p, x)
    BY <1>1, ChildApart
  <2> DEFINE r == Tree!Parent(p)
             g1 == Tree!Put(f, y, u)
  <2>2. r \in Path /\ Tip(p) \in Steps /\ p = Down(r, Tip(p)) /\ (r # <<>> => r \in DOMAIN f)
    BY Place
  <2> HIDE DEF r
  <2>3. ~Tree!Inside(r, y) /\ ~Tree!Inside(r, x)
    <3> DEFINE k == Tip(p)
    <3>1. k \in Steps /\ p = Down(r, k) /\ x \in Path /\ y \in Path
      BY <1>1, <2>2
    <3> HIDE DEF k, x, y
    <3>2. /\ Tree!Inside(Down(r, k), x) <=> Tree!Inside(r, x) \/ x = Down(r, k)
          /\ Tree!Inside(Down(r, k), y) <=> Tree!Inside(r, y) \/ y = Down(r, k)
      BY <2>2, <3>1, PathInside
    <3> QED BY <2>1, <3>1, <3>2
  <2>4. DOMAIN g1 \subseteq Path /\ (r # <<>> => r \in DOMAIN g1 /\ g1[r] = f[r])
    BY <1>1, <1>3, <2>2, <2>3, PutForm
  <2> HIDE DEF g1
  <2>5. r # <<>> => g[r] = g1[r]
    <3>1. g = Tree!Put(g1, x, t)
      BY DEF g1
    <3> HIDE DEF g
    <3> QED BY <1>1, <1>3, <2>2, <2>3, <2>4, <3>1, PutForm
  <2> QED BY <2>4, <2>5 DEF Addr, r
<1> HIDE DEF g
<1>7. Shifted(m, f, p, i, j, m1, g)
  BY <1>1, <1>4, <1>5, <1>6 DEF Shifted, t, u
<1> QED BY <1>7 DEF m1

\* us is ts of length n without its last two, which are now in the place of member i.
IsRemoved(us, ts, n, i) ==
    /\ Map(us) /\ DOMAIN us = 1..n - 2
    /\ \A k \in DOMAIN us :
          us[k] = IF k = 2 * i - 1 THEN ts[n - 1] ELSE IF k = 2 * i THEN ts[n] ELSE ts[k]

LEMMA RemovedDoc ==
    ASSUME NEW d, NEW p, NEW i, NEW us,
           IsRemoved(us, Tree!Children(d, p), Len(Tree!Children(d, p)), i)
    PROVE  Tree!RemoveMember(d, p, i) = Tree!WithChildren(d, p, us)
<1> DEFINE ts == Tree!Children(d, p)
           n == Len(ts)
           vs == [k \in 1..n - 2 |->
                    IF k = 2 * i - 1 THEN ts[n - 1] ELSE IF k = 2 * i THEN ts[n] ELSE ts[k]]
<1> HIDE DEF ts, n
<1>1. IsRemoved(us, ts, n, i)
  BY DEF ts, n
<1>2. Map(vs) /\ DOMAIN vs = 1..n - 2
  BY DEF Map
<1>3. ASSUME NEW k \in DOMAIN us PROVE us[k] = vs[k]
  BY <1>1 DEF IsRemoved
<1>4. us = vs
  <2> HIDE DEF vs
  <2> QED BY <1>1, <1>2, <1>3, MapEqual DEF IsRemoved
<1>5. Tree!RemoveMember(d, p, i) = Tree!WithChildren(d, p, vs)
  BY DEF Tree!RemoveMember, ts, n
<1> QED BY <1>4, <1>5

\* The last two children of p are gone or null, the others stay in place.
LEMMA LastTwoGone ==
    ASSUME NEW m, NEW f, Placed(m, f), ~pool => DOMAIN m \subseteq {0} \cup Used(f),
           NEW p \in DOMAIN f, Filled(f[p]), f[p].k = "Object",
           NEW D, Without(m, f, p, {2 * f[p].size - 1, 2 * f[p].size}, D), f[p].size # 0
    PROVE  LET from == [k \in 1..2 * f[p].size - 2 |-> k]
               m1   == Moved(D, Addr(f, p), f[p].size - 1, from)
           IN  \E g : /\ Holds(m1, g, Tree!WithChildren(See(m, f), p, Picked(See(m, f), p, from)))
                      /\ ~pool => DOMAIN m1 \subseteq {0} \cup Used(g)
<1> DEFINE n == f[p].size
           K == {2 * n - 1, 2 * n}
           from == [k \in 1..2 * n - 2 |-> k]
<1>1. f[p] \in CellSet /\ n \in Nat \ {0} /\ Kids(f[p]) = 2 * n
  BY PlacedPaths DEF CellSet, Kids, InUse
<1>2. InUse(Sized(f[p], n - 1)) = 2 * n - 2 /\ n - 1 \in Nat
  <2>1. Sized(f[p], n - 1).size = n - 1 /\ Sized(f[p], n - 1).k = "Object"
    BY <1>1 DEF Sized, CellSet
  <2> QED BY <1>1, <2>1 DEF InUse
<1>3. /\ Map(from) /\ DOMAIN from = 1..2 * n - 2 /\ \A k \in DOMAIN from : from[k] = k
  BY DEF Map
<1> HIDE DEF n, from
<1>4. {from[k] : k \in DOMAIN from} = (1..Kids(f[p])) \ K
  <2>1. \A k : k \in (1..Kids(f[p])) \ K <=> k \in 1..2 * n - 2
    BY <1>1
  <2> HIDE DEF K
  <2> QED BY <1>3, <2>1
<1>5. K \in SUBSET (1..Kids(f[p]))
  BY <1>1
<1>6. \A k, l \in DOMAIN from : from[k] = from[l] => k = l
  BY <1>3
<1>7. Without(m, f, p, K, D)
  BY DEF n
<1> HIDE DEF K
<1>8. LET m1 == Moved(D, Addr(f, p), n - 1, from)
          g  == Tree!Put(f, p, Tree!Over(Sized(f[p], n - 1), Picked(f, p, from)))
      IN  /\ Holds(m1, g, Tree!WithChildren(See(m, f), p, Picked(See(m, f), p, from)))
          /\ ~pool => DOMAIN m1 \subseteq {0} \cup Used(g)
  BY <1>2, <1>3, <1>4, <1>5, <1>6, <1>7, KeptChildren
<1> QED BY <1>8 DEF n, from

\* The same on documents.
LEMMA AssignChildren ==
    ASSUME NEW d, DOMAIN d \subseteq Path, NEW p \in Path, p \in DOMAIN d,
           NEW i \in Steps, NEW j \in Steps, i # j
    PROVE  LET e == Tree!Assign(d, Down(p, i), Down(p, j))
           IN  /\ DOMAIN e \subseteq Path /\ p \in DOMAIN e
               /\ Tree!Get(e, Down(p, i)) = Tree!Get(d, Down(p, j))
               /\ \A k \in Steps \ {i, j} : Tree!Get(e, Down(p, k)) = Tree!Get(d, Down(p, k))
               /\ \A ts : Trees(ts) => Tree!WithChildren(e, p, ts) = Tree!WithChildren(d, p, ts)
<1> DEFINE x == Down(p, i)
           y == Down(p, j)
           t == Tree!Get(d, y)
           u == Tree!Leaf(Tree!Null)
           e == Tree!Put(Tree!Put(d, y, u), x, t)
<1>1. x \in Path /\ y \in Path /\ ~Tree!Inside(y, x)
  BY PathDown, ChildApart DEF Tree!Apart
<1>2. Map(t) /\ DOMAIN t \subseteq Path /\ Map(u) /\ DOMAIN u \subseteq Path
  BY <1>1, GetForm, NullLeaf
<1>3. e = Tree!Assign(d, x, y)
  BY <1>1 DEF Tree!Assign
<1> HIDE DEF t, u
<1>4. /\ DOMAIN e \subseteq Path /\ Tree!Get(e, x) = t
      /\ \A k \in Steps \ {i, j} : Tree!Get(e, Down(p, k)) = Tree!Get(d, Down(p, k))
      /\ p \in DOMAIN e /\ e[p] = d[p]
  BY <1>2, PutTwo
<1>5. ASSUME NEW ts, Trees(ts) PROVE Tree!WithChildren(e, p, ts) = Tree!WithChildren(d, p, ts)
  <2> DEFINE w == Tree!Over([d[p] EXCEPT !.n = Len(ts)], ts)
  <2>1. DOMAIN w \subseteq Path
    BY <1>5, OverForm DEF IsOver
  <2> HIDE DEF w
  <2>2. Tree!Put(e, p, w) = Tree!Put(d, p, w)
    <3> DEFINE e1 == Tree!Put(d, y, u)
    <3>1. Tree!Inside(x, p) /\ Tree!Inside(y, p)
      BY PathDown
    <3> HIDE DEF x, y
    <3>2. DOMAIN e1 \subseteq Path /\ Tree!Put(e1, p, w) = Tree!Put(d, p, w)
      BY <1>1, <1>2, <2>1, <3>1, PutForm, PutPut
    <3> HIDE DEF e1
    <3>3. Tree!Put(Tree!Put(e1, x, t), p, w) = Tree!Put(e1, p, w)
      BY <1>1, <1>2, <2>1, <3>1, <3>2, PutPut
    <3> QED BY <3>2, <3>3 DEF e1
  <2> HIDE DEF e
  <2> QED BY <1>4, <2>2 DEF Tree!WithChildren, w
<1> HIDE DEF e
<1>6. \A ts : Trees(ts) => Tree!WithChildren(e, p, ts) = Tree!WithChildren(d, p, ts)
  BY <1>5
<1> QED BY <1>3, <1>4, <1>6 DEF x, y, t

LEMMA PickedForm ==
    ASSUME NEW d, DOMAIN d \subseteq Path, NEW p \in Path, NEW n \in Nat
    PROVE  LET us == Picked(d, p, [k \in 1..n |-> k])
           IN  /\ Map(us) /\ DOMAIN us = 1..n /\ Trees(us)
               /\ \A k \in 1..n : us[k] = Tree!Get(d, Down(p, k))
<1> DEFINE us == Picked(d, p, [k \in 1..n |-> k])
<1>1. us = [k \in 1..n |-> Tree!Get(d, Down(p, k))]
  BY DEF Picked
<1>2. Map(us) /\ DOMAIN us = 1..n /\ \A k \in 1..n : us[k] = Tree!Get(d, Down(p, k))
  BY <1>1 DEF Map
<1> HIDE DEF us
<1>3. ASSUME NEW k \in 1..n PROVE DOMAIN us[k] \subseteq Path
  <2>1. Down(p, k) \in Path
    BY PathDown DEF Steps
  <2> QED BY <1>2, <2>1, GetForm
<1>4. Trees(us)
  BY <1>2, <1>3 DEF Trees
<1> QED BY <1>2, <1>4 DEF us

\* Member i takes what the last one had: RemoveMember.
LEMMA LastMovedDoc ==
    ASSUME NEW m, NEW f, Placed(m, f), NEW p \in DOMAIN f, Filled(f[p]), f[p].k = "Object",
           NEW i \in 1..f[p].size, i # f[p].size
    PROVE  LET n  == f[p].size
               d  == See(m, f)
               d1 == Tree!Assign(d, Down(p, 2 * i - 1), Down(p, 2 * n - 1))
               d2 == Tree!Assign(d1, Down(p, 2 * i), Down(p, 2 * n))
           IN  Tree!WithChildren(d2, p, Picked(d2, p, [k \in 1..2 * n - 2 |-> k])) =
                   Tree!RemoveMember(d, p, i)
<1> DEFINE n  == f[p].size
           d  == See(m, f)
           d1 == Tree!Assign(d, Down(p, 2 * i - 1), Down(p, 2 * n - 1))
           d2 == Tree!Assign(d1, Down(p, 2 * i), Down(p, 2 * n))
           us == Picked(d2, p, [k \in 1..2 * n - 2 |-> k])
           ts == Tree!Children(d, p)
<1>1. p \in Path /\ p \in DOMAIN d /\ DOMAIN d \subseteq Path /\ n \in Nat
  BY PlacedPaths, SeeForm DEF CellSet
<1>2. InUse(f[p]) = 2 * n
  BY DEF InUse
<1>3. /\ DOMAIN ts = 1..2 * n /\ Len(ts) = 2 * n
      /\ \A k \in 1..2 * n : ts[k] = Tree!Get(d, Down(p, k))
  BY <1>2, ChildrenForm
<1> HIDE DEF n, d
<1>4. /\ 2 * i - 1 \in Steps /\ 2 * i \in Steps /\ 2 * n - 1 \in Steps /\ 2 * n \in Steps
      /\ i \in Nat /\ i < n /\ 1 <= i
  BY <1>1 DEF Steps, n
<1>5. /\ DOMAIN d1 \subseteq Path /\ p \in DOMAIN d1
      /\ Tree!Get(d1, Down(p, 2 * i - 1)) = Tree!Get(d, Down(p, 2 * n - 1))
      /\ \A k \in Steps \ {2 * i - 1, 2 * n - 1} : Tree!Get(d1, Down(p, k)) = Tree!Get(d, Down(p, k))
      /\ \A vs : Trees(vs) => Tree!WithChildren(d1, p, vs) = Tree!WithChildren(d, p, vs)
  <2>1. 2 * i - 1 # 2 * n - 1
    BY <1>1, <1>4
  <2> QED BY <1>1, <1>4, <2>1, AssignChildren
<1> HIDE DEF d1
<1>6. /\ DOMAIN d2 \subseteq Path
      /\ Tree!Get(d2, Down(p, 2 * i)) = Tree!Get(d1, Down(p, 2 * n))
      /\ \A k \in Steps \ {2 * i, 2 * n} : Tree!Get(d2, Down(p, k)) = Tree!Get(d1, Down(p, k))
      /\ \A vs : Trees(vs) => Tree!WithChildren(d2, p, vs) = Tree!WithChildren(d1, p, vs)
  <2>1. 2 * i # 2 * n
    BY <1>1, <1>4
  <2> QED BY <1>1, <1>4, <1>5, <2>1, AssignChildren
<1> HIDE DEF d2
<1>7. /\ Map(us) /\ DOMAIN us = 1..2 * n - 2 /\ Trees(us)
      /\ \A k \in 1..2 * n - 2 : us[k] = Tree!Get(d2, Down(p, k))
  <2>1. 2 * n - 2 \in Nat
    BY <1>1, <1>4
  <2> QED BY <1>1, <1>6, <2>1, PickedForm
<1> HIDE DEF us, ts
<1>8. IsRemoved(us, ts, Len(ts), i)
  <2>1. ASSUME NEW k \in 1..2 * n - 2
        PROVE  us[k] = IF k = 2 * i - 1 THEN ts[2 * n - 1] ELSE IF k = 2 * i THEN ts[2 * n] ELSE ts[k]
    <3>1. /\ k \in Steps /\ k # 2 * n - 1 /\ k # 2 * n /\ k \in 1..2 * n
          /\ 2 * n - 1 \in 1..2 * n /\ 2 * n \in 1..2 * n
      BY <1>1, <1>4 DEF Steps
    <3>2. us[k] = Tree!Get(d2, Down(p, k))
      BY <1>7
    <3>3. CASE k = 2 * i
      <4>1. 2 * n \in Steps \ {2 * i - 1, 2 * n - 1} /\ k # 2 * i - 1
        BY <1>1, <1>4, <3>3
      <4>2. us[k] = Tree!Get(d, Down(p, 2 * n))
        BY <1>5, <1>6, <3>2, <3>3, <4>1
      <4> QED BY <1>3, <3>1, <3>3, <4>1, <4>2
    <3>4. CASE k = 2 * i - 1
      <4>1. k \in Steps \ {2 * i, 2 * n}
        BY <1>1, <1>4, <3>1, <3>4
      <4>2. us[k] = Tree!Get(d, Down(p, 2 * n - 1))
        BY <1>5, <1>6, <3>2, <3>4, <4>1
      <4> QED BY <1>3, <3>1, <3>4, <4>2
    <3>5. CASE k # 2 * i - 1 /\ k # 2 * i
      <4>1. us[k] = Tree!Get(d, Down(p, k))
        BY <1>5, <1>6, <3>1, <3>2, <3>5
      <4> QED BY <1>3, <3>1, <3>5, <4>1
    <3> QED BY <3>3, <3>4, <3>5
  <2> QED BY <1>3, <1>7, <2>1 DEF IsRemoved
<1>9. Tree!RemoveMember(d, p, i) = Tree!WithChildren(d, p, us)
  BY <1>8, RemovedDoc DEF ts
<1> QED BY <1>5, <1>6, <1>7, <1>9 DEF us, d2, d1, d, n

\* The last member goes: the others stay where they are.
LEMMA LastErasedDoc ==
    ASSUME NEW m, NEW f, Placed(m, f), NEW p \in DOMAIN f, Filled(f[p]), f[p].k = "Object",
           f[p].size # 0
    PROVE  LET n  == f[p].size
               d  == See(m, f)
           IN  Tree!WithChildren(d, p, Picked(d, p, [k \in 1..2 * n - 2 |-> k])) =
                   Tree!RemoveMember(d, p, n)
<1> DEFINE n  == f[p].size
           d  == See(m, f)
           us == Picked(d, p, [k \in 1..2 * n - 2 |-> k])
           ts == Tree!Children(d, p)
<1>1. p \in Path /\ DOMAIN d \subseteq Path /\ n \in Nat \ {0}
  BY PlacedPaths, SeeForm DEF CellSet
<1>2. InUse(f[p]) = 2 * n
  BY DEF InUse
<1>3. /\ DOMAIN ts = 1..2 * n /\ Len(ts) = 2 * n
      /\ \A k \in 1..2 * n : ts[k] = Tree!Get(d, Down(p, k))
  BY <1>2, ChildrenForm
<1> HIDE DEF n, d
<1>4. /\ Map(us) /\ DOMAIN us = 1..2 * n - 2
      /\ \A k \in 1..2 * n - 2 : us[k] = Tree!Get(d, Down(p, k))
  <2>1. 2 * n - 2 \in Nat
    BY <1>1
  <2> QED BY <1>1, <2>1, PickedForm
<1> HIDE DEF us, ts
<1>5. IsRemoved(us, ts, Len(ts), n)
  <2>1. \A k \in 1..2 * n - 2 : k # 2 * n - 1 /\ k # 2 * n /\ k \in 1..2 * n
    BY <1>1
  <2> QED BY <1>3, <1>4, <2>1 DEF IsRemoved
<1>6. Tree!RemoveMember(d, p, n) = Tree!WithChildren(d, p, us)
  BY <1>5, RemovedDoc DEF ts
<1> QED BY <1>6 DEF us, d, n

LEMMA MemberErased ==
    ASSUME NEW m, NEW f, Placed(m, f), ~pool => DOMAIN m \subseteq {0} \cup Used(f),
           NEW p \in DOMAIN f, Filled(f[p]), f[p].k = "Object", f[p].size # 0,
           At(m, Addr(f, p)) = f[p]
    PROVE  \E g : LET m1 == RemoveCells(m, Addr(f, p), f[p].size)
                  IN  /\ Holds(m1, g, Tree!RemoveMember(See(m, f), p, f[p].size))
                      /\ ~pool => DOMAIN m1 \subseteq {0} \cup Used(g)
<1> DEFINE n == f[p].size
           b == f[p].block
           D == Destroy(Destroy(m, <<b, 2 * n - 1>>), <<b, 2 * n>>)
           from == [k \in 1..2 * n - 2 |-> k]
           m1 == Moved(D, Addr(f, p), n - 1, from)
           d1 == Tree!WithChildren(See(m, f), p, Picked(See(m, f), p, from))
<1>1. 2 * n - 1 \in 1..Kids(f[p]) /\ 2 * n \in 1..Kids(f[p]) /\ 2 * n - 1 # 2 * n
  BY PlacedPaths DEF CellSet, Kids, InUse
<1>2. Without(m, f, p, {2 * n - 1, 2 * n}, D)
  BY <1>1, DestroyedTwo
<1> HIDE DEF D
<1>3. PICK g : Holds(m1, g, d1) /\ (~pool => DOMAIN m1 \subseteq {0} \cup Used(g))
  BY <1>2, LastTwoGone
<1>4. d1 = Tree!RemoveMember(See(m, f), p, n)
  BY LastErasedDoc
<1>5. m1 = RemoveCells(m, Addr(f, p), n)
  BY DEF RemoveCells, D
<1> HIDE DEF m1, d1, n
<1>6. /\ Holds(RemoveCells(m, Addr(f, p), n), g, Tree!RemoveMember(See(m, f), p, n))
      /\ ~pool => DOMAIN RemoveCells(m, Addr(f, p), n) \subseteq {0} \cup Used(g)
  BY <1>3, <1>4, <1>5
<1> QED BY <1>6 DEF n

LEMMA NothingGone ==
    ASSUME NEW m, NEW f, NEW p, NEW i, NEW j,
           Used(Tree!Get(f, Down(p, i))) = {}, Used(Tree!Get(f, Down(p, j))) = {}
    PROVE  Without(m, f, p, {i, j}, m)
<1>1. UNION {Used(Tree!Get(f, Down(p, k))) : k \in {i, j}} = {}
  OBVIOUS
<1> QED BY <1>1 DEF Without

LEMMA LastMoved ==
    ASSUME NEW m, NEW f, Placed(m, f), ~pool => DOMAIN m \subseteq {0} \cup Used(f),
           NEW p \in DOMAIN f, Filled(f[p]), f[p].k = "Object", f[p].size # 0,
           At(m, Addr(f, p)) = f[p], NEW i \in 1..f[p].size, i # f[p].size
    PROVE  \E g : LET m1 == RemoveCells(m, Addr(f, p), i)
                  IN  /\ Holds(m1, g, Tree!RemoveMember(See(m, f), p, i))
                      /\ ~pool => DOMAIN m1 \subseteq {0} \cup Used(g)
<1> DEFINE n == f[p].size
           b == f[p].block
           from == [k \in 1..2 * n - 2 |-> k]
           m1 == MoveAssign(m, <<b, 2 * i - 1>>, <<b, 2 * n - 1>>)
           m2 == MoveAssign(m1, <<b, 2 * i>>, <<b, 2 * n>>)
           m3 == Moved(m2, Addr(f, p), n - 1, from)
           d1 == Tree!Assign(See(m, f), Down(p, 2 * i - 1), Down(p, 2 * n - 1))
           d2 == Tree!Assign(d1, Down(p, 2 * i), Down(p, 2 * n))
           d3 == Tree!WithChildren(d2, p, Picked(d2, p, from))
<1>1. /\ n \in Nat /\ Kids(f[p]) = 2 * n /\ i \in Nat /\ 1 <= i /\ i < n
  BY PlacedPaths DEF CellSet, Kids, InUse
<1>2. d3 = Tree!RemoveMember(See(m, f), p, i)
  BY LastMovedDoc
<1>3. m3 = RemoveCells(m, Addr(f, p), i)
  <2>1. n > 1 /\ i # n
    BY <1>1
  <2> HIDE DEF n
  <2> QED BY <2>1 DEF RemoveCells, n
<1> HIDE DEF n, m1, m2, m3, d1, d2, from
<1>4. PICK f1 : Shifted(m, f, p, 2 * i - 1, 2 * n - 1, m1, f1)
  <2>1. 2 * i - 1 \in 1..Kids(f[p]) /\ 2 * n - 1 \in 1..Kids(f[p]) /\ 2 * i - 1 # 2 * n - 1
    BY <1>1
  <2> QED BY <2>1, MoveShift DEF m1
<1>5. /\ Placed(m1, f1) /\ See(m1, f1) = d1
      /\ ~pool => DOMAIN m1 \subseteq {0} \cup Used(f1)
      /\ p \in DOMAIN f1 /\ f1[p] = f[p] /\ Addr(f1, p) = Addr(f, p)
      /\ Tree!Get(f1, Down(p, 2 * n - 1)) = Tree!Leaf(NullCell)
  BY <1>4 DEF Shifted, Holds, d1
<1>6. PICK f2 : Shifted(m1, f1, p, 2 * i, 2 * n, m2, f2)
  <2>1. 2 * i \in 1..Kids(f1[p]) /\ 2 * n \in 1..Kids(f1[p]) /\ 2 * i # 2 * n
    BY <1>1, <1>5
  <2>2. \E f2 : Shifted(m1, f1, p, 2 * i, 2 * n,
                        MoveAssign(m1, <<f1[p].block, 2 * i>>, <<f1[p].block, 2 * n>>), f2)
    BY <1>5, <2>1, MoveShift
  <2> QED BY <1>5, <2>2 DEF m2
<1>7. /\ Placed(m2, f2) /\ See(m2, f2) = d2
      /\ ~pool => DOMAIN m2 \subseteq {0} \cup Used(f2)
      /\ p \in DOMAIN f2 /\ f2[p] = f[p] /\ Addr(f2, p) = Addr(f, p)
      /\ Tree!Get(f2, Down(p, 2 * n)) = Tree!Leaf(NullCell)
  BY <1>5, <1>6 DEF Shifted, Holds, d2
<1>8. Tree!Get(f2, Down(p, 2 * n - 1)) = Tree!Leaf(NullCell)
  <2>1. 2 * n - 1 \in 1..Kids(f1[p]) /\ 2 * n - 1 \notin {2 * i, 2 * n}
    BY <1>1, <1>5
  <2> QED BY <1>5, <1>6, <2>1 DEF Shifted
<1>9. Without(m2, f2, p, {2 * n - 1, 2 * n}, m2)
  BY <1>7, <1>8, NullLeaf, NothingGone
<1>10. PICK g : Holds(m3, g, d3) /\ (~pool => DOMAIN m3 \subseteq {0} \cup Used(g))
  <2>1. Filled(f2[p]) /\ f2[p].k = "Object" /\ f2[p].size = n /\ n # 0
    BY <1>7 DEF n
  <2>2. \E g : /\ Holds(m3, g, Tree!WithChildren(See(m2, f2), p, Picked(See(m2, f2), p, from)))
               /\ ~pool => DOMAIN m3 \subseteq {0} \cup Used(g)
    BY <1>7, <1>9, <2>1, LastTwoGone DEF m3, from
  <2> QED BY <1>7, <2>2
<1> HIDE DEF d3
<1>11. /\ Holds(RemoveCells(m, Addr(f, p), i), g, Tree!RemoveMember(See(m, f), p, i))
       /\ ~pool => DOMAIN RemoveCells(m, Addr(f, p), i) \subseteq {0} \cup Used(g)
  BY <1>2, <1>3, <1>10
<1> QED BY <1>11

LEMMA RemoveMemberStep ==
    ASSUME IInv, NEW p \in Paths, RemoveMember(p)
    PROVE  IInv'
<1>1. PICK f : Holds(mem, f, doc) /\ DOMAIN mem = {0} \cup Used(f)
  BY DEF IInv
<1>2. Placed(mem, f) /\ doc = See(mem, f)
  BY <1>1 DEF Holds
<1>3. /\ p \in DOMAIN f /\ Address(p) = Addr(f, p) /\ At(mem, Addr(f, p)) = f[p]
  BY <1>1, AtPath
<1>4. PICK i \in 1..f[p].size :
          Becomes(RemoveCells(mem, Addr(f, p), i), Tree!RemoveMember(doc, p, i))
  BY <1>3 DEF RemoveMember, Size
<1>5. f[p].k = "Object" /\ f[p].size # 0
  BY <1>3, <1>4 DEF RemoveMember, Is
<1>6. Filled(f[p])
  BY <1>3, <1>5, SizeFilled DEF RemoveMember, Size
<1>7. ~pool => DOMAIN mem \subseteq {0} \cup Used(f)
  BY <1>1
<1> DEFINE m1 == RemoveCells(mem, Addr(f, p), i)
           d1 == Tree!RemoveMember(doc, p, i)
<1>8. \E g : Holds(m1, g, d1) /\ (~pool => DOMAIN m1 \subseteq {0} \cup Used(g))
  <2>1. CASE i = f[p].size
    BY <1>2, <1>3, <1>5, <1>6, <1>7, <2>1, MemberErased
  <2>2. CASE i # f[p].size
    BY <1>2, <1>3, <1>5, <1>6, <1>7, <2>2, LastMoved
  <2> QED BY <2>1, <2>2
<1>9. PICK g : Holds(m1, g, d1) /\ (~pool => DOMAIN m1 \subseteq {0} \cup Used(g))
  BY <1>8
<1>10. Becomes(m1, d1)
  BY <1>4
<1> HIDE DEF m1, d1
<1> QED BY <1>9, <1>10, Settled

-------------------------------------------------------------------------------
\* A tree's top with another capacity, or with a first, empty block.
Recapped(t, c) == [x \in DOMAIN t |-> IF x = <<>> THEN c ELSE t[x]]
SameBut(c, c1) == c1.k = c.k /\ c1.s = c.s /\ c1.size = c.size /\ c.k \in {"Array", "Object"}

LEMMA RecappedStands ==
    ASSUME NEW m, NEW m0, Keeps(m, m0), NEW t, Stands(m, t),
           NEW c, Sound(m0, c), SameBut(t[<<>>], c),
           c.block = t[<<>>].block \/ (t[<<>>].block = 0 /\ c.block \notin DOMAIN m)
    PROVE  /\ Stands(m0, Recapped(t, c)) /\ See(m0, Recapped(t, c)) = See(m, t)
           /\ Used(Recapped(t, c)) = Used(t) \cup ({c.block} \ {0})
           /\ Recapped(t, c)[<<>>] = c
<1> DEFINE u == Recapped(t, c)
           o == t[<<>>]
<1>1. DOMAIN u = DOMAIN t /\ \A x \in DOMAIN t : u[x] = IF x = <<>> THEN c ELSE t[x]
  BY DEF Recapped
<1>2. /\ DOMAIN t \subseteq Path /\ <<>> \in DOMAIN t /\ TreeShape(t) /\ Sound(m, o)
      /\ \A x \in DOMAIN t : Sound(m, t[x])
  BY StandsPaths DEF Stands
<1> HIDE DEF u
<1>3. \A b \in Used(t) : b \in DOMAIN m /\ b \in DOMAIN m0 /\ m0[b] = m[b]
  BY <1>2 DEF Used, Sound, Keeps
<1>4. Stands(m0, t) /\ See(m0, t) = See(m, t)
  BY <1>3, Frame
<1>5. Kids(c) = Kids(o) /\ Shows(m0, c) = Shows(m0, o) /\ c \in CellSet
  BY DEF SameBut, Kids, InUse, Shows, Sound
<1>6. TreeShape(u)
  <2>1. \A x \in DOMAIN u : u[x] \in CellSet /\ Kids(u[x]) = Kids(t[x])
    BY <1>1, <1>2, <1>5 DEF TreeShape
  <2> QED BY <1>1, <1>2, <2>1 DEF TreeShape
<1>7. \A x \in DOMAIN u : Sound(m0, u[x])
  BY <1>1, <1>4, StandsPaths
<1>8. ASSUME NEW x \in DOMAIN u, NEW i \in 1..Kids(u[x]) PROVE u[Down(x, i)] = m0[u[x].block][i]
  <2>1. i \in Steps /\ u[x].block # 0
    BY <1>7, KidsBlock
  <2>2. i \in 1..Kids(t[x]) /\ x \in DOMAIN t /\ Down(x, i) # <<>>
    BY <1>1, <1>2, <1>5, <2>1, PathDown
  <2>3. Down(x, i) \in DOMAIN t /\ t[Down(x, i)] = m0[t[x].block][i]
    BY <1>2, <1>4, <2>1, <2>2 DEF TreeShape, Stands, Body
  <2>4. u[x].block = t[x].block
    <3>1. t[x].block # 0
      BY <1>2, <2>2, KidsBlock
    <3> QED BY <1>1, <2>2, <3>1
  <2> QED BY <1>1, <2>2, <2>3, <2>4
<1>9. ASSUME NEW x \in DOMAIN u, NEW y \in DOMAIN u, u[x].block = u[y].block, u[x].block # 0
      PROVE  x = y
  <2>1. CASE c.block = o.block
    <3>1. u[x].block = t[x].block /\ u[y].block = t[y].block
      BY <1>1, <2>1
    <3> QED BY <1>1, <1>9, <3>1 DEF Stands, Body
  <2>2. CASE o.block = 0
    BY <1>1, <2>2, EmptyTree
  <2> QED BY <2>1, <2>2
<1>10. Stands(m0, u)
  BY <1>6, <1>7, <1>8, <1>9 DEF Stands, Body
<1>11. See(m0, u) = See(m, t)
  <2>1. \A x \in DOMAIN t : Shows(m0, u[x]) = Shows(m0, t[x])
    BY <1>1, <1>5
  <2>2. See(m0, u) = See(m0, t)
    BY <1>1, <2>1 DEF See
  <2> QED BY <1>4, <2>2
<1>12. Used(u) = Used(t) \cup ({c.block} \ {0})
  <2>1. \A x \in DOMAIN t : t[x].block # 0 => u[x].block = t[x].block
    BY <1>1
  <2>2. \A x \in DOMAIN u : u[x].block = t[x].block \/ u[x].block = c.block
    BY <1>1
  <2> QED BY <1>1, <1>2, <2>1, <2>2 DEF Used
<1> QED BY <1>1, <1>2, <1>10, <1>11, <1>12 DEF u

\* p's cell has room for more, the document is the same.
Grew(m, f, p, m1, f1) ==
    /\ Placed(m1, f1) /\ See(m1, f1) = See(m, f)
    /\ DOMAIN m \subseteq {0} \cup Used(f) => DOMAIN m1 \subseteq {0} \cup Used(f1)
    /\ DOMAIN f1 = DOMAIN f
    /\ \A x \in DOMAIN f : x # p => f1[x] = f[x]
    /\ f1[p].k = f[p].k /\ f1[p].size = f[p].size

LEMMA Regrown ==
    ASSUME NEW m, NEW f, Placed(m, f), NEW p \in DOMAIN f,
           NEW m0, Keeps(m, m0), NEW c, Sound(m0, c), SameBut(f[p], c),
           c.block = f[p].block \/ (f[p].block = 0 /\ c.block \notin DOMAIN m),
           DOMAIN m0 \subseteq DOMAIN m \cup {c.block}
    PROVE  \E f1 : Grew(m, f, p, Write(m0, Addr(f, p), c), f1) /\ f1[p] = c
<1> DEFINE t  == Tree!Get(f, p)
           u  == Recapped(t, c)
           f1 == Tree!Put(f, p, u)
           m1 == Write(m0, Addr(f, p), c)
<1>1. /\ p \in Path /\ DOMAIN f \subseteq Path /\ Map(f)
      /\ \A x \in DOMAIN f : x \in Path
  BY PlacedPaths DEF Placed
<1>2. Stands(m, t) /\ t[<<>>] = f[p] /\ See(m, t) = Tree!Get(See(m, f), p)
  BY Cut
<1>3. /\ DOMAIN t \subseteq Path
      /\ \A r \in Path : r \in DOMAIN t <=> Below(p, r) \in DOMAIN f
      /\ \A r \in DOMAIN t : t[r] = f[Below(p, r)]
  BY <1>1, GetForm
<1> HIDE DEF t
<1>4. /\ Stands(m0, u) /\ See(m0, u) = Tree!Get(See(m, f), p)
      /\ Used(u) = Used(t) \cup ({c.block} \ {0}) /\ u[<<>>] = c
  BY <1>2, RecappedStands
<1>5. DOMAIN u = DOMAIN t /\ \A x \in DOMAIN t : u[x] = IF x = <<>> THEN c ELSE t[x]
  BY DEF Recapped
<1> HIDE DEF u
<1>6. /\ Outer(f, p) \cup {0} \subseteq DOMAIN m
      /\ Used(f) = Outer(f, p) \cup Used(t) /\ Outer(f, p) \cap Used(t) = {}
  <2>1. Used(f) \cup {0} \subseteq DOMAIN m
    BY ReachedForest DEF Reached
  <2> QED BY <2>1, UsedSplit DEF t
<1>7. Around(m, m0, f, p)
  <2>1. ASSUME NEW b \in Outer(f, p) \cup {0} PROVE Same(m, m0, b, Addr(f, p))
    <3>1. b \in DOMAIN m /\ b \in DOMAIN m0 /\ m0[b] = m[b]
      BY <1>6 DEF Keeps
    <3> QED BY <3>1 DEF Same
  <2> QED BY <2>1 DEF Around
<1>8. Used(u) \cap Outer(f, p) = {}
  <2>1. c.block = 0 \/ c.block \notin Outer(f, p)
    <3>1. CASE c.block = f[p].block
      <4>1. c.block # 0 => c.block \in Used(t)
        BY <1>2, <3>1, StandsPaths DEF Used
      <4> QED BY <1>6, <4>1
    <3>2. CASE c.block \notin DOMAIN m
      BY <1>6, <3>2
    <3> QED BY <3>1, <3>2
  <2> QED BY <1>4, <1>6, <2>1
<1>9. /\ Placed(m1, f1) /\ See(m1, f1) = Tree!Put(See(m, f), p, See(m0, u))
      /\ DOMAIN m1 = DOMAIN m0 /\ Used(f1) = Outer(f, p) \cup Used(u)
  BY <1>4, <1>7, <1>8, Replace
<1>10. See(m1, f1) = See(m, f)
  <2>1. Map(See(m, f)) /\ DOMAIN See(m, f) \subseteq Path
    BY <1>1, SeeForm
  <2> QED BY <1>1, <1>4, <1>9, <2>1, PutGet
<1>11. DOMAIN u \subseteq Path
  BY <1>3, <1>5
<1>12. ASSUME NEW x \in Path
       PROVE  /\ x \in DOMAIN f1 <=> x \in DOMAIN f
              /\ x \in DOMAIN f => f1[x] = IF x = p THEN c ELSE f[x]
  <2>1. /\ x \in DOMAIN f1 <=> IF Tree!Inside(x, p) THEN Tree!Rest(x, p) \in DOMAIN u ELSE x \in DOMAIN f
        /\ x \in DOMAIN f1 => f1[x] = IF Tree!Inside(x, p) THEN u[Tree!Rest(x, p)] ELSE f[x]
    BY <1>1, <1>11, PutForm
  <2> HIDE DEF f1
  <2>2. CASE Tree!Inside(x, p)
    <3> DEFINE r == Tree!Rest(x, p)
    <3>1. r \in Path /\ Below(p, r) = x /\ (r = <<>> <=> x = p)
      BY <1>1, <2>2, PathRest, PathEmpty, PathSelf
    <3> HIDE DEF r
    <3>2. x \in DOMAIN f1 <=> r \in DOMAIN u
      BY <2>1, <2>2 DEF r
    <3>3. x \in DOMAIN f1 => f1[x] = u[r]
      BY <2>1, <2>2 DEF r
    <3> QED BY <1>3, <1>5, <3>1, <3>2, <3>3
  <2>3. CASE ~Tree!Inside(x, p)
    BY <1>1, <2>1, <2>3, PathSelf
  <2> QED BY <2>2, <2>3
<1>13. DOMAIN f1 \subseteq Path
  BY <1>9, PlacedPaths
<1> HIDE DEF f1, m1
<1>14. DOMAIN f1 = DOMAIN f /\ (\A x \in DOMAIN f : x # p => f1[x] = f[x]) /\ f1[p] = c
  BY <1>1, <1>12, <1>13
<1>15. DOMAIN m \subseteq {0} \cup Used(f) => DOMAIN m1 \subseteq {0} \cup Used(f1)
  BY <1>4, <1>6, <1>9
<1>16. Grew(m, f, p, m1, f1)
  BY <1>9, <1>10, <1>14, <1>15 DEF Grew, SameBut
<1> QED BY <1>14, <1>16 DEF m1

LEMMA Reserving ==
    ASSUME NEW m, NEW f, Placed(m, f), NEW p \in DOMAIN f, f[p].k \in {"Array", "Object"},
           f[p].block = 0 => Room(m), NEW n \in Nat
    PROVE  \E f1 : /\ Grew(m, f, p, Reserve(m, Addr(f, p), n), f1)
                   /\ n > f[p].cap => Filled(f1[p])
<1> DEFINE a == Addr(f, p)
           c == f[p]
<1>1. c \in CellSet /\ Sound(m, c)
  BY PlacedPaths
<1>2. At(m, a) = c
  BY Place DEF At
<1>3. CASE n <= c.cap
  <2>1. Reserve(m, a, n) = m
    BY <1>2, <1>3 DEF Reserve
  <2>2. Grew(m, f, p, m, f)
    BY DEF Grew
  <2>3. ~(n > c.cap)
    BY <1>1, <1>3 DEF CellSet
  <2> QED BY <2>1, <2>2, <2>3
<1>4. CASE ~(n <= c.cap) /\ c.block # 0
  <2> DEFINE c1 == [c EXCEPT !.cap = n]
  <2>1. Reserve(m, a, n) = Write(m, a, c1)
    BY <1>2, <1>4 DEF Reserve
  <2>2. /\ c1 \in CellSet /\ c1.block = c.block /\ c1.k = c.k /\ c1.s = c.s /\ c1.size = c.size
    BY <1>1 DEF CellSet
  <2> HIDE DEF c1
  <2>3. SameBut(c, c1) /\ InUse(c1) = InUse(c) /\ Filled(c1)
    BY <1>4, <2>2 DEF SameBut, InUse, Filled
  <2>4. Sound(m, c1)
    BY <1>1, <1>4, <2>2, <2>3 DEF Sound
  <2>5. Keeps(m, m)
    BY DEF Keeps
  <2>6. PICK f1 : Grew(m, f, p, Write(m, a, c1), f1) /\ f1[p] = c1
    BY <2>2, <2>3, <2>4, <2>5, Regrown
  <2> QED BY <2>1, <2>3, <2>6
<1>5. CASE ~(n <= c.cap) /\ c.block = 0
  <2> DEFINE b == NewBlock(m)
             c1 == [c EXCEPT !.block = b, !.cap = n]
             m0 == Alloc(m)
  <2>1. Reserve(m, a, n) = Write(m0, a, c1)
    BY <1>2, <1>5 DEF Reserve
  <2>2. /\ b \in Nat \ {0} /\ b \notin DOMAIN m /\ DOMAIN m0 = DOMAIN m \cup {b}
        /\ Keeps(m, m0) /\ m0[b] = <<>>
    BY <1>5, Allocated
  <2> HIDE DEF b, m0
  <2>3. /\ c1 \in CellSet /\ c1.block = b /\ c1.k = c.k /\ c1.s = c.s /\ c1.size = c.size
    BY <1>1, <2>2 DEF CellSet
  <2> HIDE DEF c1
  <2>4. SameBut(c, c1) /\ InUse(c1) = InUse(c) /\ Filled(c1)
    BY <2>2, <2>3 DEF SameBut, InUse, Filled
  <2>5. InUse(c) = 0
    BY <1>1, <1>5, KidsNat DEF Sound
  <2>6. Sound(m0, c1)
    BY <1>1, <2>2, <2>3, <2>4, <2>5 DEF Sound
  <2>7. PICK f1 : Grew(m, f, p, Write(m0, a, c1), f1) /\ f1[p] = c1
    BY <1>5, <2>2, <2>3, <2>4, <2>6, Regrown
  <2> QED BY <2>1, <2>4, <2>7
<1> QED BY <1>3, <1>4, <1>5

LEMMA ReserveStep ==
    ASSUME IInv, NEW p \in Paths, ReserveMore(p)
    PROVE  IInv'
<1>1. PICK f : Holds(mem, f, doc) /\ DOMAIN mem = {0} \cup Used(f)
  BY DEF IInv
<1>2. Placed(mem, f) /\ doc = See(mem, f)
  BY <1>1 DEF Holds
<1>3. /\ p \in DOMAIN f /\ Address(p) = Addr(f, p) /\ At(mem, Addr(f, p)) = f[p]
  BY <1>1, AtPath
<1> DEFINE m1 == Reserve(mem, Addr(f, p), Reserved)
<1>4. /\ f[p].k \in {"Array", "Object"} /\ (f[p].block = 0 => Room(mem))
      /\ Becomes(m1, doc)
  BY <1>3 DEF ReserveMore, Is, MayGrow
<1>5. Reserved \in Nat
  BY DomAssumption
<1>6. PICK f1 : Grew(mem, f, p, m1, f1)
  BY <1>2, <1>3, <1>4, <1>5, Reserving
<1> HIDE DEF m1
<1>7. Holds(m1, f1, doc) /\ DOMAIN m1 \subseteq {0} \cup Used(f1)
  BY <1>1, <1>2, <1>6 DEF Grew, Holds
<1> QED BY <1>4, <1>7, Settled

-------------------------------------------------------------------------------
\* In m0 the block of p has the tops of the trees es behind its cells.
Extended(m, f, p, n, es, m0) ==
    /\ n \in Nat /\ Len(es) \in Nat /\ DOMAIN es = 1..Len(es)
    /\ InUse(Sized(f[p], n)) = InUse(f[p]) + Len(es)
    /\ DOMAIN m0 = DOMAIN m
    /\ \A b \in DOMAIN m : b # f[p].block => m0[b] = m[b]
    /\ DOMAIN m0[f[p].block] = 1..InUse(f[p]) + Len(es)
    /\ \A k \in 1..InUse(f[p]) : m0[f[p].block][k] = m[f[p].block][k]
    /\ \A j \in DOMAIN es : m0[f[p].block][InUse(f[p]) + j] = es[j][<<>>]

\* Trees outside of the forest.
Loose(m, f, es) ==
    /\ \A j \in DOMAIN es : Stands(m, es[j]) /\ Used(es[j]) \cap Used(f) = {}
    /\ \A i, j \in DOMAIN es : i # j => Used(es[i]) \cap Used(es[j]) = {}

\* The sequences' trees, one after the other.
Both(ts, n, es) == [k \in 1..n + Len(es) |-> IF k <= n THEN ts[k] ELSE es[k - n]]

LEMMA Appended ==
    ASSUME NEW m, NEW f, Placed(m, f), NEW p \in DOMAIN f, Filled(f[p]),
           NEW n, NEW es, NEW m0, Extended(m, f, p, n, es, m0), Loose(m, f, es)
    PROVE  LET m1 == Write(m0, Addr(f, p), Sized(f[p], n))
               us == Both(Tree!Children(See(m, f), p), InUse(f[p]), SeeAll(m, es))
           IN  \E g : /\ Holds(m1, g, Tree!WithChildren(See(m, f), p, us))
                      /\ DOMAIN m1 = DOMAIN m /\ Used(g) = Used(f) \cup UsedBy(es)
<1> DEFINE b  == f[p].block
           c  == Sized(f[p], n)
           N  == InUse(f[p])
           E  == Len(es)
           ts == [k \in 1..N + E |-> IF k <= N THEN Tree!Get(f, Down(p, k)) ELSE es[k - N]]
           m1 == Write(m0, Addr(f, p), c)
           g  == Tree!Put(f, p, Tree!Over(c, ts))
           us == Both(Tree!Children(See(m, f), p), N, SeeAll(m, es))
           U(i) == Used(Tree!Get(f, Down(p, i)))
           V  == UNION {U(i) : i \in 1..N}
<1>1. p \in Path /\ DOMAIN f \subseteq Path /\ Sound(m, f[p]) /\ n \in Nat /\ E \in Nat
  BY PlacedPaths DEF Extended
<1>2. /\ c \in CellSet /\ c.block = b /\ c.k = f[p].k /\ c.size = n /\ Filled(c)
      /\ Kids(c) = InUse(c) /\ InUse(c) \in Nat /\ Kids(f[p]) = N
      /\ Shows(m0, c) = Tree!Node(f[p].k, <<>>, InUse(c))
      /\ Shows(m, f[p]) = Tree!Node(f[p].k, <<>>, N)
  BY <1>1, SizedForm
<1>3. /\ \A i \in 1..N : b \notin U(i)
      /\ \A i, j \in 1..N : i # j => U(i) \cap U(j) = {}
      /\ Used(Tree!Get(f, p)) = ({b} \ {0}) \cup V
      /\ \A d : d \in V <=> \E i \in 1..N : d \in U(i)
      /\ Outer(f, p) \cap Used(Tree!Get(f, p)) = {}
      /\ Used(f) = Outer(f, p) \cup Used(Tree!Get(f, p))
  BY <1>2, ChildBlocks, UsedSplit
<1>4. b # 0 /\ b \notin Outer(f, p) /\ b \in Used(f) /\ b \in DOMAIN m /\ InUse(c) = N + E /\ N \in Nat
  BY <1>1, <1>3, PlacedPaths, KidsNat DEF Filled, Extended, Sound
<1>5. /\ DOMAIN m0 = DOMAIN m /\ \A d \in DOMAIN m : d # b => m0[d] = m[d]
      /\ DOMAIN m0[b] = 1..N + E
      /\ \A k \in 1..N : m0[b][k] = m[b][k]
      /\ \A j \in 1..E : m0[b][N + j] = es[j][<<>>]
      /\ DOMAIN es = 1..E
  BY DEF Extended
<1>6. Used(f) \cup {0} \subseteq DOMAIN m
  BY ReachedForest DEF Reached
<1>7. /\ DOMAIN ts = 1..N + E
      /\ \A k \in 1..N : ts[k] = Tree!Get(f, Down(p, k))
      /\ \A j \in 1..E : ts[N + j] = es[j]
  BY <1>1, <1>4
<1>8. \A k \in 1..N + E : k \in 1..N \/ \E j \in 1..E : k = N + j
  <2>1. \A k \in 1..N + E : k \notin 1..N => k - N \in 1..E /\ k = N + (k - N)
    BY <1>1, <1>4
  <2> QED BY <2>1
<1> HIDE DEF c, b, N, E, ts, U, V
<1>9. ASSUME NEW k \in 1..N
      PROVE  /\ Stands(m0, ts[k]) /\ ts[k][<<>>] = m0[b][k] /\ Used(ts[k]) = U(k)
             /\ See(m0, ts[k]) = Tree!Get(See(m, f), Down(p, k))
  <2>1. Down(p, k) \in DOMAIN f /\ f[Down(p, k)] = m[b][k]
    BY <1>2, ChildPath DEF b
  <2>2. /\ Stands(m, Tree!Get(f, Down(p, k))) /\ Tree!Get(f, Down(p, k))[<<>>] = f[Down(p, k)]
        /\ See(m, Tree!Get(f, Down(p, k))) = Tree!Get(See(m, f), Down(p, k))
    BY <2>1, Cut
  <2>3. \A d \in U(k) : d \in DOMAIN m0 /\ m0[d] = m[d]
    <3>1. \A d \in U(k) : d \in DOMAIN m /\ d # b
      BY <1>3, <1>6
    <3> QED BY <1>5, <3>1
  <2>4. Stands(m0, Tree!Get(f, Down(p, k))) /\ See(m0, Tree!Get(f, Down(p, k))) = See(m, Tree!Get(f, Down(p, k)))
    BY <2>2, <2>3, Frame DEF U
  <2> QED BY <1>5, <1>7, <2>1, <2>2, <2>4 DEF U
<1>10. ASSUME NEW j \in 1..E
       PROVE  /\ Stands(m0, es[j]) /\ See(m0, es[j]) = See(m, es[j])
              /\ b \notin Used(es[j]) /\ Used(es[j]) \cap Used(f) = {}
  <2>1. Stands(m, es[j]) /\ Used(es[j]) \cap Used(f) = {}
    BY <1>5 DEF Loose
  <2>2. b \notin Used(es[j])
    BY <1>4, <2>1
  <2>3. \A d \in Used(es[j]) : d \in DOMAIN m0 /\ m0[d] = m[d]
    <3>1. \A d \in Used(es[j]) : d \in DOMAIN m
      BY <2>1, StandsPaths DEF Used, Sound
    <3> QED BY <1>5, <2>2, <3>1
  <2>4. Stands(m0, es[j]) /\ See(m0, es[j]) = See(m, es[j])
    BY <2>1, <2>3, Frame
  <2> QED BY <2>1, <2>2, <2>4
<1>11. Joins(m0, c, ts)
  <2>1. Sound(m0, c)
    <3>1. b \in DOMAIN m0 /\ DOMAIN m0[b] = 1..InUse(c)
      BY <1>4, <1>5
    <3> QED BY <1>2, <1>4, <3>1 DEF Sound, Filled
  <2>2. ASSUME NEW k \in DOMAIN ts
        PROVE  Stands(m0, ts[k]) /\ ts[k][<<>>] = m0[b][k] /\ b \notin Used(ts[k])
    <3>1. CASE k \in 1..N
      BY <1>3, <1>9, <3>1
    <3>2. CASE k \notin 1..N
      <4>1. PICK j \in 1..E : k = N + j
        BY <1>7, <1>8, <3>2
      <4> QED BY <1>5, <1>7, <1>10, <4>1
    <3> QED BY <3>1, <3>2
  <2>3. ASSUME NEW k \in DOMAIN ts, NEW l \in DOMAIN ts, k # l
        PROVE  Used(ts[k]) \cap Used(ts[l]) = {}
    <3>0. \A i \in 1..N : U(i) \subseteq Used(f)
      BY <1>3
    <3>1. CASE k \in 1..N /\ l \in 1..N
      BY <1>3, <1>9, <2>3, <3>1
    <3>2. CASE k \in 1..N /\ l \notin 1..N
      <4>1. PICK j \in 1..E : l = N + j
        BY <1>7, <1>8, <3>2
      <4> QED BY <1>7, <1>9, <1>10, <3>0, <3>2, <4>1
    <3>3. CASE k \notin 1..N /\ l \in 1..N
      <4>1. PICK j \in 1..E : k = N + j
        BY <1>7, <1>8, <3>3
      <4> QED BY <1>7, <1>9, <1>10, <3>0, <3>3, <4>1
    <3>4. CASE k \notin 1..N /\ l \notin 1..N
      <4>1. PICK i \in 1..E : k = N + i
        BY <1>7, <1>8, <3>4
      <4>2. PICK j \in 1..E : l = N + j
        BY <1>7, <1>8, <3>4
      <4>3. i # j /\ i \in DOMAIN es /\ j \in DOMAIN es
        BY <1>5, <2>3, <4>1, <4>2
      <4> QED BY <1>7, <4>1, <4>2, <4>3 DEF Loose
    <3> QED BY <3>1, <3>2, <3>3, <3>4
  <2>4. DOMAIN ts = 1..Kids(c)
    BY <1>2, <1>4, <1>7
  <2> QED BY <1>2, <2>1, <2>2, <2>3, <2>4 DEF Joins
<1>12. Around(m, m0, f, p)
  <2>1. ASSUME NEW d \in Outer(f, p) \cup {0} PROVE Same(m, m0, d, Addr(f, p))
    <3>1. d \in DOMAIN m0 /\ d \in DOMAIN m /\ m0[d] = m[d]
      BY <1>3, <1>4, <1>5, <1>6
    <3> QED BY <3>1 DEF Same
  <2> QED BY <2>1 DEF Around
<1>13. UsedBy(ts) = V \cup UsedBy(es)
  <2>1. ASSUME NEW k \in DOMAIN ts, NEW d \in Used(ts[k])
        PROVE  d \in V \cup UsedBy(es)
    <3>1. CASE k \in 1..N
      BY <1>3, <1>9, <2>1, <3>1
    <3>2. CASE k \notin 1..N
      <4>1. PICK j \in 1..E : k = N + j
        BY <1>7, <1>8, <3>2
      <4>2. d \in Used(es[j]) /\ j \in DOMAIN es
        BY <1>5, <1>7, <4>1
      <4> QED BY <4>2 DEF UsedBy
    <3> QED BY <3>1, <3>2
  <2>2. ASSUME NEW i \in 1..N, NEW d \in U(i) PROVE d \in UsedBy(ts)
    <3>1. i \in DOMAIN ts
      BY <1>1, <1>4, <1>7
    <3> QED BY <1>9, <3>1 DEF UsedBy
  <2>3. ASSUME NEW j \in DOMAIN es, NEW d \in Used(es[j]) PROVE d \in UsedBy(ts)
    <3>1. N + j \in DOMAIN ts /\ ts[N + j] = es[j]
      BY <1>1, <1>4, <1>5, <1>7
    <3> QED BY <3>1 DEF UsedBy
  <2>4. UsedBy(ts) \subseteq V \cup UsedBy(es)
    BY <2>1 DEF UsedBy
  <2>5. V \subseteq UsedBy(ts)
    BY <1>3, <2>2
  <2>6. UsedBy(es) \subseteq UsedBy(ts)
    <3>1. \A d \in UsedBy(es) : \E j \in DOMAIN es : d \in Used(es[j])
      BY DEF UsedBy
    <3> QED BY <2>3, <3>1
  <2> QED BY <2>4, <2>5, <2>6
<1>14. c.block \notin Outer(f, p) /\ UsedBy(ts) \cap Outer(f, p) = {}
  <2>1. UsedBy(es) \cap Used(f) = {}
    BY <1>5, <1>10 DEF UsedBy
  <2> QED BY <1>2, <1>3, <1>4, <1>13, <2>1
<1>15. /\ Placed(m1, g)
       /\ See(m1, g) = Tree!Put(See(m, f), p, Tree!Over(Shows(m0, c), SeeAll(m0, ts)))
       /\ DOMAIN m1 = DOMAIN m0
       /\ Used(g) = Outer(f, p) \cup ({c.block} \ {0}) \cup UsedBy(ts)
  BY <1>11, <1>12, <1>14, Refilled
<1>16. Used(g) = Used(f) \cup UsedBy(es)
  BY <1>2, <1>3, <1>4, <1>13, <1>15
<1>17. SeeAll(m0, ts) = us /\ Map(us) /\ DOMAIN us = 1..N + E
  <2> DEFINE cs == Tree!Children(See(m, f), p)
             se == SeeAll(m, es)
  <2>1. \A k \in 1..N : cs[k] = Tree!Get(See(m, f), Down(p, k))
    BY ChildrenForm DEF N
  <2>2. DOMAIN se = 1..E /\ Map(se) /\ \A j \in 1..E : se[j] = See(m, es[j])
    BY <1>5 DEF SeeAll, Map
  <2> HIDE DEF cs, se
  <2>3. Len(se) = E
    BY <1>1, <2>2, LenOf DEF E
  <2>4. /\ us = [k \in 1..N + E |-> IF k <= N THEN cs[k] ELSE se[k - N]]
    BY <2>3 DEF Both, cs, se
  <2>5. Map(us) /\ DOMAIN us = 1..N + E /\ \A k \in 1..N + E : us[k] = IF k <= N THEN cs[k] ELSE se[k - N]
    BY <2>4 DEF Map
  <2>6. Map(SeeAll(m0, ts)) /\ DOMAIN SeeAll(m0, ts) = 1..N + E
        /\ \A k \in 1..N + E : SeeAll(m0, ts)[k] = See(m0, ts[k])
    BY <1>7 DEF SeeAll, Map
  <2> HIDE DEF us
  <2>7. ASSUME NEW k \in 1..N + E PROVE SeeAll(m0, ts)[k] = us[k]
    <3>1. CASE k \in 1..N
      <4>1. k <= N
        BY <1>4, <3>1
      <4> QED BY <1>9, <2>1, <2>5, <2>6, <3>1, <4>1
    <3>2. CASE k \notin 1..N
      <4>1. PICK j \in 1..E : k = N + j
        BY <1>8, <3>2
      <4>2. ~(k <= N) /\ k - N = j
        BY <1>1, <1>4, <4>1
      <4>3. ts[k] = es[j]
        BY <1>7, <4>1
      <4> QED BY <1>10, <2>2, <2>5, <2>6, <4>1, <4>2, <4>3
    <3> QED BY <3>1, <3>2
  <2>8. SeeAll(m0, ts) = us
    BY <2>5, <2>6, <2>7, MapEqual
  <2> QED BY <2>5, <2>8
<1>18. Tree!Put(See(m, f), p, Tree!Over(Shows(m0, c), SeeAll(m0, ts))) =
           Tree!WithChildren(See(m, f), p, us)
  <2> HIDE DEF us
  <2>1. Len(us) = InUse(c)
    BY <1>2, <1>4, <1>17, LenOf
  <2>2. See(m, f)[p] = Tree!Node(f[p].k, <<>>, N)
    BY <1>2, SeeForm
  <2>3. [See(m, f)[p] EXCEPT !.n = Len(us)] = Shows(m0, c)
    BY <1>2, <2>1, <2>2 DEF Tree!Node
  <2> QED BY <1>17, <2>3 DEF Tree!WithChildren
<1> HIDE DEF m1, g, us
<1>19. /\ Holds(m1, g, Tree!WithChildren(See(m, f), p, us))
       /\ DOMAIN m1 = DOMAIN m /\ Used(g) = Used(f) \cup UsedBy(es)
  BY <1>5, <1>15, <1>16, <1>18 DEF Holds
<1>20. \E h : /\ Holds(m1, h, Tree!WithChildren(See(m, f), p, us))
              /\ DOMAIN m1 = DOMAIN m /\ Used(h) = Used(f) \cup UsedBy(es)
  BY <1>19
<1> QED BY <1>20 DEF m1, us, c, N

-------------------------------------------------------------------------------
LEMMA BothOne ==
    ASSUME NEW n \in Nat, NEW ts, Map(ts), DOMAIN ts = 1..n,
           NEW es, Map(es), DOMAIN es = 1..1
    PROVE  Both(ts, n, es) = Append(ts, es[1])
<1> DEFINE R == {ts[k] : k \in 1..n}
<1>1. ts \in [1..n -> R]
  BY DEF Map
<1>2. ts \in Seq(R) /\ Len(ts) = n /\ Len(es) = 1
  <2> HIDE DEF R
  <2>1. ts \in Seq(R)
    BY <1>1, SeqDef
  <2>2. Len(ts) = n /\ Len(es) = 1
    BY LenOf
  <2> QED BY <2>1, <2>2
<1> HIDE DEF R
<1>3. Both(ts, n, es) = [k \in 1..n + 1 |-> IF k <= n THEN ts[k] ELSE es[k - n]]
  BY <1>2 DEF Both
<1>4. Append(ts, es[1]) = [k \in 1..n + 1 |-> IF k <= n THEN ts[k] ELSE es[1]]
  BY <1>2
<1>5. \A k \in 1..n + 1 : ~(k <= n) => k - n = 1
  OBVIOUS
<1> QED BY <1>3, <1>4, <1>5

LEMMA BothTwo ==
    ASSUME NEW n \in Nat, NEW ts, Map(ts), DOMAIN ts = 1..n,
           NEW es, Map(es), DOMAIN es = 1..2
    PROVE  Both(ts, n, es) = ts \o <<es[1], es[2]>>
<1> DEFINE R == {ts[k] : k \in 1..n}
<1>1. ts \in [1..n -> R]
  BY DEF Map
<1>2. ts \in Seq(R) /\ Len(ts) = n /\ Len(es) = 2
  <2> HIDE DEF R
  <2>1. ts \in Seq(R)
    BY <1>1, SeqDef
  <2>2. Len(ts) = n /\ Len(es) = 2
    BY LenOf
  <2> QED BY <2>1, <2>2
<1> HIDE DEF R
<1>3. Both(ts, n, es) = [k \in 1..n + 2 |-> IF k <= n THEN ts[k] ELSE es[k - n]]
  BY <1>2 DEF Both
<1>4. ts \o <<es[1], es[2]>> = [k \in 1..n + 2 |-> IF k <= n THEN ts[k] ELSE <<es[1], es[2]>>[k - n]]
  BY <1>2
<1>5. \A k \in 1..n + 2 : ~(k <= n) => k - n = 1 \/ k - n = 2
  OBVIOUS
<1> QED BY <1>3, <1>4, <1>5

\* Taking q's value away leaves p, and what p's children are.
LEMMA HandedOver ==
    ASSUME NEW m, NEW f, Placed(m, f), NEW p \in DOMAIN f, Filled(f[p]),
           NEW q \in DOMAIN f, Tree!Apart(p, q)
    PROVE  LET mA == Write(m, Addr(f, q), NullCell)
               fA == Tree!Put(f, q, Tree!Leaf(NullCell))
           IN  /\ Nulled(m, f, q, mA, fA)
               /\ p \in DOMAIN fA /\ fA[p] = f[p] /\ Addr(fA, p) = Addr(f, p)
               /\ Tree!Children(See(mA, fA), p) = Tree!Children(See(m, f), p)
<1> DEFINE mA == Write(m, Addr(f, q), NullCell)
           fA == Tree!Put(f, q, Tree!Leaf(NullCell))
           N  == InUse(f[p])
<1>1. /\ p \in Path /\ q \in Path /\ DOMAIN f \subseteq Path /\ ~Tree!Inside(p, q) /\ ~Tree!Inside(q, p)
  BY PlacedPaths DEF Tree!Apart
<1>2. Nulled(m, f, q, mA, fA)
  BY NullOut
<1>3. Addr(fA, p) = Addr(f, p) /\ p \in DOMAIN fA
  BY <1>1, NullLeaf, AddrPut
<1>4. fA[p] = f[p]
  BY <1>1, <1>3, NullLeaf, PutForm
<1> HIDE DEF fA, mA
<1>5. Placed(mA, fA) /\ See(mA, fA) = Tree!Put(See(m, f), q, Tree!Leaf(Tree!Null))
  BY <1>2 DEF Nulled
<1> DEFINE ts == Tree!Children(See(m, f), p)
           us == Tree!Children(See(mA, fA), p)
<1>6. /\ Map(ts) /\ DOMAIN ts = 1..N /\ N \in Nat
      /\ \A i \in 1..N : ts[i] = Tree!Get(See(m, f), Down(p, i))
  BY ChildrenForm
<1>7. /\ Map(us) /\ DOMAIN us = 1..N
      /\ \A i \in 1..N : us[i] = Tree!Get(See(mA, fA), Down(p, i))
  BY <1>3, <1>4, <1>5, ChildrenForm
<1> HIDE DEF N, ts, us
<1>8. ASSUME NEW i \in 1..N PROVE us[i] = ts[i]
  <2> DEFINE x == Down(p, i)
  <2>1. i \in Steps /\ x \in Path /\ Tree!Inside(x, p)
    <3>1. i \in Nat
      BY <1>6
    <3>2. i \in Steps
      BY <3>1 DEF Steps
    <3> QED BY <1>1, <3>2, PathDown
  <2>2. ~Tree!Inside(q, x)
    BY <1>1, <2>1, PathOrder
  <2>3. ~Tree!Inside(x, q)
    <3>1. x # q
      BY <1>1, <2>1
    <3> QED BY <1>1, <2>1, <3>1, PathInside
  <2>4. Tree!Apart(q, x)
    BY <2>2, <2>3 DEF Tree!Apart
  <2> HIDE DEF x
  <2>5. Tree!Get(See(mA, fA), x) = Tree!Get(See(m, f), x)
    BY <1>1, <1>5, <2>1, <2>4, NullLeaf, SeeForm, GetPutApart
  <2> QED BY <1>6, <1>7, <2>5 DEF x
<1>9. us = ts
  BY <1>6, <1>7, <1>8, MapEqual
<1> QED BY <1>2, <1>3, <1>4, <1>9 DEF us, ts, fA, mA

LEMMA PushHolds ==
    ASSUME NEW m, NEW f, Placed(m, f), NEW p \in DOMAIN f, Filled(f[p]), f[p].k = "Array",
           NEW q \in DOMAIN f, Tree!Apart(p, q)
    PROVE  LET c  == f[p]
               m1 == Write(RawAssign(m, <<c.block, c.size + 1>>, Addr(f, q)), Addr(f, p),
                           Sized(c, c.size + 1))
           IN  \E g : /\ Holds(m1, g, Tree!PushBack(See(m, f), p, q))
                      /\ DOMAIN m1 = DOMAIN m /\ Used(g) = Used(f)
<1> DEFINE c  == f[p]
           a  == Addr(f, p)
           b  == Addr(f, q)
           e  == <<c.block, c.size + 1>>
           t  == Tree!Get(f, q)
           es == [k \in 1..1 |-> t]
           mA == Write(m, b, NullCell)
           fA == Tree!Put(f, q, Tree!Leaf(NullCell))
           m0 == Write(mA, e, t[<<>>])
           m1 == Write(m0, a, Sized(c, c.size + 1))
           us == Both(Tree!Children(See(mA, fA), p), InUse(c), SeeAll(mA, es))
<1>1. /\ Nulled(m, f, q, mA, fA)
      /\ p \in DOMAIN fA /\ fA[p] = c /\ Addr(fA, p) = a
      /\ Tree!Children(See(mA, fA), p) = Tree!Children(See(m, f), p)
  BY HandedOver
<1>2. /\ Placed(mA, fA) /\ DOMAIN mA = DOMAIN m
      /\ See(mA, fA) = Tree!Put(See(m, f), q, Tree!Leaf(Tree!Null))
      /\ Stands(mA, t) /\ See(mA, t) = Tree!Get(See(m, f), q)
      /\ Used(f) = Used(fA) \cup Used(t) /\ Used(fA) \cap Used(t) = {}
      /\ t[<<>>] = f[q]
  BY <1>1 DEF Nulled
<1>3. /\ Sound(mA, c) /\ c \in CellSet /\ c.size \in Nat /\ InUse(c) = c.size
      /\ c.block \in DOMAIN mA /\ DOMAIN mA[c.block] = 1..c.size
  <2>1. Sound(mA, c)
    BY <1>1, <1>2, PlacedPaths
  <2> QED BY <2>1 DEF Sound, CellSet, InUse, Filled
<1>4. Sized(c, c.size + 1).size = c.size + 1 /\ InUse(Sized(c, c.size + 1)) = c.size + 1
  BY <1>3 DEF Sized, CellSet, InUse
<1>5. DOMAIN es = 1..1 /\ Map(es) /\ es[1] = t /\ Len(es) = 1
  <2>1. DOMAIN es = 1..1 /\ Map(es) /\ es[1] = t
    BY DEF Map
  <2> QED BY <2>1, LenOf
<1>6. /\ a[1] \in DOMAIN m /\ b[1] \in DOMAIN m /\ b[2] \in DOMAIN m[b[1]] /\ m[b[1]][b[2]] = f[q]
      /\ c.block \in DOMAIN m /\ DOMAIN m[c.block] = 1..c.size
  <2>1. Sound(m, c)
    BY PlacedPaths
  <2> QED BY <1>3, <2>1, Place DEF Sound, Filled
<1> HIDE DEF mA, fA, t, es, c, a, b
<1>7. Extended(mA, fA, p, c.size + 1, es, m0)
  <2>1. /\ DOMAIN m0 = DOMAIN mA
        /\ \A d \in DOMAIN mA : d # c.block => m0[d] = mA[d]
        /\ DOMAIN m0[c.block] = DOMAIN mA[c.block] \cup {c.size + 1}
        /\ m0[c.block][c.size + 1] = t[<<>>]
        /\ \A i \in DOMAIN mA[c.block] : i # c.size + 1 => m0[c.block][i] = mA[c.block][i]
    <3> DEFINE v == t[<<>>]
    <3> HIDE DEF v
    <3> QED BY <1>3, WriteForm DEF v
  <2> HIDE DEF m0
  <2>2. DOMAIN m0[c.block] = 1..c.size + 1
    BY <1>3, <2>1
  <2>3. ASSUME NEW i \in 1..c.size PROVE m0[c.block][i] = mA[c.block][i]
    <3>1. i # c.size + 1 /\ i \in DOMAIN mA[c.block]
      BY <1>3
    <3> QED BY <2>1, <3>1
  <2> QED BY <1>1, <1>3, <1>4, <1>5, <2>1, <2>2, <2>3 DEF Extended
<1>8. Loose(mA, fA, es)
  BY <1>2, <1>5 DEF Loose
<1>9. UsedBy(es) = Used(t)
  BY <1>5 DEF UsedBy
<1>10. PICK g : /\ Holds(m1, g, Tree!WithChildren(See(mA, fA), p, us))
                /\ DOMAIN m1 = DOMAIN mA /\ Used(g) = Used(fA) \cup UsedBy(es)
  <2> HIDE DEF m0
  <2>1. Filled(fA[p])
    BY <1>1 DEF c
  <2>2. \E g : /\ Holds(Write(m0, Addr(fA, p), Sized(fA[p], c.size + 1)), g,
                        Tree!WithChildren(See(mA, fA), p,
                            Both(Tree!Children(See(mA, fA), p), InUse(fA[p]), SeeAll(mA, es))))
               /\ DOMAIN Write(m0, Addr(fA, p), Sized(fA[p], c.size + 1)) = DOMAIN mA
               /\ Used(g) = Used(fA) \cup UsedBy(es)
    BY <1>1, <1>2, <1>7, <1>8, <2>1, Appended
  <2> QED BY <1>1, <2>2
<1>11. Tree!WithChildren(See(mA, fA), p, us) = Tree!PushBack(See(m, f), p, q)
  <2> DEFINE ts == Tree!Children(See(m, f), p)
             se == SeeAll(mA, es)
  <2>1. Map(ts) /\ DOMAIN ts = 1..InUse(c) /\ InUse(c) \in Nat
    BY ChildrenForm DEF c
  <2>2. Map(se) /\ DOMAIN se = 1..1 /\ se[1] = See(mA, t)
    BY <1>5 DEF SeeAll, Map
  <2> HIDE DEF ts, se
  <2>3. Both(ts, InUse(c), se) = Append(ts, se[1])
    BY <2>1, <2>2, BothOne
  <2>4. us = Append(ts, Tree!Get(See(m, f), q))
    BY <1>1, <1>2, <2>2, <2>3 DEF ts, se
  <2> QED BY <1>2, <2>4 DEF Tree!PushBack, ts
<1>12. m0 = RawAssign(m, e, b)
  <2>1. RawAssign(m, e, b) = Write(Write(m, e, f[q]), b, NullCell)
    BY <1>6 DEF RawAssign, At
  <2>2. c.block # b[1] \/ c.size + 1 # b[2]
    BY <1>3, <1>6
  <2>3. e[1] = c.block /\ e[2] = c.size + 1
    OBVIOUS
  <2> HIDE DEF e
  <2>4. Write(Write(m, e, f[q]), b, NullCell) = Write(Write(m, b, NullCell), e, f[q])
    BY <1>6, <2>2, <2>3, WriteSwap
  <2> QED BY <1>2, <2>1, <2>4 DEF mA
<1> HIDE DEF m0, us
<1>13. /\ Holds(m1, g, Tree!PushBack(See(m, f), p, q))
       /\ DOMAIN m1 = DOMAIN m /\ Used(g) = Used(f)
  BY <1>2, <1>9, <1>10, <1>11
<1>14. m1 = Write(RawAssign(m, e, b), a, Sized(c, c.size + 1))
  BY <1>12
<1> HIDE DEF m1
<1> QED BY <1>13, <1>14 DEF c, a, b

LEMMA AddHolds ==
    ASSUME NEW m, NEW f, Placed(m, f), NEW p \in DOMAIN f, Filled(f[p]), f[p].k = "Object",
           NEW q \in DOMAIN f, Tree!Apart(p, q), NEW name \in Names
    PROVE  LET c  == f[p]
               named == Write(m, <<c.block, 2 * c.size + 1>>, Const(name))
               m1 == Write(RawAssign(named, <<c.block, 2 * c.size + 2>>, Addr(f, q)), Addr(f, p),
                           Sized(c, c.size + 1))
           IN  \E g : /\ Holds(m1, g, Tree!AddMember(See(m, f), p, name, q))
                      /\ DOMAIN m1 = DOMAIN m /\ Used(g) = Used(f)
<1> DEFINE c  == f[p]
           a  == Addr(f, p)
           b  == Addr(f, q)
           n  == 2 * c.size
           e1 == <<c.block, n + 1>>
           e2 == <<c.block, n + 2>>
           l  == Tree!Leaf(Const(name))
           t  == Tree!Get(f, q)
           es == [k \in 1..2 |-> IF k = 1 THEN l ELSE t]
           mA == Write(m, b, NullCell)
           fA == Tree!Put(f, q, Tree!Leaf(NullCell))
           mB == Write(mA, e1, Const(name))
           m0 == Write(mB, e2, t[<<>>])
           m1 == Write(m0, a, Sized(c, c.size + 1))
           us == Both(Tree!Children(See(mA, fA), p), InUse(c), SeeAll(mA, es))
<1>1. /\ Nulled(m, f, q, mA, fA)
      /\ p \in DOMAIN fA /\ fA[p] = c /\ Addr(fA, p) = a
      /\ Tree!Children(See(mA, fA), p) = Tree!Children(See(m, f), p)
  BY HandedOver
<1>2. /\ Placed(mA, fA) /\ DOMAIN mA = DOMAIN m
      /\ See(mA, fA) = Tree!Put(See(m, f), q, Tree!Leaf(Tree!Null))
      /\ Stands(mA, t) /\ See(mA, t) = Tree!Get(See(m, f), q)
      /\ Used(f) = Used(fA) \cup Used(t) /\ Used(fA) \cap Used(t) = {}
      /\ t[<<>>] = f[q]
  BY <1>1 DEF Nulled
<1>3. /\ Sound(mA, c) /\ c \in CellSet /\ c.size \in Nat /\ InUse(c) = n /\ n \in Nat
      /\ c.block \in DOMAIN mA /\ DOMAIN mA[c.block] = 1..n
  <2>1. Sound(mA, c)
    BY <1>1, <1>2, PlacedPaths
  <2> QED BY <2>1 DEF Sound, CellSet, InUse, Filled
<1>4. Sized(c, c.size + 1).size = c.size + 1 /\ InUse(Sized(c, c.size + 1)) = n + 2
  BY <1>3 DEF Sized, CellSet, InUse
<1>5. DOMAIN es = 1..2 /\ Map(es) /\ es[1] = l /\ es[2] = t /\ Len(es) = 2
  <2>1. DOMAIN es = 1..2 /\ Map(es) /\ es[1] = l /\ es[2] = t
    BY DEF Map
  <2> HIDE DEF es
  <2> QED BY <2>1, LenOf
<1>6. /\ a[1] \in DOMAIN m /\ b[1] \in DOMAIN m /\ b[2] \in DOMAIN m[b[1]] /\ m[b[1]][b[2]] = f[q]
      /\ c.block \in DOMAIN m /\ DOMAIN m[c.block] = 1..n
  <2>1. Sound(m, c)
    BY PlacedPaths
  <2> QED BY <1>3, <2>1, Place DEF Sound, Filled
<1>7. /\ Stands(mA, l) /\ l[<<>>] = Const(name) /\ Used(l) = {}
      /\ See(mA, l) = Tree!Leaf(Tree!Str(name))
  <2>1. Sound(mA, Const(name)) /\ Kids(Const(name)) = 0 /\ Const(name).block = 0
    BY DEF Sound, Const, Cell, CellSet, Kids, Values
  <2>2. Shows(mA, Const(name)) = Tree!Str(name)
    BY DEF Shows, Const, Cell
  <2> HIDE DEF mA
  <2> QED BY <2>1, <2>2, LeafStands
<1> HIDE DEF mA, fA, t, l, es, c, a, b, n
<1>8. Extended(mA, fA, p, c.size + 1, es, m0)
  <2> DEFINE v == t[<<>>]
             w == Const(name)
  <2> HIDE DEF v, w
  <2>1. /\ DOMAIN mB = DOMAIN mA
        /\ \A d \in DOMAIN mA : d # c.block => mB[d] = mA[d]
        /\ DOMAIN mB[c.block] = DOMAIN mA[c.block] \cup {n + 1}
        /\ mB[c.block][n + 1] = w
        /\ \A i \in DOMAIN mA[c.block] : i # n + 1 => mB[c.block][i] = mA[c.block][i]
    BY <1>3, WriteForm DEF w
  <2> HIDE DEF mB
  <2>2. /\ DOMAIN m0 = DOMAIN mB
        /\ \A d \in DOMAIN mB : d # c.block => m0[d] = mB[d]
        /\ DOMAIN m0[c.block] = DOMAIN mB[c.block] \cup {n + 2}
        /\ m0[c.block][n + 2] = v
        /\ \A i \in DOMAIN mB[c.block] : i # n + 2 => m0[c.block][i] = mB[c.block][i]
    BY <1>3, <2>1, WriteForm DEF v
  <2> HIDE DEF m0
  <2>3. DOMAIN m0[c.block] = 1..n + 2
    BY <1>3, <2>1, <2>2
  <2>4. ASSUME NEW i \in 1..n PROVE m0[c.block][i] = mA[c.block][i]
    <3>1. i # n + 1 /\ i # n + 2 /\ i \in DOMAIN mA[c.block]
      BY <1>3
    <3> QED BY <2>1, <2>2, <3>1
  <2>5. m0[c.block][n + 1] = w
    <3>1. n + 1 # n + 2
      BY <1>3
    <3> QED BY <2>1, <2>2, <3>1
  <2>6. ASSUME NEW d \in DOMAIN mA, d # c.block PROVE m0[d] = mA[d]
    BY <2>1, <2>2, <2>6
  <2>7. ASSUME NEW j \in DOMAIN es PROVE m0[c.block][n + j] = es[j][<<>>]
    <3>1. j = 1 \/ j = 2
      BY <1>5
    <3> QED BY <1>5, <1>7, <2>2, <2>5, <3>1 DEF v, w
  <2>8. DOMAIN m0 = DOMAIN mA
    BY <2>1, <2>2
  <2> QED BY <1>1, <1>3, <1>4, <1>5, <2>3, <2>4, <2>6, <2>7, <2>8 DEF Extended
<1>9. Loose(mA, fA, es)
  <2>1. ASSUME NEW j \in DOMAIN es PROVE Stands(mA, es[j]) /\ Used(es[j]) \cap Used(fA) = {}
    <3>1. j = 1 \/ j = 2
      BY <1>5
    <3> QED BY <1>2, <1>5, <1>7, <3>1
  <2>2. ASSUME NEW i \in DOMAIN es, NEW j \in DOMAIN es, i # j PROVE Used(es[i]) \cap Used(es[j]) = {}
    <3>1. (i = 1 /\ j = 2) \/ (i = 2 /\ j = 1)
      BY <1>5, <2>2
    <3> QED BY <1>5, <1>7, <3>1
  <2> QED BY <2>1, <2>2 DEF Loose
<1>10. UsedBy(es) = Used(t)
  <2>1. \A j \in DOMAIN es : j = 1 \/ j = 2
    BY <1>5
  <2>2. 2 \in DOMAIN es
    BY <1>5
  <2> QED BY <1>5, <1>7, <2>1, <2>2 DEF UsedBy
<1>11. PICK g : /\ Holds(m1, g, Tree!WithChildren(See(mA, fA), p, us))
                /\ DOMAIN m1 = DOMAIN mA /\ Used(g) = Used(fA) \cup UsedBy(es)
  <2> HIDE DEF m0
  <2>1. Filled(fA[p])
    BY <1>1 DEF c
  <2>2. \E g : /\ Holds(Write(m0, Addr(fA, p), Sized(fA[p], c.size + 1)), g,
                        Tree!WithChildren(See(mA, fA), p,
                            Both(Tree!Children(See(mA, fA), p), InUse(fA[p]), SeeAll(mA, es))))
               /\ DOMAIN Write(m0, Addr(fA, p), Sized(fA[p], c.size + 1)) = DOMAIN mA
               /\ Used(g) = Used(fA) \cup UsedBy(es)
    BY <1>1, <1>2, <1>8, <1>9, <2>1, Appended
  <2> QED BY <1>1, <2>2
<1>12. Tree!WithChildren(See(mA, fA), p, us) = Tree!AddMember(See(m, f), p, name, q)
  <2> DEFINE ts == Tree!Children(See(m, f), p)
             se == SeeAll(mA, es)
  <2>1. Map(ts) /\ DOMAIN ts = 1..InUse(c) /\ InUse(c) \in Nat
    BY ChildrenForm DEF c
  <2>2. Map(se) /\ DOMAIN se = 1..2 /\ se[1] = See(mA, l) /\ se[2] = See(mA, t)
    BY <1>5 DEF SeeAll, Map
  <2> HIDE DEF ts, se
  <2>3. Both(ts, InUse(c), se) = ts \o <<se[1], se[2]>>
    BY <2>1, <2>2, BothTwo
  <2>4. us = ts \o <<Tree!Leaf(Tree!Str(name)), Tree!Get(See(m, f), q)>>
    BY <1>1, <1>2, <1>7, <2>2, <2>3 DEF ts, se
  <2> QED BY <1>2, <2>4 DEF Tree!AddMember, ts
<1>13. m0 = RawAssign(Write(m, e1, Const(name)), e2, b)
  <2> DEFINE w == Const(name)
             mN == Write(m, e1, w)
  <2> HIDE DEF w
  <2>0. b[1] = c.block => b[2] # n + 1 /\ b[2] # n + 2
    BY <1>3, <1>6
  <2>1. /\ DOMAIN mN = DOMAIN m /\ At(mN, b) = f[q]
    <3>1. CASE b[1] = c.block
      <4>1. mN[b[1]][b[2]] = m[b[1]][b[2]]
        BY <1>6, <2>0, <3>1, WriteForm
      <4> QED BY <1>6, <4>1, WriteForm DEF At
    <3>2. CASE b[1] # c.block
      <4>1. mN[b[1]] = m[b[1]]
        BY <1>6, <3>2, WriteForm
      <4> QED BY <1>6, <4>1, WriteForm DEF At
    <3> QED BY <3>1, <3>2
  <2>2. RawAssign(mN, e2, b) = Write(Write(mN, e2, f[q]), b, NullCell)
    BY <2>1 DEF RawAssign
  <2>3. e1[1] = c.block /\ e1[2] = n + 1 /\ e2[1] = c.block /\ e2[2] = n + 2
    OBVIOUS
  <2> HIDE DEF e1, e2
  <2>4. Write(mN, b, NullCell) = Write(mA, e1, w)
    BY <1>6, <2>0, <2>3, WriteSwap DEF mA
  <2> HIDE DEF mN
  <2>5. Write(Write(mN, e2, f[q]), b, NullCell) = Write(Write(mN, b, NullCell), e2, f[q])
    BY <1>6, <2>0, <2>1, <2>3, WriteSwap
  <2>6. mB = Write(mN, b, NullCell)
    BY <2>4 DEF w
  <2>7. m0 = Write(mB, e2, f[q])
    BY <1>2
  <2> QED BY <2>2, <2>5, <2>6, <2>7 DEF mN, w
<1> HIDE DEF m0, us
<1>14. /\ Holds(m1, g, Tree!AddMember(See(m, f), p, name, q))
       /\ DOMAIN m1 = DOMAIN m /\ Used(g) = Used(f)
  BY <1>2, <1>10, <1>11, <1>12
<1>15. m1 = Write(RawAssign(Write(m, e1, Const(name)), e2, b), a, Sized(c, c.size + 1))
  BY <1>13
<1> HIDE DEF m1
<1> QED BY <1>14, <1>15 DEF c, a, b, n

-------------------------------------------------------------------------------
\* When the block is full it grows, so there is room behind its last cell.
LEMMA Growing ==
    ASSUME NEW m, NEW f, Placed(m, f), NEW p \in DOMAIN f, f[p].k \in {"Array", "Object"},
           f[p].block = 0 => Room(m)
    PROVE  \E f1 : Grew(m, f, p, Grown(m, Addr(f, p)), f1) /\ Filled(f1[p])
<1> DEFINE a == Addr(f, p)
           c == f[p]
           n == IF c.cap = 0 THEN Default ELSE c.cap + (c.cap + 1) \div 2
<1>1. c \in CellSet /\ Sound(m, c) /\ c.size \in Nat /\ c.cap \in Nat
  BY PlacedPaths DEF CellSet
<1>2. At(m, a) = c
  BY Place DEF At
<1>3. CASE c.size < c.cap
  <2>1. Grown(m, a) = m
    BY <1>2, <1>3 DEF Grown
  <2>2. Grew(m, f, p, m, f)
    BY DEF Grew
  <2>3. Filled(f[p])
    BY <1>1, <1>3 DEF Sound, Filled
  <2> QED BY <2>1, <2>2, <2>3
<1>4. CASE ~(c.size < c.cap)
  <2>1. n \in Nat /\ n > c.cap
    BY <1>1, DomAssumption
  <2>2. Grown(m, a) = Reserve(m, a, n)
    BY <1>2, <1>4 DEF Grown
  <2> HIDE DEF n
  <2>3. PICK f1 : Grew(m, f, p, Reserve(m, a, n), f1) /\ (n > f[p].cap => Filled(f1[p]))
    BY <2>1, Reserving
  <2> QED BY <2>1, <2>2, <2>3
<1> QED BY <1>3, <1>4

\* Only what is in p's block changed its address.
LEMMA GrewAddr ==
    ASSUME NEW m, NEW f, Placed(m, f), NEW p \in DOMAIN f, NEW m1, NEW f1, Grew(m, f, p, m1, f1),
           NEW x \in DOMAIN f, Tree!Parent(x) # p
    PROVE  Addr(f1, x) = Addr(f, x)
<1>1. Tree!Parent(x) # <<>> => Tree!Parent(x) \in DOMAIN f
  BY Place
<1>2. Tree!Parent(x) # <<>> => f1[Tree!Parent(x)] = f[Tree!Parent(x)]
  BY <1>1 DEF Grew
<1> QED BY <1>2 DEF Addr

LEMMA NotParent ==
    ASSUME NEW m, NEW f, Placed(m, f), NEW p \in DOMAIN f, NEW q \in DOMAIN f, Tree!Apart(p, q)
    PROVE  Tree!Parent(p) # p /\ Tree!Parent(q) # p
<1>1. /\ p \in Path /\ p # <<>> /\ q \in Path /\ q # <<>>
  BY PlacedPaths
<1>2. /\ Len(Tree!Parent(p)) = Len(p) - 1 /\ Len(p) \in Nat
      /\ Tree!Parent(q) \in Path /\ Tip(q) \in Steps /\ Down(Tree!Parent(q), Tip(q)) = q
  BY <1>1, PathUp
<1>3. Tree!Parent(q) # p
  BY <1>2, PathDown DEF Tree!Apart
<1> QED BY <1>2, <1>3

LEMMA PushStep ==
    ASSUME IInv, NEW p \in Paths, NEW q \in Paths, Push(p, q)
    PROVE  IInv'
<1>1. PICK f : Holds(mem, f, doc) /\ DOMAIN mem = {0} \cup Used(f)
  BY DEF IInv
<1>2. Placed(mem, f) /\ doc = See(mem, f)
  BY <1>1 DEF Holds
<1>3. /\ p \in DOMAIN f /\ Address(p) = Addr(f, p) /\ At(mem, Addr(f, p)) = f[p]
      /\ q \in DOMAIN f /\ Address(q) = Addr(f, q)
  BY <1>1, AtPath
<1> DEFINE a == Addr(f, p)
           b == Addr(f, q)
           g == Grown(mem, a)
           m1 == PushBack(mem, a, b)
           d == Tree!PushBack(doc, p, q)
<1>4. /\ Tree!Apart(p, q) /\ f[p].k = "Array" /\ (f[p].block = 0 => Room(mem))
      /\ Becomes(m1, d)
  BY <1>3 DEF Push, Is, MayGrow
<1>5. PICK f1 : Grew(mem, f, p, g, f1) /\ Filled(f1[p])
  BY <1>2, <1>3, <1>4, Growing
<1>6. /\ Placed(g, f1) /\ See(g, f1) = doc /\ DOMAIN f1 = DOMAIN f /\ f1[p].k = "Array"
      /\ DOMAIN g \subseteq {0} \cup Used(f1)
  BY <1>1, <1>2, <1>4, <1>5 DEF Grew
<1>7. Addr(f1, p) = a /\ Addr(f1, q) = b
  BY <1>2, <1>3, <1>4, <1>5, NotParent, GrewAddr
<1> HIDE DEF g, a, b
<1>8. At(g, a) = f1[p]
  BY <1>3, <1>6, <1>7, Place DEF At
<1> DEFINE c == f1[p]
           mR == Write(RawAssign(g, <<c.block, c.size + 1>>, b), a, Sized(c, c.size + 1))
<1>9. m1 = mR
  BY <1>8 DEF PushBack, g, Sized
<1>10. PICK h : Holds(mR, h, d) /\ DOMAIN mR = DOMAIN g /\ Used(h) = Used(f1)
  BY <1>3, <1>4, <1>5, <1>6, <1>7, PushHolds
<1> HIDE DEF m1, mR, d
<1>11. Holds(m1, h, d) /\ DOMAIN m1 \subseteq {0} \cup Used(h)
  BY <1>6, <1>9, <1>10
<1> QED BY <1>4, <1>11, Settled

LEMMA AddStep ==
    ASSUME IInv, NEW p \in Paths, NEW q \in Paths, Add(p, q)
    PROVE  IInv'
<1>1. PICK f : Holds(mem, f, doc) /\ DOMAIN mem = {0} \cup Used(f)
  BY DEF IInv
<1>2. Placed(mem, f) /\ doc = See(mem, f)
  BY <1>1 DEF Holds
<1>3. /\ p \in DOMAIN f /\ Address(p) = Addr(f, p) /\ At(mem, Addr(f, p)) = f[p]
      /\ q \in DOMAIN f /\ Address(q) = Addr(f, q)
  BY <1>1, AtPath
<1> DEFINE a == Addr(f, p)
           b == Addr(f, q)
           g == Grown(mem, a)
<1>4. PICK name \in Names :
         /\ Tree!Apart(p, q) /\ f[p].k = "Object" /\ (f[p].block = 0 => Room(mem))
         /\ Becomes(AddMember(mem, a, name, b), Tree!AddMember(doc, p, name, q))
  BY <1>3 DEF Add, Is, MayGrow
<1> DEFINE m1 == AddMember(mem, a, name, b)
           d == Tree!AddMember(doc, p, name, q)
<1>5. PICK f1 : Grew(mem, f, p, g, f1) /\ Filled(f1[p])
  BY <1>2, <1>3, <1>4, Growing
<1>6. /\ Placed(g, f1) /\ See(g, f1) = doc /\ DOMAIN f1 = DOMAIN f /\ f1[p].k = "Object"
      /\ DOMAIN g \subseteq {0} \cup Used(f1)
  BY <1>1, <1>2, <1>4, <1>5 DEF Grew
<1>7. Addr(f1, p) = a /\ Addr(f1, q) = b
  BY <1>2, <1>3, <1>4, <1>5, NotParent, GrewAddr
<1> HIDE DEF g, a, b
<1>8. At(g, a) = f1[p]
  BY <1>3, <1>6, <1>7, Place DEF At
<1> DEFINE c == f1[p]
           named == Write(g, <<c.block, 2 * c.size + 1>>, Const(name))
           mR == Write(RawAssign(named, <<c.block, 2 * c.size + 2>>, b), a, Sized(c, c.size + 1))
<1>9. m1 = mR
  BY <1>8 DEF AddMember, g, Sized
<1>10. PICK h : Holds(mR, h, d) /\ DOMAIN mR = DOMAIN g /\ Used(h) = Used(f1)
  BY <1>3, <1>4, <1>5, <1>6, <1>7, AddHolds
<1>11. Becomes(m1, d)
  BY <1>4
<1> HIDE DEF m1, mR, d
<1>12. Holds(m1, h, d) /\ DOMAIN m1 \subseteq {0} \cup Used(h)
  BY <1>6, <1>9, <1>10
<1> QED BY <1>11, <1>12, Settled

-------------------------------------------------------------------------------
(* The theorems. *)

LEMMA InitForm ==
    ASSUME Init
    PROVE  IInv
<1> DEFINE f == [p \in {<<x>> : x \in Roots} |-> NullCell]
<1>1. /\ DOMAIN mem = {0} /\ mem[0] = [x \in Roots |-> NullCell] /\ DOMAIN mem[0] = Roots
      /\ \A x \in Roots : mem[0][x] = NullCell
  BY DEF Init
<1>2. DOMAIN f = {<<x>> : x \in Roots} /\ Map(f) /\ \A p \in DOMAIN f : f[p] = NullCell
  BY DEF Map
<1>3. See(mem, f) = doc
  BY NullSound DEF Init, See
<1> HIDE DEF f
<1>4. Sound(mem, NullCell) /\ Kids(NullCell) = 0 /\ NullCell.block = 0 /\ NullCell \in CellSet
  BY NullSound DEF Sound
<1>5. \A x \in Roots : <<x>> \in Path /\ Down(<<>>, x) = <<x>> /\ <<x>> # <<>> /\ <<x>>[1] = x
  BY DEF Path, Down, Steps
<1>6. Body(mem, f)
  BY <1>2, <1>4 DEF Body
<1>7. DOMAIN f \subseteq Path /\ <<>> \notin DOMAIN f
  BY <1>2, <1>5
<1>8. ASSUME NEW y \in Path, NEW i \in Steps
      PROVE  Down(y, i) \in DOMAIN f <=> IF y = <<>> THEN i \in Roots
                                         ELSE y \in DOMAIN f /\ i \in 1..Kids(f[y])
  <2>1. Len(Down(y, i)) = Len(y) + 1 /\ Tree!Parent(Down(y, i)) = y /\ Tip(Down(y, i)) = i
    BY PathDown
  <2>2. \A x \in Roots : Tree!Parent(<<x>>) = <<>> /\ Tip(<<x>>) = x
    <3>1. ASSUME NEW x \in Roots PROVE Tree!Parent(<<x>>) = <<>> /\ Tip(<<x>>) = x
      <4>1. x \in Steps /\ <<>> \in Path
        BY DEF Steps, Path
      <4>2. Tree!Parent(Down(<<>>, x)) = <<>> /\ Tip(Down(<<>>, x)) = x
        BY <4>1, PathDown
      <4> QED BY <1>5, <4>2
    <3> QED BY <3>1
  <2>3. CASE y = <<>>
    <3>1. i \in Roots => Down(y, i) \in DOMAIN f
      BY <1>2, <1>5, <2>3
    <3>2. Down(y, i) \in DOMAIN f => i \in Roots
      BY <1>2, <2>1, <2>2
    <3> QED BY <2>3, <3>1, <3>2
  <2>4. CASE y # <<>>
    <3>1. Down(y, i) \notin DOMAIN f
      BY <1>2, <2>1, <2>2, <2>4
    <3>2. y \in DOMAIN f => 1..Kids(f[y]) = {}
      BY <1>2, <1>4
    <3> QED BY <2>4, <3>1, <3>2
  <2> QED BY <2>3, <2>4
<1>9. ForestShape(f)
  BY <1>2, <1>4, <1>7, <1>8 DEF ForestShape
<1>10. Placed(mem, f)
  <2>1. \A x \in Roots : f[Down(<<>>, x)] = mem[0][x]
    BY <1>1, <1>2, <1>5
  <2> QED BY <1>1, <1>2, <1>6, <1>9, <2>1 DEF Placed
<1>11. Used(f) = {}
  BY <1>2, <1>4 DEF Used
<1>12. Holds(mem, f, doc) /\ DOMAIN mem = {0} \cup Used(f)
  BY <1>1, <1>3, <1>10, <1>11 DEF Holds
<1> QED BY <1>12 DEF IInv, Init

LEMMA StutterForm ==
    ASSUME IInv, UNCHANGED vars
    PROVE  IInv'
<1>1. PICK f : Holds(mem, f, doc) /\ DOMAIN mem = {0} \cup Used(f)
  BY DEF IInv
<1>2. mem' = mem /\ doc' = doc /\ pool' = pool
  BY DEF vars
<1>3. Holds(mem', f, doc') /\ DOMAIN mem' = {0} \cup Used(f)
  BY <1>1, <1>2
<1>4. (\E g : Holds(mem, g, doc) /\ DOMAIN mem = {0} \cup Used(g))'
  BY <1>3
<1> QED BY <1>2, <1>4 DEF IInv

\* After any sequence of operations of GenericValue the cells lie as a forest, with
\* no other blocks than its own, and show the document.
THEOREM Inductive == Spec => []IInv
<1>1. Init => IInv
  BY InitForm
<1>2. IInv /\ [Next]_vars => IInv'
  <2> SUFFICES ASSUME IInv, [Next]_vars PROVE IInv'
    OBVIOUS
  <2>1. ASSUME NEW p \in Paths, SetScalar(p) PROVE IInv'
    BY <2>1, ScalarStep
  <2>2. ASSUME NEW p \in Paths, SetString(p) PROVE IInv'
    BY <2>2, StringStep
  <2>3. ASSUME NEW p \in Paths, SetContainer(p) PROVE IInv'
    BY <2>3, ContainerStep
  <2>4. ASSUME NEW p \in Paths, ReserveMore(p) PROVE IInv'
    BY <2>4, ReserveStep
  <2>5. ASSUME NEW p \in Paths, Erase(p) PROVE IInv'
    BY <2>5, EraseStep
  <2>6. ASSUME NEW p \in Paths, EraseMember(p) PROVE IInv'
    BY <2>6, EraseMemberStep
  <2>7. ASSUME NEW p \in Paths, RemoveMember(p) PROVE IInv'
    BY <2>7, RemoveMemberStep
  <2>8. ASSUME NEW p \in Paths, NEW q \in Paths, Assign(p, q) PROVE IInv'
    BY <2>8, AssignStep
  <2>9. ASSUME NEW p \in Paths, NEW q \in Paths, Swap(p, q) PROVE IInv'
    BY <2>9, SwapStep
  <2>10. ASSUME NEW p \in Paths, NEW q \in Paths, CopyFrom(p, q) PROVE IInv'
    BY <2>10, CopyFromStep
  <2>11. ASSUME NEW p \in Paths, NEW q \in Paths, Push(p, q) PROVE IInv'
    BY <2>11, PushStep
  <2>12. ASSUME NEW p \in Paths, NEW q \in Paths, Add(p, q) PROVE IInv'
    BY <2>12, AddStep
  <2>13. CASE UNCHANGED vars
    BY <2>13, StutterForm
  <2> QED BY <2>1, <2>2, <2>3, <2>4, <2>5, <2>6, <2>7, <2>8, <2>9, <2>10, <2>11, <2>12, <2>13
          DEF Next
<1> QED BY <1>1, <1>2, PTL DEF Spec

\* Every cell is one of the forest's or the units of one of its strings.
LEMMA EveryCell ==
    ASSUME NEW m, NEW f, Placed(m, f), DOMAIN m = {0} \cup Used(f), NEW a \in Addresses(m)
    PROVE  \/ \E x \in DOMAIN f : a = Addr(f, x) /\ At(m, a) = f[x]
           \/ At(m, a).block = 0
<1>1. PICK b \in DOMAIN m : a \in {b} \X DOMAIN m[b]
  BY DEF Addresses
<1>2. a = <<b, a[2]>> /\ a[1] = b /\ a[2] \in DOMAIN m[b]
  BY <1>1
<1> DEFINE i == a[2]
<1> HIDE DEF i
<1>3. CASE b = 0
  <2>1. i \in Roots /\ <<>> \in Path /\ i \in Steps
    BY <1>2, <1>3 DEF Placed, i, Path, Steps
  <2>2. Down(<<>>, i) \in DOMAIN f
    BY <2>1 DEF Placed, ForestShape
  <2>3. Tree!Parent(Down(<<>>, i)) = <<>> /\ Tip(Down(<<>>, i)) = i
    BY <2>1, PathDown
  <2>4. Addr(f, Down(<<>>, i)) = a
    BY <1>2, <1>3, <2>3 DEF Addr, i
  <2> QED BY <2>2, <2>4, Place DEF At
<1>4. CASE b # 0
  <2>1. PICK x \in DOMAIN f : f[x].block = b
    BY <1>4 DEF Used
  <2>2. Sound(m, f[x]) /\ x \in Path /\ x # <<>>
    BY PlacedPaths
  <2>3. i \in 1..InUse(f[x])
    BY <1>2, <1>4, <2>1, <2>2 DEF Sound, i
  <2>4. CASE f[x].k = "Copy"
    <3>1. InUse(f[x]) = 1
      BY <2>2, <2>4 DEF Sound, InUse
    <3>2. i = 1
      BY <2>3, <3>1
    <3> QED BY <1>2, <2>1, <2>2, <2>4, <3>2 DEF Sound, At, i
  <2>5. CASE f[x].k # "Copy"
    <3>1. f[x].k \in {"Array", "Object"}
      BY <1>4, <2>1, <2>2, <2>5 DEF Sound, CellSet, Values
    <3>2. i \in 1..Kids(f[x]) /\ i \in Steps
      BY <2>2, <2>3, <3>1, KidsBlock DEF Kids
    <3>3. Down(x, i) \in DOMAIN f
      BY <2>2, <3>2 DEF Placed, ForestShape
    <3>4. Tree!Parent(Down(x, i)) = x /\ Tip(Down(x, i)) = i
      BY <2>2, <3>2, PathDown
    <3>5. Addr(f, Down(x, i)) = a
      BY <1>2, <2>1, <2>2, <3>4 DEF Addr, i
    <3> QED BY <3>3, <3>5, Place DEF At
  <2> QED BY <2>4, <2>5
<1> QED BY <1>3, <1>4

\* At any time every block has exactly one owner, whose cells are those in it, and
\* is reached from the roots: the operations of GenericValue (document.h) neither
\* destroy a value twice, nor leave one behind, nor put one inside itself.
THEOREM OneOwnerHolds == Spec => []OneOwner
<1>1. IInv => OneOwner
  <2> SUFFICES ASSUME IInv PROVE OneOwner
    OBVIOUS
  <2>1. PICK f : Holds(mem, f, doc) /\ DOMAIN mem = {0} \cup Used(f)
    BY DEF IInv
  <2>2. Placed(mem, f)
    BY <2>1 DEF Holds
  <2>3. \A a \in Addresses(mem) : At(mem, a).block # 0 =>
           \E x \in DOMAIN f : a = Addr(f, x) /\ At(mem, a) = f[x]
    BY <2>1, <2>2, EveryCell
  <2>4. \A x \in DOMAIN f : Sound(mem, f[x])
    BY <2>2, PlacedPaths
  <2>5. ASSUME NEW a \in Addresses(mem), At(mem, a).block # 0
        PROVE  /\ At(mem, a).block \in DOMAIN mem
               /\ DOMAIN mem[At(mem, a).block] = 1..InUse(At(mem, a))
    <3>1. Sound(mem, At(mem, a))
      BY <2>3, <2>4, <2>5
    <3> QED BY <2>5, <3>1 DEF Sound
  <2>6. ASSUME NEW a \in Addresses(mem), NEW o \in Addresses(mem),
               At(mem, a).block = At(mem, o).block, At(mem, a).block # 0
        PROVE  a = o
    <3>1. PICK x \in DOMAIN f : a = Addr(f, x) /\ At(mem, a) = f[x]
      BY <2>3, <2>6
    <3>2. PICK y \in DOMAIN f : o = Addr(f, y) /\ At(mem, o) = f[y]
      BY <2>3, <2>6
    <3>3. x = y
      BY <2>2, <2>6, <3>1, <3>2 DEF Placed, Body
    <3> QED BY <3>1, <3>2, <3>3
  <2>7. Reached(mem, 0) = DOMAIN mem
    BY <2>1, <2>2, ReachedForest
  <2> QED BY <2>5, <2>6, <2>7 DEF OneOwner
<1> QED BY <1>1, Inductive, PTL

\* After any sequence of operations the memory shows the document the interface
\* promises: values move whole, copies are independent, nothing else changes.
THEOREM TreesKept == Spec => []KeepsTrees
<1>1. IInv => KeepsTrees
  <2> SUFFICES ASSUME IInv PROVE KeepsTrees
    OBVIOUS
  <2>1. PICK f : Holds(mem, f, doc)
    BY DEF IInv
  <2>2. Placed(mem, f) /\ doc = See(mem, f)
    BY <2>1 DEF Holds
  <2>3. DOMAIN doc = DOMAIN f /\ \A x \in DOMAIN f : doc[x] = Shows(mem, f[x])
    BY <2>2, SeeForm
  <2>4. ASSUME NEW p \in DOMAIN doc PROVE Shows(mem, At(mem, Address(p))) = doc[p]
    <3>1. Address(p) = Addr(f, p)
      BY <2>2, <2>3, FollowAddr DEF Address
    <3>2. At(mem, Address(p)) = f[p]
      BY <2>2, <2>3, <3>1, Place DEF At
    <3> QED BY <2>3, <3>2
  <2>5. ASSUME NEW x \in DOMAIN f
        PROVE  Sound(mem, f[x]) /\ doc[x].n = Kids(f[x])
    <3>1. Sound(mem, f[x])
      BY <2>2, PlacedPaths
    <3>2. f[x].k \in Values
      BY <3>1 DEF Sound, CellSet
    <3>3. Shows(mem, f[x]).n = Kids(f[x])
      BY <3>2 DEF Values, Shows, Kids, Tree!Null, Tree!Str, Tree!Node
    <3> QED BY <2>3, <3>1, <3>3
  <2>6. {p \in DOMAIN doc : Len(p) = 1} = {<<x>> : x \in Roots}
    <3>1. ASSUME NEW x \in Roots PROVE <<x>> \in DOMAIN doc /\ Len(<<x>>) = 1
      <4>1. x \in Steps /\ <<>> \in Path /\ Down(<<>>, x) = <<x>>
        BY DEF Steps, Path, Down
      <4>2. Down(<<>>, x) \in DOMAIN f
        BY <2>2, <4>1 DEF Placed, ForestShape
      <4> QED BY <2>3, <4>1, <4>2
    <3>2. ASSUME NEW p \in DOMAIN doc, Len(p) = 1 PROVE p \in {<<x>> : x \in Roots}
      <4>1. p \in Path /\ p # <<>>
        BY <2>2, <2>3, PlacedPaths
      <4>2. /\ Tree!Parent(p) \in Path /\ Tip(p) \in Steps /\ Len(Tree!Parent(p)) = Len(p) - 1
            /\ Down(Tree!Parent(p), Tip(p)) = p
        BY <4>1, PathUp
      <4>3. Tree!Parent(p) = <<>>
        <5>1. Len(Tree!Parent(p)) = 0
          BY <3>2, <4>2
        <5> QED BY <4>2, <5>1 DEF Path
      <4>4. Tip(p) \in Roots
        BY <2>2, <2>3, <4>2, <4>3 DEF Placed, ForestShape
      <4>5. p = <<Tip(p)>>
        BY <4>2, <4>3 DEF Down
      <4> QED BY <4>4, <4>5
    <3> QED BY <3>1, <3>2
  <2>7. ASSUME NEW p \in DOMAIN doc, Len(p) # 1
        PROVE  /\ Len(p) > 1 /\ Tree!Parent(p) \in DOMAIN doc
               /\ p[Len(p)] \in 1..doc[Tree!Parent(p)].n
    <3>1. p \in Path /\ p # <<>>
      BY <2>2, <2>3, PlacedPaths
    <3>2. Tree!Parent(p) \in Path /\ Len(Tree!Parent(p)) = Len(p) - 1 /\ Len(p) \in Nat
      BY <3>1, PathUp
    <3>3. Tree!Parent(p) # <<>> /\ Len(p) > 1
      <4>1. Len(p) # 0
        BY <3>1 DEF Path
      <4>2. Len(p) > 1
        BY <2>7, <3>2, <4>1
      <4> QED BY <3>2, <4>2
    <3>4. Tree!Parent(p) \in DOMAIN f /\ Tip(p) \in 1..Kids(f[Tree!Parent(p)])
      BY <2>2, <2>3, <3>3, Place
    <3> QED BY <2>3, <2>5, <3>3, <3>4 DEF Tip
  <2>8. ASSUME NEW p \in DOMAIN doc, NEW i \in 1..doc[p].n PROVE Append(p, i) \in DOMAIN doc
    <3>1. p \in DOMAIN f /\ i \in 1..Kids(f[p]) /\ Sound(mem, f[p]) /\ p \in Path /\ p # <<>>
      BY <2>2, <2>3, <2>5, PlacedPaths
    <3>2. i \in Steps
      BY <3>1, KidsBlock
    <3>3. Down(p, i) \in DOMAIN f
      BY <2>2, <3>1, <3>2 DEF Placed, ForestShape
    <3> QED BY <2>3, <3>3 DEF Down
  <2>9. Tree!IsForest(doc)
    BY <2>6, <2>7, <2>8 DEF Tree!IsForest
  <2> QED BY <2>4, <2>9 DEF KeepsTrees
<1> QED BY <1>1, Inductive, PTL
===============================================================================

-------------------------------- MODULE JsonDom --------------------------------
(* How GenericValue (document.h) keeps trees in memory.  A value is a cell of 16
   bytes; arrays, objects and copied strings own a block of memory with their
   elements, members (name and value in turn) or units.  Moving a value copies
   its cell and makes the source null.  The allocator is either CrtAllocator,
   whose blocks must be freed, or the pool, whose blocks never are (allocators.h,
   kNeedFree).  An operation's arguments are paths, which the caller follows to
   the cells; its effect on the memory m is an operator. *)
EXTENDS Integers, Sequences, FiniteSets

CONSTANTS
    Roots,          \* the values that live outside blocks: locals and documents
    Names,          \* what strings hold; other scalars are like null
    Blocks,         \* the addresses malloc gives
    Default,        \* kDefaultArrayCapacity, kDefaultObjectCapacity: 16
    Reserved,       \* what the caller of Reserve asks for
    MaxCells, MaxCapacity, MaxDepth     \* bounds: cells in blocks, of a block, steps down

ASSUME DomAssumption ==
    /\ Blocks \subseteq Nat \ {0}
    /\ Default \in Nat \ {0} /\ Reserved \in Nat

VARIABLES
    mem,            \* block -> the cells constructed in it; block 0 holds the roots
    pool,           \* the allocator is the pool
    doc             \* the trees the roots should hold, by JsonTree

vars == <<mem, pool, doc>>

\* A cell that owns no block has block 0.  A copied string is one cell of units.
Cell(k, s, block, size, cap) ==
    [k |-> k, s |-> s, block |-> block, size |-> size, cap |-> cap]
NullCell == Cell("Null", <<>>, 0, 0, 0)
Const(s) == Cell("Const", s, 0, 0, 0)       \* a reference to the caller's string
Units(s) == Cell("Units", s, 0, 0, 0)
Copied(block) == Cell("Copy", <<>>, block, 1, 1)
Empty(kind) == Cell(kind, <<>>, 0, 0, 0)

\* The cells of a value's block in use: a member is two of them.
InUse(c) == IF c.k = "Object" THEN 2 * c.size ELSE c.size

At(m, a) == m[a[1]][a[2]]
Addresses(m) == UNION {{b} \X DOMAIN m[b] : b \in DOMAIN m}

\* Iterators and operator[]: the address a path leads to.
Follow(m, p) ==
    LET step[k \in 1..Len(p)] ==
            IF k = 1 THEN <<0, p[1]>> ELSE <<At(m, step[k - 1]).block, p[k]>>
    IN  step[Len(p)]

-------------------------------------------------------------------------------
(* Memory. *)

\* Writing behind the last cell of a block constructs one more.
Write(m, a, c) ==
    [m EXCEPT ![a[1]] = [i \in DOMAIN @ \cup {a[2]} |-> IF i = a[2] THEN c ELSE @[i]]]
Keep(m, B) == [b \in DOMAIN m \cap B |-> m[b]]

\* The blocks that are reached from a block: those in every set that holds it and
\* what is owned in it.
Closed(m, B) == \A b \in B : \A i \in DOMAIN m[b] : m[b][i].block # 0 => m[b][i].block \in B
Reached(m, b) ==
    LET all == {B \in SUBSET DOMAIN m : b \in B /\ Closed(m, B)}
    IN  {d \in DOMAIN m : \A B \in all : d \in B}
Under(m, a) == LET c == At(m, a) IN IF c.block = 0 THEN {} ELSE Reached(m, c.block)

\* ~GenericValue, of the values at the addresses A: the elements and so on down,
\* then the block, if the allocator needs it.
DestroyAll(m, A) ==
    IF pool THEN m ELSE Keep(m, DOMAIN m \ UNION {Under(m, a) : a \in A})
Destroy(m, a) == DestroyAll(m, {a})

\* The pool's blocks are forgotten once nothing leads to them.
Collected(m) == IF pool THEN Keep(m, Reached(m, 0)) ELSE m

\* Mutant of RawAssign: the source keeps what it gave away.
RawAssignKept(m, dst, src) == Write(m, dst, At(m, src))

\* RawAssign: the destination's cell is overwritten, the source becomes null.
RawAssign(m, dst, src) == Write(Write(m, dst, At(m, src)), src, NullCell)

\* operator= on a value, and Set...: what was there is destroyed first.
MoveAssign(m, dst, src) == IF dst = src THEN m ELSE RawAssign(Destroy(m, dst), dst, src)
Constructed(m, a, c) == Write(Destroy(m, a), a, c)

\* Malloc: any block that is free, with no cell constructed in it.
Room(m) == \E b \in Blocks : b \notin DOMAIN m
NewBlock(m) == CHOOSE b \in Blocks : b \notin DOMAIN m
Alloc(m) == [b \in DOMAIN m \cup {NewBlock(m)} |-> IF b \in DOMAIN m THEN m[b] ELSE <<>>]

\* SetStringRaw with an allocator: long strings are copied to a block.
CopiedString(m, a, s) ==
    Write(Write(Alloc(m), <<NewBlock(m), 1>>, Units(s)), a, Copied(NewBlock(m)))

\* Reserve and MemberReserve: the block grows, its cells keep their contents.
Reserve(m, a, capacity) ==
    LET c == At(m, a) IN
    IF capacity <= c.cap THEN m
    ELSE IF c.block # 0 THEN Write(m, a, [c EXCEPT !.cap = capacity])
    ELSE Write(Alloc(m), a, [c EXCEPT !.block = NewBlock(m), !.cap = capacity])

\* The next capacity when the block is full.
Grown(m, a) ==
    LET c == At(m, a) IN
    IF c.size < c.cap THEN m
    ELSE Reserve(m, a, IF c.cap = 0 THEN Default ELSE c.cap + (c.cap + 1) \div 2)

-------------------------------------------------------------------------------
(* The operations on a cell. *)
PushBack(m, a, src) ==
    LET g == Grown(m, a)
        c == At(g, a)
    IN  Write(RawAssign(g, <<c.block, c.size + 1>>, src), a, [c EXCEPT !.size = @ + 1])

AddMember(m, a, name, src) ==
    LET g == Grown(m, a)
        c == At(g, a)
        named == Write(g, <<c.block, 2 * c.size + 1>>, Const(name))
    IN  Write(RawAssign(named, <<c.block, 2 * c.size + 2>>, src), a, [c EXCEPT !.size = @ + 1])

\* The block of the value at a, of n values now, and its cells chosen by `from`.
Moved(m, a, n, from) ==
    LET c == At(m, a)
        cells == [k \in DOMAIN from |-> m[c.block][from[k]]]
    IN  Write([m EXCEPT ![c.block] = cells], a, [c EXCEPT !.size = n])

\* Cells i to j are destroyed and those behind them moved down, bit by bit.
EraseCells(m, a, i, j) ==
    LET c == At(m, a)
        gone == j - i + 1
    IN  Moved(DestroyAll(m, {c.block} \X (i..j)), a,
              c.size - (IF c.k = "Object" THEN gone \div 2 ELSE gone),
              [k \in 1..InUse(c) - gone |-> IF k < i THEN k ELSE k + gone])

\* Mutant of RemoveCells: only the name of the last member is moved.
RemoveCellsNameOnly(m, a, i) ==
    LET c == At(m, a)
        name(k) == <<c.block, 2 * k - 1>>
        value(k) == <<c.block, 2 * k>>
        filled == IF c.size > 1 /\ i # c.size THEN MoveAssign(m, name(i), name(c.size))
                  ELSE Destroy(Destroy(m, name(i)), value(i))
    IN  Moved(filled, a, c.size - 1, [k \in 1..2 * c.size - 2 |-> k])

\* RemoveMember: the last member is moved to the place of member i.
RemoveCells(m, a, i) ==
    LET c == At(m, a)
        name(k) == <<c.block, 2 * k - 1>>
        value(k) == <<c.block, 2 * k>>
        filled == IF c.size > 1 /\ i # c.size
                  THEN MoveAssign(MoveAssign(m, name(i), name(c.size)), value(i), value(c.size))
                  ELSE Destroy(Destroy(m, name(i)), value(i))
    IN  Moved(filled, a, c.size - 1, [k \in 1..2 * c.size - 2 |-> k])

\* The copy constructor, all the way down: for each block with cells that is
\* reached from cell c a new one of exactly the size, with copies of its cells in
\* which those blocks stand for theirs.  Malloc(0) is no block; a constant string
\* stays a reference.
Injections(S, T) == {f \in [S -> T] : \A x, y \in S : f[x] = f[y] => x = y}
FilledBlocks(m, c) == IF c.block = 0 THEN {} ELSE {b \in Reached(m, c.block) : DOMAIN m[b] # {}}
NewBlocks(m, c) == Injections(FilledBlocks(m, c), Blocks \ DOMAIN m)
CopyOf(c, new) ==
    IF c.block \in DOMAIN new THEN [c EXCEPT !.block = new[c.block], !.cap = c.size]
    ELSE [c EXCEPT !.block = 0, !.cap = 0]
CopyBlocks(m, new) ==
    LET old(b) == CHOOSE d \in DOMAIN new : new[d] = b IN
    [b \in DOMAIN m \cup {new[d] : d \in DOMAIN new} |->
        IF b \in DOMAIN m THEN m[b] ELSE [i \in DOMAIN m[old(b)] |-> CopyOf(m[old(b)][i], new)]]
CopyInto(m, a, c) ==
    LET new == CHOOSE f \in NewBlocks(m, c) : TRUE
    IN  Write(CopyBlocks(m, new), a, CopyOf(c, new))

-------------------------------------------------------------------------------
Tree == INSTANCE JsonTree

\* What a cell shows: a copied string is read from its block.
Shows(m, c) ==
    CASE c.k = "Null" -> Tree!Null
      [] c.k = "Const" -> Tree!Str(c.s)
      [] c.k = "Copy" -> Tree!Str(m[c.block][1].s)
      [] c.k \in {"Array", "Object"} -> Tree!Node(c.k, <<>>, InUse(c))

Init == /\ mem = [b \in {0} |-> [x \in Roots |-> NullCell]]
        /\ pool \in BOOLEAN
        /\ doc = [p \in {<<x>> : x \in Roots} |-> Tree!Null]

Becomes(m, d) == mem' = Collected(m) /\ doc' = d /\ UNCHANGED pool

Address(p) == Follow(mem, p)
Is(p, kind) == At(mem, Address(p)).k = kind
MayGrow(p) == At(mem, Address(p)).block = 0 => Room(mem)
Size(p) == At(mem, Address(p)).size

\* SetNull, SetBool, SetInt...
SetScalar(p) == Becomes(Constructed(mem, Address(p), NullCell),
                        Tree!Put(doc, p, Tree!Leaf(Tree!Null)))

SetString(p) == \E s \in Names :
    LET m == Destroy(mem, Address(p)) IN
    /\ Room(m)
    /\ Becomes(CopiedString(m, Address(p), s), Tree!Put(doc, p, Tree!Leaf(Tree!Str(s))))

SetContainer(p) == \E kind \in {"Array", "Object"} :
    Becomes(Constructed(mem, Address(p), Empty(kind)),
            Tree!Put(doc, p, Tree!Leaf(Tree!Container(kind))))

\* operator=: a part of the destination may be moved up only if destroying the
\* destination leaves it alone, and nothing may be moved into itself.
Assign(p, q) ==
    /\ ~Tree!Inside(p, q) /\ (Tree!Inside(q, p) => pool)
    /\ Becomes(MoveAssign(mem, Address(p), Address(q)), Tree!Assign(doc, p, q))

Swap(p, q) ==
    LET m == Write(mem, Address(p), At(mem, Address(q))) IN
    /\ Tree!Apart(p, q)
    /\ Becomes(Write(m, Address(q), At(mem, Address(p))), Tree!Swap(doc, p, q))

\* CopyFrom: the same holds for its source.
CopyFrom(p, q) ==
    LET m == Destroy(mem, Address(p)) IN
    /\ p # q /\ (Tree!Apart(p, q) \/ pool)
    /\ NewBlocks(m, At(m, Address(q))) # {}
    /\ Becomes(CopyInto(m, Address(p), At(m, Address(q))), Tree!Copy(doc, p, q))

Push(p, q) ==
    /\ Tree!Apart(p, q) /\ Is(p, "Array") /\ MayGrow(p)
    /\ Becomes(PushBack(mem, Address(p), Address(q)), Tree!PushBack(doc, p, q))

Add(p, q) == \E name \in Names :
    /\ Tree!Apart(p, q) /\ Is(p, "Object") /\ MayGrow(p)
    /\ Becomes(AddMember(mem, Address(p), name, Address(q)), Tree!AddMember(doc, p, name, q))

ReserveMore(p) ==
    /\ Is(p, "Array") \/ Is(p, "Object")
    /\ MayGrow(p)
    /\ Becomes(Reserve(mem, Address(p), Reserved), doc)

\* Erase, PopBack and Clear: a range, the last one, and all.
Erase(p) ==
    /\ Is(p, "Array")
    /\ \E i \in 1..Size(p) : \E j \in i..Size(p) :
         Becomes(EraseCells(mem, Address(p), i, j), Tree!Erase(doc, p, i, j))

\* EraseMember and RemoveAllMembers.
EraseMember(p) ==
    /\ Is(p, "Object")
    /\ \E i \in 1..Size(p) : \E j \in i..Size(p) :
         Becomes(EraseCells(mem, Address(p), 2 * i - 1, 2 * j),
                 Tree!Erase(doc, p, 2 * i - 1, 2 * j))

RemoveMember(p) ==
    /\ Is(p, "Object")
    /\ \E i \in 1..Size(p) :
         Becomes(RemoveCells(mem, Address(p), i), Tree!RemoveMember(doc, p, i))

Paths == {p \in Tree!Values(doc) : Len(p) <= MaxDepth}

Next ==
    /\ \E p \in Paths :
       \/ SetScalar(p) \/ SetString(p) \/ SetContainer(p)
       \/ ReserveMore(p) \/ Erase(p) \/ EraseMember(p) \/ RemoveMember(p)
       \/ \E q \in Paths : Assign(p, q) \/ Swap(p, q) \/ CopyFrom(p, q) \/ Push(p, q) \/ Add(p, q)
    /\ Cardinality(Addresses(mem')) <= MaxCells + Cardinality(Roots)
    /\ \A a \in Addresses(mem') : At(mem', a).cap <= MaxCapacity

Spec == Init /\ [][Next]_vars

-------------------------------------------------------------------------------
\* Every block has exactly one owner, whose values are the cells constructed in
\* it, and every owner's block is there; from the roots one comes to every block.
\* So no value is moved without its source giving it up, destroyed twice, left
\* behind or put inside itself.
OneOwner ==
    /\ \A a \in Addresses(mem) : At(mem, a).block # 0 =>
          /\ At(mem, a).block \in DOMAIN mem
          /\ DOMAIN mem[At(mem, a).block] = 1..InUse(At(mem, a))
    /\ \A a, o \in Addresses(mem) :
          At(mem, a).block = At(mem, o).block /\ At(mem, a).block # 0 => a = o
    /\ Reached(mem, 0) = DOMAIN mem

\* Whatever the memory does, each operation does to the trees what the interface
\* says: values move whole, copies are independent, and the rest of the document
\* stays as it is.
KeepsTrees ==
    /\ Tree!IsForest(doc)
    /\ \A p \in DOMAIN doc : Shows(mem, At(mem, Address(p))) = doc[p]
===============================================================================

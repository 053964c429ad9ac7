------------------------------ MODULE JsonPointer ------------------------------
(* GenericPointer (pointer.h): a path into a value, read from "/a/0" or, percent
   encoded, "#/a/0", a token at a time.  A token that is a number is an index
   into an array and a name in an object.  A pointer is a sequence of tokens;
   a pointer that could not be read has none, an error and where it was met. *)
EXTENDS JsonWriter

CONSTANT SizeBits       \* the width of SizeType: 32
ASSUME SizeAssumption == SizeBits \in Nat \ {0}

Tilde == 126  Percent == 37  Hash == 35  Underscore == 95

NoIndex == 2 ^ SizeBits - 1                     \* kPointerInvalidIndex
Token(name, index) == [name |-> name, index |-> index]

-------------------------------------------------------------------------------
(* Reading a pointer. *)
NeedPercentEncode(c) ==
    c \notin Digits \cup 65..90 \cup 97..122 \cup {Minus, Dot, Underscore, Tilde}

Nibbles(high, low) == [ok |-> high >= 0 /\ low >= 0, byte |-> 16 * high + low]

\* PercentDecodeStream: the byte of the triple at p, if there is one.
Triple(t, p) == IF At(t, p) = Percent /\ p + 2 <= Len(t)
                THEN Nibbles(HexDigit(At(t, p + 1)), HexDigit(At(t, p + 2)))
                ELSE [ok |-> FALSE, byte |-> 0]

\* The bytes of the triples up to the first that is none.
TripleBytes(triples) ==
    LET n == CHOOSE n \in 0..4 : (\A k \in 1..n : triples[k].ok) /\ (n < 4 => ~triples[n + 1].ok)
    IN  [k \in 1..n |-> triples[k].byte]

\* v is what was validated of n bytes: it may not have gone past them.
Within(p, n, v) ==
    [ok |-> v.ok /\ v.next - 1 <= n, units |-> v.units, next |-> p + 3 * (v.next - 1)]
ValidatedFrom(p, bytes) == Within(p, Len(bytes), Validate("UTF8", bytes, 1))

\* The character whose triples begin at p.
PercentDecoded(t, p) == ValidatedFrom(p, TripleBytes([k \in 1..4 |-> Triple(t, p + 3 * (k - 1))]))

\* A name of digits without a leading zero is an index, unless the sum of the
\* digits is less than before the last one was added, which is taken for an overflow.
IndexOf(name) ==
    LET next(m, c) == IF m.ok THEN [ok |-> (10 * m.n + (c - Zero)) % 2 ^ SizeBits >= m.n,
                                    n |-> (10 * m.n + (c - Zero)) % 2 ^ SizeBits]
                      ELSE m
        read == FoldLeft(next, [ok |-> TRUE, n |-> 0], name)
    IN  IF /\ name # <<>> /\ ToSet(name) \subseteq Digits
           /\ Len(name) > 1 => name[1] # Zero
           /\ read.ok
        THEN read.n ELSE NoIndex

Refused(err, off) == [valid |-> FALSE, tokens |-> <<>>, err |-> err, off |-> off]

\* One character of a token: its units and where the next one begins, or an error.
Taken(units, next) == [err |-> "None", units |-> units, next |-> next]
Faulty(err, off) == [err |-> err, units |-> <<>>, next |-> off]

\* The unit c, which is past: a tilde begins an escape.
Plainly(t, c, next) ==
    CASE c # Tilde -> Taken(<<c>>, next)
      [] c = Tilde /\ At(t, next) = Zero -> Taken(<<Tilde>>, next + 1)
      [] c = Tilde /\ At(t, next) = Zero + 1 -> Taken(<<Slash>>, next + 1)
      [] OTHER -> Faulty("InvalidEscape", next)

\* A character that is one unit may still begin an escape.
FromPercent(t, p, decoded) ==
    CASE ~decoded.ok -> Faulty("InvalidPercentEncoding", p)
      [] decoded.ok /\ Len(decoded.units) > 1 -> Taken(decoded.units, decoded.next)
      [] OTHER -> Plainly(t, decoded.units[1], decoded.next)

\* The character at position p.
Character(t, p, uri) ==
    CASE uri /\ t[p] = Percent -> FromPercent(t, p, PercentDecoded(t, p))
      [] uri /\ t[p] # Percent /\ NeedPercentEncode(t[p]) -> Faulty("CharacterMustPercentEncode", p)
      [] OTHER -> Plainly(t, t[p], p + 1)

RECURSIVE ReadName(_, _, _, _), ReadTokens(_, _, _, _)
ReadName(t, p, uri, name) ==
    LET on(c) == IF c.err # "None" THEN [err |-> c.err, name |-> <<>>, next |-> c.next]
                 ELSE ReadName(t, c.next, uri, name \o c.units)
    IN  IF At(t, p) \in {0, Slash} /\ (p > Len(t) \/ t[p] = Slash)
        THEN [err |-> "None", name |-> name, next |-> p]
        ELSE on(Character(t, p, uri))

\* Positions count from 1 here and from 0 in the code.
ReadTokens(t, p, uri, tokens) ==
    LET on(n) == IF n.err # "None" THEN Refused(n.err, n.next - 1)
                 ELSE ReadTokens(t, n.next, uri, Append(tokens, Token(n.name, IndexOf(n.name))))
    IN  IF p > Len(t) THEN [valid |-> TRUE, tokens |-> tokens, err |-> "None", off |-> 0]
        ELSE on(ReadName(t, p + 1, uri, <<>>))

ParsePointer(t) ==
    LET uri == At(t, 1) = Hash
        p == IF uri THEN 2 ELSE 1
    IN  IF p <= Len(t) /\ t[p] # Slash THEN Refused("TokenMustBeginWithSolidus", p - 1)
        ELSE ReadTokens(t, p, uri, <<>>)

\* Append: a name is never an index, a number is both.
AppendName(tokens, name) == Append(tokens, Token(name, NoIndex))
AppendIndex(tokens, i) == Append(tokens, Token(DigitsOf(i), i))

-------------------------------------------------------------------------------
(* Writing a pointer. *)
Triples(bytes) ==
    FlattenSeq([k \in DOMAIN bytes |-> <<Percent, HexText(bytes[k] \div 16), HexText(bytes[k] % 16)>>])

\* Mutant of NameText: a solidus in a name is left as it is.
RECURSIVE NameTextPlain(_, _, _)
NameTextPlain(name, j, uri) ==
    LET v == Validate("UTF8", name, j)
        rest(units, next) == LET r == NameTextPlain(name, next, uri) IN [r EXCEPT !.text = units \o @]
    IN  IF j > Len(name) THEN [ok |-> TRUE, text |-> <<>>]
        ELSE IF name[j] = Tilde THEN rest(<<Tilde, Zero>>, j + 1)
        ELSE IF name[j] # Slash /\ uri /\ NeedPercentEncode(name[j]) THEN
                IF v.ok THEN rest(Triples(v.units), v.next) ELSE [ok |-> FALSE, text |-> <<>>]
        ELSE rest(<<name[j]>>, j + 1)

RECURSIVE NameText(_, _, _)
\* A name from unit j on; the characters of a fragment are encoded one code point
\* at a time, which must be well-formed.
NameText(name, j, uri) ==
    LET v == Validate("UTF8", name, j)
        rest(units, next) == LET r == NameText(name, next, uri) IN [r EXCEPT !.text = units \o @]
    IN  IF j > Len(name) THEN [ok |-> TRUE, text |-> <<>>]
        ELSE IF name[j] = Tilde THEN rest(<<Tilde, Zero>>, j + 1)
        ELSE IF name[j] = Slash THEN rest(<<Tilde, Zero + 1>>, j + 1)
        ELSE IF uri /\ NeedPercentEncode(name[j]) THEN
                IF v.ok THEN rest(Triples(v.units), v.next) ELSE [ok |-> FALSE, text |-> <<>>]
        ELSE rest(<<name[j]>>, j + 1)

Stringify(tokens, uri) ==
    LET names == [k \in DOMAIN tokens |-> NameText(tokens[k].name, 1, uri)] IN
    [ok |-> \A k \in DOMAIN names : names[k].ok,
     text |-> (IF uri THEN <<Hash>> ELSE <<>>)
              \o FlattenSeq([k \in DOMAIN names |-> <<Slash>> \o names[k].text])]

-------------------------------------------------------------------------------
(* Following a pointer.  A child is named by its place in the container. *)
Child(x, i) == IF x.k = "Object" THEN x.v[i][2] ELSE x.v[i]
WithChild(x, i, y) == IF x.k = "Object" THEN [x EXCEPT !.v[i][2] = y] ELSE [x EXCEPT !.v[i] = y]

\* Mutant of Place: an index may be one past the last element.
PlacePast(x, token) ==
    CASE x.k = "Object" -> LET i == FindMember(x, token.name) IN IF i <= Len(x.v) THEN i ELSE 0
      [] x.k = "Array" -> IF token.index # NoIndex /\ token.index <= Len(x.v)
                          THEN Min({token.index + 1, Len(x.v)}) ELSE 0
      [] OTHER -> 0

\* Where the token leads in x: 0 if nowhere.
Place(x, token) ==
    CASE x.k = "Object" -> LET i == FindMember(x, token.name) IN IF i <= Len(x.v) THEN i ELSE 0
      [] x.k = "Array" -> IF token.index # NoIndex /\ token.index < Len(x.v)
                          THEN token.index + 1 ELSE 0
      [] OTHER -> 0

RECURSIVE Get(_, _)
\* `at` is how many tokens were resolved.
Get(x, tokens) ==
    LET i == Place(x, tokens[1])
        r == Get(Child(x, i), Tail(tokens))
    IN  IF tokens = <<>> THEN [ok |-> TRUE, v |-> x, at |-> 0]
        ELSE IF i = 0 THEN [ok |-> FALSE, v |-> Null, at |-> 0]
        ELSE [r EXCEPT !.at = @ + 1]

\* x with a place for the token: "-" adds an element; another name makes an
\* object of what is none, an index an array of what is no container.
Reached(x, token) ==
    LET shaped == CASE token.index = NoIndex -> IF x.k = "Object" THEN x ELSE Object(<<>>)
                    [] OTHER -> IF x.k \in {"Array", "Object"} THEN x ELSE Array(<<>>)
        i == Place(shaped, token)
        more == [k \in 1..token.index + 1 - Len(shaped.v) |-> Null]
    IN  CASE x.k = "Array" /\ token.name = <<Minus>> ->
                [v |-> Array(Append(x.v, Null)), i |-> Len(x.v) + 1, exist |-> FALSE]
          [] ~(x.k = "Array" /\ token.name = <<Minus>>) /\ i > 0 ->
                [v |-> shaped, i |-> i, exist |-> TRUE]
          [] ~(x.k = "Array" /\ token.name = <<Minus>>) /\ i = 0 /\ shaped.k = "Array" ->
                [v |-> Array(shaped.v \o more), i |-> token.index + 1, exist |-> FALSE]
          [] OTHER ->
                [v |-> Object(Append(shaped.v, <<String(token.name), Null>>)),
                 i |-> Len(shaped.v) + 1, exist |-> FALSE]

RECURSIVE Create(_, _)
\* The value with every token's place made, the places, and whether all were there.
Create(x, tokens) ==
    LET o == Reached(x, tokens[1])
        r == Create(Child(o.v, o.i), Tail(tokens))
    IN  IF tokens = <<>> THEN [v |-> x, path |-> <<>>, exist |-> TRUE]
        ELSE [v |-> WithChild(o.v, o.i, r.v), path |-> <<o.i>> \o r.path,
              exist |-> o.exist /\ r.exist]

RECURSIVE PutAt(_, _, _)
PutAt(x, path, y) ==
    IF path = <<>> THEN y ELSE WithChild(x, path[1], PutAt(Child(x, path[1]), Tail(path), y))

\* Set; Swap puts y there as well and hands back what Create had made or found.
Set(x, tokens, y) == LET c == Create(x, tokens) IN PutAt(c.v, c.path, y)
Swap(x, tokens, y) == [v |-> Set(x, tokens, y), y |-> Get(Create(x, tokens).v, tokens).v]

Filled(c, y) == IF c.exist THEN c.v ELSE PutAt(c.v, c.path, y)
GetWithDefault(x, tokens, y) == Filled(Create(x, tokens), y)

\* The root cannot be erased.
Erase(x, tokens) ==
    LET parent == Get(x, Front(tokens))
        path == Create(x, Front(tokens)).path
        i == Place(parent.v, Last(tokens))
    IN  IF tokens = <<>> \/ ~parent.ok \/ i = 0 THEN [ok |-> FALSE, v |-> x]
        ELSE [ok |-> TRUE, v |-> PutAt(x, path, [parent.v EXCEPT !.v = RemoveAt(@, i)])]
===============================================================================

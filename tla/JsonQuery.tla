------------------------------- MODULE JsonQuery -------------------------------
(* What the pointers (pointer.h) and the patterns (internal/regex.h) promise to
   those who look things up in a document.  A behaviour takes one of three ways:
   the text of a pointer grows piece by piece; a document changes through
   pointers, with one value held beside it; a pattern is put together from
   smaller ones, on a stack. *)
EXTENDS JsonPointer

CONSTANTS
    Pieces,             \* units the texts of pointers are made of
    MaxPieces,
    Names,              \* the names the pointers into a document are made of
    Depth,              \* the most tokens of such a pointer
    Scalars,            \* the values that are held at first
    MaxNodes,           \* bound on the values in the document and the one held
    Leaves,             \* the patterns that match one unit
    Quantifiers,        \* <<least, most>> times, 0 most for any number
    MaxPattern,         \* bound on the parts of the patterns on the stack
    Subjects            \* the texts the patterns are searched in

VARIABLES text, pieces, doc, held, patterns
asked == <<text, pieces, doc, held, patterns>>

Rx == INSTANCE JsonRegex

One == Zero + 1

Pointers == UNION {[1..n -> {Token(name, IndexOf(name)) : name \in Names}] : n \in 0..Depth}

-------------------------------------------------------------------------------
(* Patterns: <<"unit", leaf>>, <<"times", e, least, most>>, <<"both", e, f>> and
   <<"either", e, f>>, written with parentheses where precedence needs them. *)
RECURSIVE Parts(_)
Parts(e) == CASE e[1] = "unit" -> 1
              [] e[1] = "times" -> 1 + Parts(e[2])
              [] OTHER -> 1 + Parts(e[2]) + Parts(e[3])

RECURSIVE Nodes(_)
Nodes(x) == IF x.k \notin {"Array", "Object"} THEN 1
            ELSE FoldLeft(LAMBDA n, i : n + Nodes(Child(x, i)), 1, [i \in DOMAIN x.v |-> i])

Grouped(units, needed) == IF needed THEN <<Rx!LParen>> \o units \o <<Rx!RParen>> ELSE units

QuantifierText(least, most) ==
    CASE <<least, most>> = <<0, 0>> -> <<Star>>
      [] <<least, most>> = <<1, 0>> -> <<Plus>>
      [] <<least, most>> = <<0, 1>> -> <<Rx!Question>>
      [] OTHER -> <<LBrace>> \o DigitsOf(least)
                  \o (IF most = least THEN <<>> ELSE IF most = 0 THEN <<Comma>>
                      ELSE <<Comma>> \o DigitsOf(most))
                  \o <<RBrace>>

RECURSIVE PatternText(_)
PatternText(e) ==
    CASE e[1] = "unit" -> e[2].units
      [] e[1] = "times" -> Grouped(PatternText(e[2]), e[2][1] # "unit") \o QuantifierText(e[3], e[4])
      [] e[1] = "both" -> Grouped(PatternText(e[2]), e[2][1] = "either")
                          \o Grouped(PatternText(e[3]), e[3][1] \in {"either", "both"})
      [] OTHER -> PatternText(e[2]) \o <<Rx!Bar>> \o Grouped(PatternText(e[3]), e[3][1] = "either")

RECURSIVE Ends(_, _, _), EndsAfter(_, _, _, _)
\* The positions at which a match of e that begins at i may end.
Ends(e, s, i) ==
    CASE e[1] = "unit" -> IF i <= Len(s) /\ s[i] \in e[2].means THEN {i + 1} ELSE {}
      [] e[1] = "both" -> UNION {Ends(e[3], s, j) : j \in Ends(e[2], s, i)}
      [] e[1] = "either" -> Ends(e[2], s, i) \cup Ends(e[3], s, i)
      [] OTHER -> UNION {EndsAfter(e[2], s, i, n) :
                         n \in e[3]..(IF e[4] = 0 THEN e[3] + Len(s) ELSE e[4])}
EndsAfter(e, s, i, n) ==
    IF n = 0 THEN {i} ELSE UNION {Ends(e, s, j) : j \in EndsAfter(e, s, i, n - 1)}

-------------------------------------------------------------------------------
Grow == /\ doc = Null /\ held = Null /\ patterns = <<>> /\ pieces < MaxPieces
        /\ \E piece \in Pieces : text' = text \o piece
        /\ pieces' = pieces + 1
        /\ UNCHANGED <<doc, held, patterns>>

AskDocument == text = <<>> /\ patterns = <<>>
OnDocument == /\ Nodes(doc') + Nodes(held') <= MaxNodes
              /\ UNCHANGED <<text, pieces, patterns>>

\* A value to give to the document.
Hold == /\ AskDocument
        /\ \E y \in Scalars : held' = y
        /\ doc' = doc
        /\ OnDocument

CreateValue == /\ AskDocument
               /\ \E p \in Pointers : doc' = Create(doc, p).v
               /\ held' = held
               /\ OnDocument

\* Set moves a value in, or leaves a copy of it.
SetValue == /\ AskDocument
            /\ \E p \in Pointers : doc' = Set(doc, p, held)
            /\ held' \in {held, Null}
            /\ OnDocument

SetDefault == /\ AskDocument
              /\ \E p \in Pointers : doc' = GetWithDefault(doc, p, held)
              /\ held' = held
              /\ OnDocument

SwapValue == /\ AskDocument
             /\ \E p \in Pointers : LET r == Swap(doc, p, held) IN doc' = r.v /\ held' = r.y
             /\ OnDocument

EraseValue == /\ AskDocument
              /\ \E p \in Pointers : Erase(doc, p).ok /\ doc' = Erase(doc, p).v
              /\ held' = held
              /\ OnDocument

\* A pattern is as valid where it stands in another one as by itself.
AskPatterns == text = <<>> /\ doc = Null /\ held = Null
OnPatterns == /\ FoldLeft(LAMBDA n, e : n + Parts(e), 0, patterns') <= MaxPattern
              /\ UNCHANGED <<text, pieces, doc, held>>

Leaf == /\ AskPatterns
        /\ \E leaf \in Leaves : patterns' = Append(patterns, <<"unit", leaf>>)
        /\ OnPatterns
Times == /\ AskPatterns /\ patterns # <<>>
         /\ \E q \in Quantifiers :
               patterns' = [patterns EXCEPT ![Len(patterns)] = <<"times", @, q[1], q[2]>>]
         /\ OnPatterns
Joined == /\ AskPatterns /\ Len(patterns) > 1
          /\ \E how \in {"both", "either"} :
                patterns' = Append(Front(Front(patterns)), <<how, Last(Front(patterns)), Last(patterns)>>)
          /\ OnPatterns

QueryInit == text = <<>> /\ pieces = 0 /\ doc = Null /\ held = Null /\ patterns = <<>>
QueryNext == \/ Grow
             \/ Hold \/ CreateValue \/ SetValue \/ SetDefault \/ SwapValue \/ EraseValue
             \/ Leaf \/ Times \/ Joined
QuerySpec == QueryInit /\ [][QueryNext]_asked

-------------------------------------------------------------------------------
(* Properties. *)

\* The number a name denotes, if it is written as an index.
Canonical(name) == /\ name # <<>> /\ ToSet(name) \subseteq Digits
                   /\ Len(name) > 1 => name[1] # Zero
IndexMeant(name) ==
    IF Canonical(name) /\ Value(name) < NoIndex THEN Value(name) ELSE NoIndex

\* No number that a SizeType cannot hold: ParsePointer misses some of those that wrap.
FitsSizeType(name) == Canonical(name) => Value(name) <= NoIndex

\* What RFC 6901 has stand between the solidi for a name: ~0 for a tilde and ~1
\* for a solidus.
TildeForm(name) ==
    FlattenSeq([k \in DOMAIN name |-> CASE name[k] = Tilde -> <<Tilde, Zero>>
                                        [] name[k] = Slash -> <<Tilde, One>>
                                        [] OTHER -> <<name[k]>>])

\* The text was read as r.
AsWritten(r) ==
    /\ At(text, 1) # Hash =>
          /\ r.valid <=> /\ text = <<>> \/ text[1] = Slash
                         /\ \A p \in DOMAIN text :
                               text[p] = Tilde => At(text, p + 1) \in {Zero, One}
          /\ r.valid => text = FlattenSeq([k \in DOMAIN r.tokens |->
                                             <<Slash>> \o TildeForm(r.tokens[k].name)])
          /\ \A k \in DOMAIN r.tokens : FitsSizeType(r.tokens[k].name) =>
                r.tokens[k].index = IndexMeant(r.tokens[k].name)
    /\ r.valid =>
          \A uri \in BOOLEAN :
             LET s == Stringify(r.tokens, uri) IN s.ok => ParsePointer(s.text).tokens = r.tokens

\* Parse accepts exactly the texts of RFC 6901 (the empty one, or one that begins
\* with a solidus and whose tildes are followed by 0 or 1), gives each token the
\* name it stands for and, as long as the number fits in a SizeType, the index it
\* is written as; and what Stringify and StringifyUriFragment write of the tokens of any text Parse has accepted is read
\* back as the same tokens (Parse, pointer.h:862; Stringify, pointer.h:1000).
PointerReadsBack == AsWritten(ParsePointer(text))

\* A name of digits is an index exactly if its number is a SizeType other than
\* kPointerInvalidIndex (pointer.h:90: "or the numeric value is out of bound
\* (greater than limits of SizeType), they are only treated as string form").  That
\* is more than PointerReadsBack says, and not so: a number that wraps past the digit
\* before it goes unnoticed by the test of pointer.h:969.  No run checks it.
IndexInBounds ==
    LET r == ParsePointer(text) IN
    \A k \in DOMAIN r.tokens : r.tokens[k].index = IndexMeant(r.tokens[k].name)

\* q leads somewhere p does not lead through, and where making p changes nothing.
Beside(p, q) ==
    /\ Get(doc, q).ok
    /\ \E k \in DOMAIN p :
          LET at == Get(doc, SubSeq(p, 1, k - 1)) IN
          /\ at.ok /\ k <= Len(q)
          /\ Create(doc, SubSeq(p, 1, k - 1)).path = Create(doc, SubSeq(q, 1, k - 1)).path
          /\ \/ at.v.k = "Object"
             \/ at.v.k = "Array" /\ (p[k].index # NoIndex \/ p[k].name = <<Minus>>)
          /\ Place(at.v, p[k]) # Place(at.v, q[k])

\* p is used on the document: Create gives c, Set makes it `new` and GetWithDefault `filled`.
SetThere(p, c, new, filled) ==
    LET adds == \E k \in DOMAIN p : p[k].name = <<Minus>> IN
    /\ c.exist <=> Get(doc, p).ok
    /\ c.exist => c.v = doc
    /\ filled = IF c.exist THEN doc ELSE new
    /\ ~adds => Get(new, p).ok /\ Get(new, p).v = held
    /\ Get(c.v, p).ok \/ adds
    /\ \A q \in Pointers : Beside(p, q) => Get(new, q) = Get(doc, q)

\* Erasing p from the document gives r.
ErasedThere(p, r) ==
    LET was == Get(doc, Front(p)).v
        is == Get(r.v, Front(p)).v
        i == Place(was, Last(p))
    IN  /\ r.ok <=> p # <<>> /\ Get(doc, p).ok
        /\ ~r.ok => r.v = doc
        /\ r.ok => /\ Nodes(r.v) = Nodes(doc) - Nodes(Get(doc, p).v)
                   /\ is.v = [k \in 1..Len(was.v) - 1 |-> was.v[IF k < i THEN k ELSE k + 1]]
                   /\ \A q \in Pointers : Beside(p, q) /\ ~IsPrefix(Front(p), q) =>
                         Get(r.v, q) = Get(doc, q)

\* Whatever a pointer is used for, it acts at its own place only: Create tells
\* that the value was there exactly if Get finds it, and then changes nothing;
\* after Set the pointer leads to the value, unless it has a "-" (an element
\* that is added anew); and every value beside the pointer's way stays as it was,
\* also when arrays are filled up to the index and containers appear on the way
\* (Create, pointer.h:461; Set, pointer.h:670; GetWithDefault, pointer.h:593).
\* Erase takes out the value the pointer leads to and nothing else: it refuses
\* exactly the root and what Get does not find, a member leaves the other members
\* of its object in their order, and the later elements of an array move down by
\* one (Erase, pointer.h:771; EraseMember and not RemoveMember).
ChangesOnlyThere ==
    text = <<>> /\ patterns = <<>> => \A p \in Pointers :
        /\ SetThere(p, Create(doc, p), Set(doc, p, held), GetWithDefault(doc, p, held))
        /\ ErasedThere(p, Erase(doc, p))

\* re is e, anchored before and after.
Exact(e, before, after, re) ==
    /\ re.valid
    /\ re.anchorBegin = before /\ re.anchorEnd = after
    /\ Rx!Returns(re) =>
         \A s \in Subjects :
            /\ Rx!Match(re, s) <=> Len(s) + 1 \in Ends(e, s, 1)
            /\ 1 \notin Ends(e, <<>>, 1) =>
                 (Rx!Search(re, s) <=>
                    \E i \in 1..Len(s) : \E j \in Ends(e, s, i) :
                       (before => i = 1) /\ (after => j = Len(s) + 1))

\* A pattern matches a text exactly if the text is in its language, and a search
\* finds it exactly if some stretch of the text is, with ^ from its start and
\* with $ to its end (Match, internal/regex.h:629; Search, 639).  This is so of
\* the patterns whose automaton has no loop of empty moves, which the code would
\* follow for ever, and, for a search, of those that do not match the empty text:
\* the threads the search begins with are not looked at before the first unit.
\* An anchor is put before or after the whole of a pattern that is no alternative
\* (of ^a|b the code anchors both alternatives, the usual reading only the first);
\* anchors inside a pattern are not spoken of.
SearchIsExact ==
    \A before, after \in BOOLEAN :
       LET e == patterns[1] IN
       Len(patterns) = 1 /\ (before \/ after => e[1] # "either") =>
          Exact(e, before, after, Rx!Regex((IF before THEN <<Rx!Caret>> ELSE <<>>) \o PatternText(e)
                                           \o (IF after THEN <<Rx!Dollar>> ELSE <<>>)))
===============================================================================

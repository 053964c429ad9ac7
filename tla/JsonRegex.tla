------------------------------- MODULE JsonRegex -------------------------------
(* The regular expressions of internal/regex.h: a pattern is read in one pass
   with an operator and an operand stack into a nondeterministic automaton, and
   a search runs all its threads over the subject at once.  A state has two ways
   out; an operand's open ends are chained through the `out` of their states, as
   in the code.  Index 0 stands for kRegexInvalidState and kRegexInvalidRange. *)
EXTENDS JsonText

Invalid == 0
AnyCharacter == -1                              \* kAnyCharacterClass
RangeClass == -2                                \* kRangeCharacterClass
Infinity == 1000                                \* kInfinityQuantifier

Caret == 94  Dollar == 36  Bar == 124  LParen == 40  RParen == 41  Question == 63

Top(s) == s[Len(s)]
Popped(s, n) == SubSeq(s, 1, Len(s) - n)

\* A parse: `end` is "assert" where an assertion fails, "stop" where it gives up.
Begun == [at |-> 1, nfa |-> <<>>, ranges |-> <<>>, operands |-> <<>>, operators |-> <<>>,
          atoms |-> <<0>>, anchorBegin |-> FALSE, anchorEnd |-> FALSE, end |-> "no"]
Stop(p) == [p EXCEPT !.end = "stop"]
Aborted(p) == [p EXCEPT !.end = "assert"]

-------------------------------------------------------------------------------
(* The automaton under construction. *)
NewState(p, out, out1, cp) ==
    [p EXCEPT !.nfa = Append(@, [out |-> out, out1 |-> out1, cp |-> cp, range |-> Invalid])]

PushFrag(p, start, out, min) ==
    [p EXCEPT !.operands = Append(@, [start |-> start, out |-> out, min |-> min])]

PushOperand(p, cp) ==
    LET q == NewState(p, Invalid, Invalid, cp)
        s == Len(q.nfa)
    IN  PushFrag(q, s, s, s)

RECURSIVE Chain(_, _)
\* The states of a chain of open ends.
Chain(nfa, l) == IF l = Invalid THEN <<>> ELSE <<l>> \o Chain(nfa, nfa[l].out)

\* Append: the second chain behind the first; Patch: every end leads to s.
Append2(nfa, l1, l2) == [nfa EXCEPT ![Top(Chain(nfa, l1))].out = l2]
Patch(nfa, l, s) ==
    [i \in DOMAIN nfa |-> IF i \in Range(Chain(nfa, l)) THEN [nfa[i] EXCEPT !.out = s] ELSE nfa[i]]

\* Two operands become one.
Concatenated(p) ==
    LET e2 == Top(p.operands)
        e1 == Top(Popped(p.operands, 1))
    IN  PushFrag([p EXCEPT !.operands = Popped(@, 2), !.nfa = Patch(@, e1.out, e2.start)],
                 e1.start, e2.out, Min({e1.min, e2.min}))

Alternated(p) ==
    LET e2 == Top(p.operands)
        e1 == Top(Popped(p.operands, 1))
        q == NewState([p EXCEPT !.operands = Popped(@, 2)], e1.start, e2.start, 0)
    IN  PushFrag([q EXCEPT !.nfa = Append2(@, e1.out, e2.out)],
                 Len(q.nfa), e1.out, Min({e1.min, e2.min}))

\* Mutant of Repeated: `+` may leave out its operand as `*` does.
RepeatedLoose(p, op) ==
    LET e == Top(p.operands)
        q == NewState([p EXCEPT !.operands = Popped(@, 1)], Invalid, e.start, 0)
        s == Len(q.nfa)
    IN  IF op = "ZeroOrOne"
        THEN PushFrag([q EXCEPT !.nfa = Append2(@, e.out, s)], s, e.out, e.min)
        ELSE PushFrag([q EXCEPT !.nfa = Patch(@, e.out, s)], s, s, e.min)

\* ?, * and +: a state that goes into the operand or around it.
Repeated(p, op) ==
    LET e == Top(p.operands)
        q == NewState([p EXCEPT !.operands = Popped(@, 1)], Invalid, e.start, 0)
        s == Len(q.nfa)
    IN  CASE op = "ZeroOrOne" -> PushFrag([q EXCEPT !.nfa = Append2(@, e.out, s)], s, e.out, e.min)
          [] op = "ZeroOrMore" -> PushFrag([q EXCEPT !.nfa = Patch(@, e.out, s)], s, s, e.min)
          [] op = "OneOrMore" -> PushFrag([q EXCEPT !.nfa = Patch(@, e.out, s)], e.start, s, e.min)

Eval(p, op) ==
    LET needs == IF op \in {"Concatenation", "Alternation"} THEN 2 ELSE 1 IN
    IF op = "LeftParenthesis" THEN Stop(p)
    ELSE IF Len(p.operands) < needs THEN IF op = "Concatenation" THEN Aborted(p) ELSE Stop(p)
    ELSE IF op = "Concatenation" THEN Concatenated(p)
    ELSE IF op = "Alternation" THEN Alternated(p)
    ELSE Repeated(p, op)

RECURSIVE Reduce(_, _)
\* Operators that bind tighter than those in `until` are applied to what is there.
Reduce(p, until) ==
    IF p.end # "no" \/ p.operators = <<>> \/ Top(p.operators) \in until THEN p
    ELSE Reduce(Eval([p EXCEPT !.operators = Popped(@, 1)], Top(p.operators)), until)

\* An atom that is not the first of its alternative is joined to the one before.
ImplicitConcatenation(p) ==
    [p EXCEPT !.operators = IF Top(p.atoms) > 0 THEN Append(@, "Concatenation") ELSE @,
              !.atoms[Len(p.atoms)] = @ + 1]

-------------------------------------------------------------------------------
(* {n,m}: the operand is copied, states and all. *)
CloneTopOperand(p) ==
    LET e == Top(p.operands)
        count == Len(p.nfa) - e.min + 1
        moved(i) == IF i = Invalid THEN Invalid ELSE i + count
        copies == [j \in 1..count |-> [p.nfa[e.min + j - 1] EXCEPT !.out = moved(@), !.out1 = moved(@)]]
    IN  PushFrag([p EXCEPT !.nfa = @ \o copies], e.start + count, e.out + count, e.min + count)

Times(n, F(_), p) == FoldLeft(LAMBDA q, i : F(q), p, [i \in 1..n |-> i])
Clones(p, n) == Times(n, CloneTopOperand, p)
Joined(p, n) == Times(n, Concatenated, p)

\* The last of n copies, and what may come behind it.
LastCopy(copies, n, m) ==
    CASE m = Infinity -> Repeated(copies, "OneOrMore")
      [] m = n -> copies
      [] OTHER -> Joined(Clones(Repeated(CloneTopOperand(copies), "ZeroOrOne"), m - n - 1), m - n)

EvalQuantifier(p, n, m) ==
    IF p.operands = <<>> THEN Aborted(p)
    ELSE IF m = 0 THEN Stop(p)
    ELSE IF n = 0 /\ m = Infinity THEN Repeated(p, "ZeroOrMore")
    ELSE IF n = 0 THEN Joined(Clones(Repeated(p, "ZeroOrOne"), m - 1), m - 1)
    ELSE Joined(LastCopy(Clones(p, n - 1), n, m), n - 1)

\* ParseUnsigned: no number at all is an error.  (Bounds near 2^32 are left out.)
Unsigned(t, at) ==
    LET end == Past(t, at, Digits) IN
    [ok |-> end > at, n |-> Value(SubSeq(t, at, end - 1)), at |-> end]

UpperBound(t, n) ==
    CASE At(t, n.at) # Comma -> n
      [] At(t, n.at) = Comma /\ At(t, n.at + 1) = RBrace ->
            [ok |-> TRUE, n |-> Infinity, at |-> n.at + 1]
      [] OTHER -> Unsigned(t, n.at + 1)

\* Behind the bounds, which the operand of q obeys.
Repeats(t, q, at) == CASE q.end # "no" -> q
                       [] q.end = "no" /\ At(t, at) # RBrace -> Stop(q)
                       [] OTHER -> [q EXCEPT !.at = at + 1]
Between(t, p, n, m) == IF ~n.ok \/ ~m.ok \/ m.n < n.n THEN Stop(p)
                       ELSE Repeats(t, EvalQuantifier(p, n.n, m.n), m.at)
FromBound(t, p, n) == Between(t, p, n, UpperBound(t, n))
Quantifier(t, p) == FromBound(t, p, Unsigned(t, p.at))

-------------------------------------------------------------------------------
(* Characters and classes. *)
Plainly == {Caret, Dollar, Bar, LParen, RParen, Question, Star, Plus, Dot, LBracket, RBracket,
            LBrace, RBrace, Backslash}
CharacterEscape(c) ==
    CASE c \in Plainly -> [ok |-> TRUE, cp |-> c]
      [] c = Ch.f -> [ok |-> TRUE, cp |-> FF]
      [] c = Ch.n -> [ok |-> TRUE, cp |-> LF]
      [] c = Ch.r -> [ok |-> TRUE, cp |-> CR]
      [] c = Ch.t -> [ok |-> TRUE, cp |-> Tab]
      [] c = 118 -> [ok |-> TRUE, cp |-> 11]
      [] OTHER -> [ok |-> FALSE, cp |-> 0]

NewRange(ranges, c) == Append(ranges, [from |-> c, to |-> c])

RECURSIVE ClassAt(_, _, _, _)
\* ParseRange from position `at`: the ranges of the class so far, and whether the
\* next character may begin a span (1) or ends one (2).
ClassAt(t, at, ranges, step) ==
    LET c == At(t, at)
        escaped == IF c # Backslash THEN [ok |-> TRUE, cp |-> c]
                   ELSE IF At(t, at + 1) = Ch.b THEN [ok |-> TRUE, cp |-> Backspace]
                   ELSE CharacterEscape(At(t, at + 1))
        next == IF c = Backslash THEN at + 2 ELSE at + 1
        refused == [ok |-> FALSE, at |-> at, ranges |-> <<>>]
    IN  IF c = 0 \/ ~escaped.ok THEN refused
        ELSE IF c = RBracket /\ ranges = <<>> THEN refused
        ELSE IF c = RBracket THEN
                [ok |-> TRUE, at |-> next,
                 ranges |-> IF step = 2 THEN NewRange(ranges, Minus) ELSE ranges]
        ELSE IF step = 1 /\ escaped.cp = Minus THEN ClassAt(t, next, ranges, 2)
        ELSE IF step = 2 THEN ClassAt(t, next, [ranges EXCEPT ![Len(ranges)].to = escaped.cp], 0)
        ELSE ClassAt(t, next, NewRange(ranges, escaped.cp), 1)

\* A class is kept whole, with whether it is negated.
Class(t, p) ==
    LET negate == At(t, p.at) = Caret
        of(class) == [p EXCEPT !.at = class.at,
                               !.ranges = Append(@, [negate |-> negate, spans |-> class.ranges])]
        atom(q) == ImplicitConcatenation([q EXCEPT !.nfa[Len(q.nfa)].range = Len(q.ranges)])
        taken(class) == IF class.ok THEN atom(PushOperand(of(class), RangeClass)) ELSE Stop(p)
    IN  taken(ClassAt(t, IF negate THEN p.at + 1 ELSE p.at, <<>>, 0))

MatchRange(class, c) ==
    (\E i \in DOMAIN class.spans : c \in class.spans[i].from..class.spans[i].to) # class.negate

-------------------------------------------------------------------------------
(* The pattern. *)
Closed(p) ==
    LET reduced(q) ==
            CASE q.end # "no" -> q
              [] q.end = "no" /\ q.operators = <<>> -> Stop(q)
              [] OTHER -> ImplicitConcatenation(
                             [q EXCEPT !.operators = Popped(@, 1), !.atoms = Popped(@, 1)])
    IN  reduced(Reduce(p, {"LeftParenthesis"}))

Alternative(p) ==
    LET reduced(q) == [q EXCEPT !.operators = Append(@, "Alternation"), !.atoms[Len(q.atoms)] = 0]
    IN  reduced(Reduce(p, {"Alternation", "LeftParenthesis"}))

Atom(p, cp) == ImplicitConcatenation(PushOperand(p, cp))

\* One turn of the loop over the pattern: p is past the character c.
Step(t, p, c) ==
    CASE c = Caret -> [p EXCEPT !.anchorBegin = TRUE]
      [] c = Dollar -> [p EXCEPT !.anchorEnd = TRUE]
      [] c = Bar -> Alternative(p)
      [] c = LParen -> [p EXCEPT !.operators = Append(@, "LeftParenthesis"), !.atoms = Append(@, 0)]
      [] c = RParen -> Closed(p)
      [] c = Question -> Eval(p, "ZeroOrOne")
      [] c = Star -> Eval(p, "ZeroOrMore")
      [] c = Plus -> Eval(p, "OneOrMore")
      [] c = LBrace -> Quantifier(t, p)
      [] c = Dot -> Atom(p, AnyCharacter)
      [] c = LBracket -> Class(t, p)
      [] c = Backslash ->
            LET plain(e) == IF e.ok THEN Atom([p EXCEPT !.at = @ + 1], e.cp) ELSE Stop(p)
            IN  plain(CharacterEscape(At(t, p.at)))
      [] OTHER -> Atom(p, c)

RECURSIVE ParseFrom(_, _)
ParseFrom(t, p) ==
    IF p.end # "no" \/ At(t, p.at) = 0 THEN p
    ELSE ParseFrom(t, Step(t, [p EXCEPT !.at = @ + 1], At(t, p.at)))

\* GenericRegex: valid if exactly one operand is left; its open ends lead to the
\* state that matches.
Regex(t) ==
    LET matching(e, q) ==
            [valid |-> TRUE, root |-> e.start, nfa |-> Patch(q.nfa, e.out, Len(q.nfa)),
             ranges |-> q.ranges, anchorBegin |-> q.anchorBegin, anchorEnd |-> q.anchorEnd]
        of(p) == IF p.end = "no" /\ Len(p.operands) = 1
                 THEN matching(Top(p.operands), NewState(p, Invalid, Invalid, 0))
                 ELSE [valid |-> FALSE, aborts |-> p.end = "assert"]
    IN  of(Reduce(ParseFrom(t, Begun), {}))

-------------------------------------------------------------------------------
(* The search. *)
RECURSIVE AddState(_, _, _)
\* The states a thread at state i stands for.  `via` are the splits it came
\* through: the code keeps no such record and does not return from a loop of splits.
AddState(nfa, i, via) ==
    IF nfa[i].out1 = Invalid THEN {i}
    ELSE IF i \in via THEN {}
    ELSE AddState(nfa, nfa[i].out, via \cup {i}) \cup AddState(nfa, nfa[i].out1, via \cup {i})

\* A chain of splits that comes back to where it was.
RECURSIVE Loops(_, _, _)
Loops(nfa, i, via) ==
    /\ nfa[i].out1 # Invalid
    /\ \/ i \in via
       \/ Loops(nfa, nfa[i].out, via \cup {i}) \/ Loops(nfa, nfa[i].out1, via \cup {i})
Returns(re) == \A i \in DOMAIN re.nfa : ~Loops(re.nfa, i, {})

Matching(re, threads) == \E i \in threads : re.nfa[i].out = Invalid /\ re.nfa[i].out1 = Invalid

Accepts(re, s, c) ==
    \/ s.cp \in {c, AnyCharacter}
    \/ s.cp = RangeClass /\ MatchRange(re.ranges[s.range], c)

\* SearchWithAnchoring, one character: the threads that accept it go on, and
\* unless the match must begin the subject a new one starts, which cannot match
\* before another character is read.
Advance(re, m, c, anchorBegin, anchorEnd) ==
    LET moved == UNION {AddState(re.nfa, re.nfa[i].out, {}) :
                        i \in {j \in m.threads : Accepts(re, re.nfa[j], c)}}
        found == Matching(re, moved)
        fresh == IF anchorBegin THEN {} ELSE AddState(re.nfa, re.root, {})
    IN  IF m.threads = {} \/ m.done THEN m
        ELSE [threads |-> moved \cup fresh, matched |-> found, done |-> ~anchorEnd /\ found]

SearchWithAnchoring(re, s, anchorBegin, anchorEnd) ==
    LET start == AddState(re.nfa, re.root, {}) IN
    FoldLeft(LAMBDA m, c : Advance(re, m, c, anchorBegin, anchorEnd),
             [threads |-> start, matched |-> Matching(re, start), done |-> FALSE], s).matched

Match(re, s) == SearchWithAnchoring(re, s, TRUE, TRUE)
Search(re, s) == SearchWithAnchoring(re, s, re.anchorBegin, re.anchorEnd)
===============================================================================

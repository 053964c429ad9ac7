------------------------------ MODULE JsonWriter ------------------------------
(* Writer (writer.h) and PrettyWriter (prettywriter.h): the handler that turns
   events into a text.  Its state w is the text put out so far, a stack of levels
   that counts the values of every open array and object (a name and its value
   count as two), whether there is a root, and whether every call was answered
   with true.  The options o say where the two writers, their flags and their
   target encodings differ. *)
EXTENDS JsonValue

Plain == [pretty |-> FALSE, oneLine |-> FALSE, ascii |-> FALSE, validate |-> FALSE,
          indent |-> 0, places |-> 324, flags |-> {}]

\* Reset and the constructors: the level stack is empty, no root yet.
Fresh == [out |-> <<>>, levels |-> <<>>, root |-> FALSE, ok |-> TRUE]

Wrote(w, units) == [w EXCEPT !.out = @ \o units]
Asserted(w) == [w EXCEPT !.ok = FALSE]

HexText(n) == IF n < 10 THEN Zero + n ELSE Ch.A + (n - 10)
UnicodeText(cp) ==
    <<Backslash, Ch.u>> \o [k \in 1..4 |-> HexText((cp \div 16 ^ (4 - k)) % 16)]

\* What stands behind the backslash of a unit that must be escaped, 0 if it need not be.
EscapeOf(c) == CASE c \in {Quote, Backslash} -> c
                 [] c = Backspace -> Ch.b [] c = Tab -> Ch.t [] c = LF -> Ch.n
                 [] c = FF -> Ch.f [] c = CR -> Ch.r
                 [] OTHER -> IF c < Space THEN Ch.u ELSE 0

\* Mutant of Escaped: control characters are escaped by their letter or not at all.
EscapedByLetter(c) == IF EscapeOf(c) = Ch.u THEN <<c>> ELSE <<Backslash, EscapeOf(c)>>

Escaped(c) == IF EscapeOf(c) = Ch.u THEN UnicodeText(c) ELSE <<Backslash, EscapeOf(c)>>

\* A code point the target encoding cannot hold.
AsciiText(cp) ==
    IF cp < 65536 THEN UnicodeText(cp)
    ELSE UnicodeText((cp - 65536) \div 1024 + 55296) \o UnicodeText(((cp - 65536) % 1024) + 56320)

RECURSIVE Inside(_, _, _, _)
\* WriteString's loop from position p on: `ok` is FALSE if a unit could not be
\* decoded, and the text ends there.
Inside(s, p, out, o) ==
    LET d == Decode("UTF8", s, p)
        x == Transcode("UTF8", "UTF8", o.validate, s, p)
    IN  IF p > Len(s) THEN [ok |-> TRUE, units |-> Append(out, Quote)]
        ELSE IF o.ascii /\ s[p] >= 128 THEN
                IF d.ok THEN Inside(s, d.next, out \o AsciiText(d.cp), o)
                ELSE [ok |-> FALSE, units |-> out]
        ELSE IF EscapeOf(s[p]) # 0 THEN Inside(s, p + 1, out \o Escaped(s[p]), o)
        ELSE IF x.ok THEN Inside(s, x.next, out \o x.units, o)
                      ELSE [ok |-> FALSE, units |-> out \o x.units]

WriteString(s, o) == Inside(s, 1, <<Quote>>, o)

-------------------------------------------------------------------------------
Indent(w, o) == <<LF>> \o [k \in 1..Len(w.levels) * o.indent |-> Space]

\* What Prefix puts before a value that is not the root.
Separator(level) ==
    IF level.n = 0 THEN <<>>
    ELSE IF level.inArray \/ level.n % 2 = 0 THEN <<Comma>>
    ELSE <<Colon>>

\* What PrettyPrefix puts there.
PrettySeparator(w, level, o) ==
    IF level.inArray /\ o.oneLine THEN IF level.n > 0 THEN <<Comma, Space>> ELSE <<>>
    ELSE IF level.inArray THEN Separator(level) \o Indent(w, o)
    ELSE IF level.n % 2 = 1 THEN <<Colon, Space>>
    ELSE Separator(level) \o Indent(w, o)

\* Prefix and PrettyPrefix: a second root and a name that is no string are asserted.
Prefix(w, string, o) ==
    LET level == Last(w.levels)
        counted == [w EXCEPT !.levels[Len(w.levels)].n = @ + 1]
    IN  IF w.levels = <<>> /\ w.root THEN Asserted(w)
        ELSE IF w.levels = <<>> THEN [w EXCEPT !.root = TRUE]
        ELSE IF ~level.inArray /\ level.n % 2 = 0 /\ ~string THEN Asserted(w)
        ELSE Wrote(counted, IF o.pretty THEN PrettySeparator(w, level, o)
                                     ELSE Separator(level))

Opened(w, inArray, unit, o) ==
    LET p == Prefix(w, FALSE, o) IN
    Wrote([p EXCEPT !.levels = Append(@, [inArray |-> inArray, n |-> 0])], <<unit>>)

\* EndObject and EndArray: not at the root, not of the other kind, and no name
\* without a value.
Ended(w, inArray, unit, o) ==
    LET level == Last(w.levels)
        popped == [w EXCEPT !.levels = Front(@)]
        broken == o.pretty /\ level.n > 0 /\ ~(inArray /\ o.oneLine)
    IN  IF w.levels = <<>> \/ level.inArray # inArray \/ (~inArray /\ level.n % 2 = 1)
        THEN Asserted(w)
        ELSE Wrote(popped, (IF broken THEN Indent(popped, o) ELSE <<>>) \o <<unit>>)

\* The value's own text behind its prefix; a text of no JSON value answers false.
ScalarText(event, o) ==
    CASE event.k = "Null" -> [ok |-> TRUE, units |-> <<Ch.n, Ch.u, Ch.l, Ch.l>>]
      [] event.k = "True" -> [ok |-> TRUE, units |-> <<Ch.t, Ch.r, Ch.u, Ch.e>>]
      [] event.k = "False" -> [ok |-> TRUE, units |-> <<Ch.f, Ch.a, Ch.l, Ch.s, Ch.e>>]
      [] event.k = "Double" -> DoubleText(event.v, o.places, o.flags)
      [] event.k \in {"Int", "Uint", "Int64", "Uint64"} -> [ok |-> TRUE, units |-> IntText(event.v)]
      [] OTHER -> WriteString(event.v, o)

\* One call of the writer.
Put(w, event, o) ==
    LET p == Prefix(w, event.k \in {"String", "Key"}, o)
        with(scalar) == [Wrote(p, scalar.units) EXCEPT !.ok = @ /\ scalar.ok]
    IN  CASE event.k = "StartObject" -> Opened(w, FALSE, LBrace, o)
          [] event.k = "StartArray" -> Opened(w, TRUE, LBracket, o)
          [] event.k = "EndObject" -> Ended(w, FALSE, RBrace, o)
          [] event.k = "EndArray" -> Ended(w, TRUE, RBracket, o)
          [] OTHER -> with(ScalarText(event, o))

Written(events, o) == FoldLeft(LAMBDA w, e : IF w.ok THEN Put(w, e, o) ELSE w, Fresh, events)

\* IsComplete: there is a root and no level is open.
IsComplete(w) == w.root /\ w.levels = <<>>
===============================================================================

------------------------------ MODULE JsonReader ------------------------------
(* GenericReader (reader.h): the recursive parser, its iterative twin and the
   incremental interface of the twin, all of which hand SAX events to a handler.
   The recursive parser is an operator on r, the state of one parse: `at` the
   position of the stream, `ev` the events handed over, `err` and `off` the
   parse result, and `refuse` the number of the event to which the handler
   answers false, 0 if it takes them all.  JsonIterative has the iterative one. *)
EXTENDS JsonNumber, JsonEncoding

Failed(r) == r.err # "None"

\* RAPIDJSON_PARSE_ERROR, which asserts that there is no error yet.
Fail(r, err, off) == [r EXCEPT !.err = IF Failed(r) THEN "Assert" ELSE err, !.off = off]

\* The handler is called; its refusal ends the parse with the offset off.
Emit(r, event, off) ==
    LET told == [r EXCEPT !.ev = Append(@, event)] IN
    IF Len(told.ev) = r.refuse THEN Fail(told, "Termination", off) ELSE told

Event(k) == [k |-> k]
Start(refuse) == [at |-> 1, ev |-> <<>>, err |-> "None", off |-> 0, refuse |-> refuse]
Moved(r, p) == [r EXCEPT !.at = p]

-------------------------------------------------------------------------------
RECURSIVE SkipWhitespaceAndComments(_, _, _)
SkipWhitespaceAndComments(t, r, flags) ==
    LET p == Past(t, r.at, White)
        closes == {q \in p + 2..Len(t) - 1 : t[q] = Star /\ t[q + 1] = Slash}
        ends == {q \in p + 2..Len(t) : t[q] = LF}
        again(q) == SkipWhitespaceAndComments(t, Moved(r, q), flags)
    IN  IF "comments" \notin flags \/ At(t, p) # Slash THEN Moved(r, p)
        ELSE IF At(t, p + 1) = Star /\ closes # {} THEN again(Min(closes) + 2)
        ELSE IF At(t, p + 1) = Star THEN Fail(Moved(r, Len(t) + 1), "UnspecificSyntaxError", Len(t))
        ELSE IF At(t, p + 1) = Slash THEN again(IF ends = {} THEN Len(t) + 1 ELSE Min(ends) + 1)
        ELSE Fail(Moved(r, p + 1), "UnspecificSyntaxError", p)

\* ParseNull, ParseTrue and ParseFalse.
ParseLiteral(t, r, word, event) ==
    LET q == r.at + Consumed(t, r.at, word) IN
    IF q = r.at + Len(word) THEN Emit(Moved(r, q), event, q - 1)
    ELSE Fail(Moved(r, q), "ValueInvalid", q - 1)

-------------------------------------------------------------------------------
HexDigit(c) == CASE c \in Digits -> c - Zero
                 [] c \in Ch.A..Ch.F -> c - Ch.A + 10
                 [] c \in Ch.a..Ch.f -> c - Ch.a + 10
                 [] OTHER -> -1

\* ParseHex4: the code point of four hexadecimal digits, -1 if they are not.
Hex4(t, p) ==
    IF \E k \in 0..3 : HexDigit(At(t, p + k)) = -1 THEN -1
    ELSE FoldLeft(LAMBDA n, k : 16 * n + HexDigit(At(t, p + k)), 0, <<0, 1, 2, 3>>)

\* What the unit behind a backslash stands for, 0 if nothing.
Escape(c) == CASE c \in {Quote, Slash, Backslash} -> c
               [] c = Ch.b -> Backspace [] c = Ch.f -> FF [] c = Ch.n -> LF
               [] c = Ch.r -> CR [] c = Ch.t -> Tab
               [] OTHER -> 0

\* The encoding of the strings handed over: another one if the flags ask for it.
Target(flags) == IF "utf16" \in flags THEN "UTF16LE" ELSE "UTF8"

\* \u and what follows it, from the backslash at p on: a pair of surrogates is
\* one code point; a low surrogate on its own is let through.
Unescaped(t, p, high, low) ==
    IF high = -1 THEN [err |-> "StringUnicodeEscapeInvalidHex"]
    ELSE IF high \notin HighSurrogates THEN [err |-> "None", cp |-> high, next |-> p + 6]
    ELSE IF ~Reads(t, p + 6, <<Backslash, Ch.u>>) THEN [err |-> "StringUnicodeSurrogateInvalid"]
    ELSE IF low = -1 THEN [err |-> "StringUnicodeEscapeInvalidHex"]
    ELSE IF low \notin LowSurrogates THEN [err |-> "StringUnicodeSurrogateInvalid"]
    ELSE [err |-> "None", next |-> p + 12,
                   cp |-> (high - 55296) * 1024 + (low - 56320) + 65536]
UnicodeEscape(t, p) == Unescaped(t, p, Hex4(t, p + 2), Hex4(t, p + 8))

RECURSIVE ParseStringToStream(_, _, _, _)
\* The units decoded so far are `out`, the stream stands at p; the result keeps
\* its offset and, as `ahead`, how far the output was behind the input.
ParseStringToStream(t, p, out, flags) ==
    LET c == At(t, p)
        u == UnicodeEscape(t, p)
        x == Transcode("UTF8", Target(flags), "validate" \in flags, t, p)
        bad(err, off) == [err |-> err, off |-> off, out |-> out, next |-> p]
        on(units, q) == ParseStringToStream(t, q, out \o units, flags)
    IN  IF c = Backslash /\ Escape(At(t, p + 1)) # 0 THEN on(<<Escape(At(t, p + 1))>>, p + 2)
        ELSE IF c = Backslash /\ At(t, p + 1) # Ch.u THEN bad("StringEscapeInvalid", p - 1)
        ELSE IF c = Backslash /\ u.err # "None" THEN bad(u.err, p - 1)
        ELSE IF c = Backslash THEN on(Encode(Target(flags), u.cp), u.next)
        ELSE IF c = Quote THEN [err |-> "None", off |-> 0, out |-> out, next |-> p + 1]
        ELSE IF c = 0 THEN bad("StringMissQuotationMark", p - 1)
        ELSE IF c < Space THEN bad("StringInvalidEncoding", p - 1)
        ELSE IF ~x.ok THEN bad("StringInvalidEncoding", p - 1)
        ELSE on(x.units, x.next)

StringDone(r, s, kind) == IF s.err # "None" THEN Fail(Moved(r, s.next), s.err, s.off)
                          ELSE Emit(Moved(r, s.next), [k |-> kind, v |-> s.out], s.next - 1)
ParseString(t, r, flags, kind) ==
    StringDone(r, ParseStringToStream(t, r.at + 1, <<>>, flags), kind)

NumberDone(r, n) == IF n.err # "None" THEN Fail(Moved(r, n.end), n.err, n.off)
                    ELSE Emit(Moved(r, n.end), n.ev, r.at - 1)
NumberInto(t, r, flags) == NumberDone(r, ParseNumber(t, r.at, flags))

-------------------------------------------------------------------------------
RECURSIVE ParseValue(_, _, _), ParseElements(_, _, _, _), ParseMembers(_, _, _, _),
          MemberValue(_, _, _, _), MemberDone(_, _, _, _)

\* Mutant of Closes: a comma may trail whatever the flags say.
ClosesLate(t, r, close, comma, flags) == At(t, r.at) = close

\* The closing bracket is due: at once, or behind a comma if the flags allow it.
Closes(t, r, close, comma, flags) ==
    At(t, r.at) = close /\ (comma => "trailingCommas" \in flags)

\* The handler sees the end before the stream moves on when a comma trailed.
End(t, r, kind, n, comma) ==
    LET closed == Emit(r, [k |-> kind, v |-> n], IF comma THEN r.at - 1 ELSE r.at) IN
    IF comma /\ Failed(closed) THEN closed ELSE Moved(closed, r.at + 1)

\* ParseArray's loop: n elements are done, and a comma stood before r if n > 0.
ParseElements(t, r, n, flags) ==
    LET v == ParseValue(t, r, flags)
        s == SkipWhitespaceAndComments(t, v, flags)
        c == SkipWhitespaceAndComments(t, Moved(s, s.at + 1), flags)
    IN  IF Failed(r) THEN r
        ELSE IF Closes(t, r, RBracket, n > 0, flags) THEN End(t, r, "EndArray", n, n > 0)
        ELSE IF Failed(v) THEN v
        ELSE IF Failed(s) THEN s
        ELSE IF At(t, s.at) = Comma THEN ParseElements(t, c, n + 1, flags)
        ELSE IF At(t, s.at) = RBracket THEN End(t, s, "EndArray", n + 1, FALSE)
        ELSE Fail(s, "ArrayMissCommaOrSquareBracket", s.at - 1)

\* ParseObject's loop.
ParseMembers(t, r, n, flags) ==
    IF Failed(r) THEN r
    ELSE IF Closes(t, r, RBrace, n > 0, flags) THEN End(t, r, "EndObject", n, n > 0)
    ELSE IF At(t, r.at) # Quote THEN Fail(r, "ObjectMissName", r.at - 1)
    ELSE MemberValue(t, ParseString(t, r, flags, "Key"), n, flags)

\* Behind a name.
MemberValue(t, name, n, flags) ==
    LET colon == SkipWhitespaceAndComments(t, name, flags)
        before == SkipWhitespaceAndComments(t, Moved(colon, colon.at + 1), flags)
    IN  IF Failed(name) THEN name
        ELSE IF Failed(colon) THEN colon
        ELSE IF At(t, colon.at) # Colon THEN Fail(colon, "ObjectMissColon", colon.at - 1)
        ELSE IF Failed(before) THEN before
        ELSE MemberDone(t, ParseValue(t, before, flags), n, flags)

\* Behind its value.
MemberDone(t, v, n, flags) ==
    LET s == SkipWhitespaceAndComments(t, v, flags)
        c == SkipWhitespaceAndComments(t, Moved(s, s.at + 1), flags)
    IN  IF Failed(v) THEN v
        ELSE IF Failed(s) THEN s
        ELSE IF At(t, s.at) = Comma THEN ParseMembers(t, c, n + 1, flags)
        ELSE IF At(t, s.at) = RBrace THEN End(t, s, "EndObject", n + 1, FALSE)
        ELSE Fail(s, "ObjectMissCommaOrCurlyBracket", s.at - 1)

ParseValue(t, r, flags) ==
    LET c == At(t, r.at)
        opened(kind) == Emit(Moved(r, r.at + 1), Event(kind), r.at)
        inside(o) == IF Failed(o) THEN o ELSE SkipWhitespaceAndComments(t, o, flags)
    IN  CASE c = Ch.n -> ParseLiteral(t, r, <<Ch.n, Ch.u, Ch.l, Ch.l>>, Event("Null"))
          [] c = Ch.t -> ParseLiteral(t, r, <<Ch.t, Ch.r, Ch.u, Ch.e>>, Event("True"))
          [] c = Ch.f -> ParseLiteral(t, r, <<Ch.f, Ch.a, Ch.l, Ch.s, Ch.e>>, Event("False"))
          [] c = Quote -> ParseString(t, r, flags, "String")
          [] c = LBrace -> ParseMembers(t, inside(opened("StartObject")), 0, flags)
          [] c = LBracket -> ParseElements(t, inside(opened("StartArray")), 0, flags)
          [] OTHER -> NumberInto(t, r, flags)

\* Behind the value of the document.
RootDone(t, v, flags) ==
    LET s == SkipWhitespaceAndComments(t, v, flags) IN
    IF Failed(v) \/ "stopWhenDone" \in flags THEN v
    ELSE IF Failed(s) THEN s
    ELSE IF At(t, s.at) # 0 THEN Fail(s, "DocumentRootNotSingular", s.at - 1)
    ELSE s

\* GenericReader::Parse.
Parse(t, flags, refuse) ==
    LET r == SkipWhitespaceAndComments(t, Start(refuse), flags) IN
    IF Failed(r) THEN r
    ELSE IF At(t, r.at) = 0 THEN Fail(r, "DocumentEmpty", r.at - 1)
    ELSE RootDone(t, ParseValue(t, r, flags), flags)
===============================================================================

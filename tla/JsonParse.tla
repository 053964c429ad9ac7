------------------------------ MODULE JsonParse ------------------------------
(* What the JSON reader and writer promise, stated over the texts JsonIterative
   puts together: the two parsers are one, the document holds what was read, what
   is written reads back, numbers and encodings are exact. *)
EXTENDS JsonIterative

Done == phase = "done"
\* The one place where the parsers name an error differently: a text that begins
\* with a separator, or is white space, is no value to one and no document to the
\* other.
NothingToRead ==
    At(text, SkipWhitespaceAndComments(text, Start(0), flags).at)
        \in {0, Comma, Colon, RBracket, RBrace}

\* The recursive parser ended as q.
Agrees(q) ==
    /\ r.ev = q.ev
    /\ \/ r.err = q.err
       \/ NothingToRead /\ {r.err, q.err} = {"DocumentEmpty", "ValueInvalid"}
    /\ r.err \notin {"None", "Termination"} => r.off = q.off

\* The iterative parser and the incremental interface hand over the same events
\* as the recursive parser, fail exactly when it fails, and then for the same
\* reason.  (The incremental one does not look at errors in comments.)
AgreesWithRecursive ==
    Done /\ ~(driver = "Next" /\ "comments" \in flags) => Agrees(Parse(text, flags, r.refuse))

-------------------------------------------------------------------------------
Pretty == [Plain EXCEPT !.pretty = TRUE, !.indent = 1]
OneLine == [Pretty EXCEPT !.oneLine = TRUE]
Ascii == [Plain EXCEPT !.ascii = TRUE, !.flags = {"writeNanAndInf"}]

RECURSIVE Ordinary(_)
\* There is no NaN, and no object with two members of one name: == finds only
\* the first of them, and such an object need not equal itself.
Ordinary(x) ==
    CASE x.k = "Object" -> /\ \A i, j \in DOMAIN x.v : x.v[i][1] = x.v[j][1] => i = j
                           /\ \A i \in DOMAIN x.v : Ordinary(x.v[i][2])
      [] x.k = "Array" -> \A i \in DOMAIN x.v : Ordinary(x.v[i])
      [] x.k = "Number" -> "Double" \in x.f => x.v.class # "nan"
      [] OTHER -> TRUE

RECURSIVE Precise(_)
\* The text of every double in x is short enough to be read with one rounding, so
\* that it is read as the double it was printed for.  (For others that is not so:
\* 7205759403792796.0 is read as 7205759403792797.0.)
Precise(x) ==
    CASE x.k = "Object" -> \A i \in DOMAIN x.v : Precise(x.v[i][2])
      [] x.k = "Array" -> \A i \in DOMAIN x.v : Precise(x.v[i])
      [] x.k = "Number" -> "Double" \in x.f /\ x.v.class = "finite" =>
                              ReadNearest(DoubleText(x.v, Plain.places, {}).units)
      [] OTHER -> TRUE

\* w is a complete text, and what was read from it is x again.
ReadsBack(x, w, again) ==
    /\ IsComplete(w)
    /\ Precise(x) => /\ again.err = "None"
                     /\ Loaded(Null, again) = x
                     /\ Ordinary(x) => Equal(Loaded(Null, again), x)

\* What a parsed document writes, plainly, indented or in ASCII, is one complete
\* text; and it reads back as the same document, in the same order, duplicate names
\* included, if its doubles are Precise: integers, strings and structure come back
\* whatever they are.  Refused are only NaN and Infinity, unless the writer may
\* write them, and, where a string must be decoded, one that is not well-formed
\* (Writer, writer.h:181; GenericValue::Accept, document.h:1868).
WriteReadsBack ==
    Done /\ ~Failed(r) /\ "utf16" \notin flags =>
        LET x == Loaded(Null, r) IN
        \A o \in {Plain, Pretty, OneLine, Ascii} :
            LET w == Written(Accept(x), o)
            IN  IF w.ok THEN ReadsBack(x, w, Parse(w.out, {"nanAndInf"}, 0))
                ELSE \/ "nanAndInf" \in flags /\ o.flags = {}
                     \/ o.ascii /\ \E i \in DOMAIN r.ev :
                            /\ r.ev[i].k \in {"String", "Key"}
                            /\ ~TranscodeAll("UTF8", "UTF8", r.ev[i].v, 1).ok

-------------------------------------------------------------------------------
\* The parts of a number's text.
Parts(t) ==
    LET minus == At(t, 1) = Minus
        int == DigitsAt(t, IF minus THEN 2 ELSE 1)
        dot == Len(int) + (IF minus THEN 2 ELSE 1)
        frac == IF At(t, dot) = Dot THEN DigitsAt(t, dot + 1) ELSE <<>>
        e == IF At(t, dot) = Dot THEN dot + 1 + Len(frac) ELSE dot
        exp == DigitsAt(t, IF At(t, e + 1) \in {Plus, Minus} THEN e + 2 ELSE e + 1)
    IN  [minus |-> minus, int |-> int, frac |-> frac, plain |-> e = Len(t) + 1 /\ dot = e,
         exp |-> IF e > Len(t) THEN 0 ELSE IF At(t, e + 1) = Minus THEN -Value(exp) ELSE Value(exp)]

\* An integer is handed over as the first of int, unsigned, int64_t, uint64_t
\* and double that holds it, a negative zero as 0.
FirstType(n) ==
    IF n < -(2 ^ (Int64Bits - 1)) \/ n >= 2 ^ Int64Bits THEN "Double"
    ELSE IF n < -(2 ^ (IntBits - 1)) THEN "Int64"
    ELSE IF n < 0 THEN "Int"
    ELSE IF n < 2 ^ IntBits THEN "Uint"
    ELSE "Uint64"

\* The event e hands over the number of parts p.
Exact(e, p) ==
    LET n == IF p.minus THEN -Value(p.int) ELSE Value(p.int)
        kept(k) == Value(p.int \o SubSeq(p.frac, 1, k))
    IN  IF p.plain /\ FirstType(n) # "Double"
        THEN (IF p.minus /\ n = 0 THEN e.k = "Int" ELSE e.k = FirstType(n)) /\ e.v = n
        ELSE /\ e.k = "Double"
             /\ \E k \in 0..Len(p.frac) :
                    /\ \/ e.v = Finite(p.minus, kept(k), p.exp - k)
                       \/ e.v.sig = 0 /\ p.exp < -MaxExp
                    /\ k < Len(p.frac) => kept(k) >= 10 ^ MaxDigits

\* An integer is handed over exactly, in the narrowest type that holds it; of
\* anything else strtod is given the decimal that was written, of which only digits
\* of the fraction behind the last significant digit a double has are dropped.  (How
\* strtod rounds that decimal is not spoken of.)
NumbersExact ==
    Done /\ r.err = "None" /\ flags = {} /\ Len(r.ev) = 1 /\ r.ev[1].k # "String" =>
        LET t == SelectSeq(text, LAMBDA c : c \notin White) IN
        t # <<>> /\ At(t, 1) \in Digits \cup {Minus} => Exact(r.ev[1], Parts(t))

-------------------------------------------------------------------------------
\* t is a sequence of the shortest encodings of code points that are characters.
WellFormed[t \in Seq(0..255)] ==
    \/ t = <<>>
    \/ \E n \in 1..4 \cap 1..Len(t) :
        LET mask == <<128, 32, 16, 8>>[n]
            cp == FoldLeft(LAMBDA c, b : 64 * c + (b % 64), t[1] % mask, SubSeq(t, 2, n))
        IN  /\ cp \notin Surrogates /\ cp <= MaxCodepoint
            /\ EncodeUTF8(cp) = SubSeq(t, 1, n)
            /\ WellFormed[SubSeq(t, n + 1, Len(t))]

\* Whether the texts are bytes, and which of them are plain ASCII.
OfBytes == phase = "parse" /\ theme.bytes
PlainAscii == \A k \in DOMAIN text : text[k] \in 1..127

\* The decoder accepts exactly well-formed UTF-8 (no overlong form, no encoded
\* surrogate, nothing beyond 0x10FFFF), whether it copies or converts, and what
\* it converts comes back unchanged (UTF8::Decode, encodings.h:145).  Bytes written
\* in an encoding are read back in it: by its mark, or, as they are the beginning
\* of a JSON text, by where their zeros are (DetectType, encodedstream.h:171).
EncodingsExact ==
    /\ OfBytes =>
        LET wide == TranscodeAll("UTF8", "UTF16LE", text, 1)
            same == TranscodeAll("UTF8", "UTF8", text, 1)
        IN  /\ wide.ok <=> WellFormed[text]
            /\ same.ok <=> WellFormed[text]
            /\ wide.ok => /\ TranscodeAll("UTF16LE", "UTF8", wide.units, 1).units = text
                          /\ same.units = text
    /\ OfBytes /\ PlainAscii =>
        \A enc \in Encodings, mark \in BOOLEAN :
            LET bytes == AutoBytes(enc, mark, text) IN
            Len(bytes) >= 4 /\ (mark \/ Len(text) >= 2 \/ Width(enc) # 2) =>
                AutoUnits(bytes, "UTF8") = text
===============================================================================

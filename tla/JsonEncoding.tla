----------------------------- MODULE JsonEncoding -----------------------------
(* The Unicode encodings of encodings.h, how a transcoder goes from one to
   another, and how the byte streams of encodedstream.h find out and undo the
   byte order. *)
EXTENDS JsonText

Encodings == {"UTF8", "UTF16LE", "UTF16BE", "UTF32LE", "UTF32BE"}
MaxCodepoint == 1114111                         \* 0x10FFFF
HighSurrogates == 55296..56319                  \* 0xD800..0xDBFF
LowSurrogates == 56320..57343                   \* 0xDC00..0xDFFF
Surrogates == HighSurrogates \union LowSurrogates

-------------------------------------------------------------------------------
\* UTF-8: the class of each byte; 16, 64 and 32 are the three ranges of
\* continuation bytes, 8 a byte that starts nothing.
GetRange(c) ==
    CASE c \in 0..127 -> 0     [] c \in 128..143 -> 16  [] c \in 144..159 -> 64
      [] c \in 160..191 -> 32  [] c \in 194..223 -> 2   [] c = 224 -> 10
      [] c \in 225..236 -> 3   [] c = 237 -> 4          [] c \in 238..239 -> 3
      [] c = 240 -> 11         [] c \in 241..243 -> 6   [] c = 244 -> 5
      [] OTHER -> 8

\* Mutant of Trail: every byte after the first is any continuation byte.
TrailAny(type) ==
    LET any == {16, 32, 64} IN
    CASE type = 2 -> <<any>>
      [] type \in {3, 4, 10} -> <<any, any>>
      [] type \in {5, 6, 11} -> <<any, any, any>>
      [] OTHER -> <<>>

\* The classes each byte after a lead byte of that class must have.
Trail(type) ==
    LET any == {16, 32, 64} IN
    CASE type = 2 -> <<any>>
      [] type = 3 -> <<any, any>>
      [] type = 4 -> <<{16, 64}, any>>
      [] type = 5 -> <<{16}, any, any>>
      [] type = 6 -> <<any, any, any>>
      [] type = 10 -> <<{32}, any>>
      [] type = 11 -> <<{32, 64}, any, any>>
      [] OTHER -> <<>>

\* (0xFF >> type) & c, the bits of a lead byte that belong to the code point, is
\* c modulo this.
LeadMod(type) == CASE type = 2 -> 64 [] type = 3 -> 32 [] type = 4 -> 16
                   [] type = 5 -> 8  [] type = 6 -> 4  [] OTHER -> 1

\* The bytes behind position p are of the classes of tail.
Fits(t, p, tail) == \A k \in DOMAIN tail : GetRange(At(t, p + k)) \in tail[k]

\* The bits of a lead byte and six of each of the n bytes behind it.
JoinedBits(lead, t, p, n) ==
    LET low(k) == At(t, p + k) % 64 IN
    CASE n = 1 -> 64 * lead + low(1)
      [] n = 2 -> 4096 * lead + 64 * low(1) + low(2)
      [] n = 3 -> 262144 * lead + 4096 * low(1) + 64 * low(2) + low(3)
      [] OTHER -> lead

Behind(t, p, type) ==
    LET tail == Trail(type) IN
    [ok |-> tail # <<>> /\ Fits(t, p, tail),
     cp |-> JoinedBits(At(t, p) % LeadMod(type), t, p, Len(tail)),
     next |-> p + 1 + Len(tail)]

\* UTF8::Decode from position p; `next` is where the stream stands afterwards.
DecodeUTF8(t, p) == IF At(t, p) < 128 THEN [ok |-> TRUE, cp |-> At(t, p), next |-> p + 1]
                    ELSE Behind(t, p, GetRange(At(t, p)))

\* A byte behind the first, with the six lowest bits of n.
Continued(n) == 128 + (n % 64)

EncodeUTF8(cp) ==
    IF cp <= 127 THEN <<cp>>
    ELSE IF cp <= 2047 THEN <<192 + (cp \div 64), Continued(cp)>>
    ELSE IF cp <= 65535 THEN <<224 + (cp \div 4096), Continued(cp \div 64), Continued(cp)>>
    ELSE <<240 + (cp \div 262144), Continued(cp \div 4096), Continued(cp \div 64), Continued(cp)>>

-------------------------------------------------------------------------------
\* UTF-16, and UTF-32 whose units are the code points.
DecodeUTF16(t, p) ==
    LET c == At(t, p)
        d == At(t, p + 1)
    IN  CASE c \notin Surrogates -> [ok |-> TRUE, cp |-> c, next |-> p + 1]
          [] c \in HighSurrogates ->
                [ok |-> d \in LowSurrogates,
                 cp |-> (c % 1024) * 1024 + (d % 1024) + 65536, next |-> p + 2]
          [] OTHER -> [ok |-> FALSE, cp |-> c, next |-> p + 1]

\* That a single unit is no surrogate is an assertion (encodings.h:279), which only a
\* lone \uDC00 to \uDFFF read into UTF-16 breaks.  RelWithDebInfo, the build type of
\* CMakeLists.txt, compiles it out, and the unit is put as it is, which is the case here.
EncodeUTF16(cp) ==
    IF cp <= 65535 THEN <<cp>>
    ELSE <<55296 + (cp - 65536) \div 1024, 56320 + ((cp - 65536) % 1024)>>

DecodeUTF32(t, p) == [ok |-> At(t, p) <= MaxCodepoint, cp |-> At(t, p), next |-> p + 1]

Family(enc) == CASE enc = "UTF8" -> "UTF8"
                 [] enc \in {"UTF16LE", "UTF16BE"} -> "UTF16"
                 [] OTHER -> "UTF32"

Decode(enc, t, p) == CASE Family(enc) = "UTF8" -> DecodeUTF8(t, p)
                       [] Family(enc) = "UTF16" -> DecodeUTF16(t, p)
                       [] OTHER -> DecodeUTF32(t, p)

Encode(enc, cp) == CASE Family(enc) = "UTF8" -> EncodeUTF8(cp)
                     [] Family(enc) = "UTF16" -> EncodeUTF16(cp)
                     [] OTHER -> <<cp>>

\* Validate copies the units it looks at, and judges them as Decode does.
Copied(t, p, d) == [ok |-> d.ok, next |-> d.next,
                    units |-> [k \in 1..d.next - p |-> At(t, p + k - 1)]]
Validate(enc, t, p) == Copied(t, p, Decode(enc, t, p))

Encoded(target, d) ==
    [ok |-> d.ok, next |-> d.next, units |-> IF d.ok THEN Encode(target, d.cp) ELSE <<>>]

\* Between two encodings a code point is decoded and encoded; within one
\* encoding a single unit is copied, unless it is to be validated.
Transcode(source, target, validate, t, p) ==
    IF source # target THEN Encoded(target, Decode(source, t, p))
    ELSE IF validate THEN Validate(source, t, p)
    ELSE [ok |-> TRUE, next |-> p + 1, units |-> <<At(t, p)>>]

Followed(u, rest) == IF ~u.ok THEN [ok |-> FALSE, units |-> u.units]
                     ELSE [ok |-> rest.ok, units |-> u.units \o rest.units]

\* All of t from position p on, as GenericReader's and Writer's loops do it; a
\* step past the end of the units stands at most four positions behind it.
TranscodeAll(source, target, t, p) ==
    LET all[q \in 1..Len(t) + 4] ==
            LET u == Transcode(source, target, TRUE, t, q) IN
            IF q > Len(t) THEN [ok |-> TRUE, units |-> <<>>] ELSE Followed(u, all[u.next])
    IN  all[p]

-------------------------------------------------------------------------------
\* Bytes of a unit, as UTF16LE::Put .. UTF32BE::Put write them, and the byte
\* order marks of PutBOM.
Width(enc) == CASE enc = "UTF8" -> 1 [] Family(enc) = "UTF16" -> 2 [] OTHER -> 4

PutUnit(enc, u) ==
    LET n == Width(enc)
        little == [k \in 1..n |-> (u \div 256 ^ (k - 1)) % 256]
    IN  IF enc \in {"UTF16BE", "UTF32BE"} THEN Reverse(little) ELSE little

PutBOM(enc) == IF enc = "UTF8" THEN <<239, 187, 191>> ELSE PutUnit(enc, 65279)

TakeUnit(enc, bytes, p) ==
    LET n == Width(enc)
        byte(k) == At(bytes, IF enc \in {"UTF16BE", "UTF32BE"} THEN p + n - k ELSE p + k - 1)
    IN  FoldLeft(LAMBDA u, k : u + byte(k) * 256 ^ (k - 1), 0, [k \in 1..n |-> k])

\* The order in which the byte order marks are looked for.
MarkOrder == <<"UTF32BE", "UTF32LE", "UTF16BE", "UTF16LE", "UTF8">>

\* AutoUTFInputStream::DetectType: by the mark if there is one, else by which of
\* the first four bytes are zero; with fewer than four bytes, as the caller says.
\* `size` is how many bytes the mark takes.
DetectType(bytes, default) ==
    LET begins(enc) == Reads(bytes, 1, PutBOM(enc))
        marked == SelectSeq(MarkOrder, begins)
        pattern == [k \in 1..4 |-> At(bytes, k) # 0]
    IN  CASE Len(bytes) < 4 -> [type |-> default, size |-> 0]
          [] Len(bytes) >= 4 /\ marked # <<>> ->
                [type |-> marked[1], size |-> Len(PutBOM(marked[1]))]
          [] OTHER ->
                [size |-> 0,
                 type |-> (CASE pattern = <<FALSE, FALSE, FALSE, TRUE>> -> "UTF32BE"
                            [] pattern = <<FALSE, TRUE, FALSE, TRUE>> -> "UTF16BE"
                            [] pattern = <<TRUE, FALSE, FALSE, FALSE>> -> "UTF32LE"
                            [] pattern = <<TRUE, FALSE, TRUE, FALSE>> -> "UTF16LE"
                            [] pattern = <<TRUE, TRUE, TRUE, TRUE>> -> "UTF8"
                            [] OTHER -> default)]

\* The units an AutoUTFInputStream delivers from those bytes.
AutoUnits(bytes, default) ==
    LET d == DetectType(bytes, default)
        n == (Len(bytes) - d.size) \div Width(d.type)
    IN  [k \in 1..n |-> TakeUnit(d.type, bytes, d.size + 1 + (k - 1) * Width(d.type))]

\* The bytes an AutoUTFOutputStream writes for code points.
AutoBytes(enc, putBOM, cps) ==
    FlattenSeq(<<IF putBOM THEN PutBOM(enc) ELSE <<>> >>
               \o [k \in DOMAIN cps |->
                     FlattenSeq([j \in DOMAIN Encode(enc, cps[k]) |->
                                   PutUnit(enc, Encode(enc, cps[k])[j])])])
===============================================================================

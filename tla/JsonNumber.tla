------------------------------ MODULE JsonNumber ------------------------------
(* Numbers: how GenericReader::ParseNumber reads them (reader.h) and how the
   writer prints them (itoa.h, dtoa.h).  The widths are constants so that small
   texts reach every limit.  A double is the decimal the writer prints for it:
   sign, a significand without trailing zeros and an exponent.  Which double a
   decimal of more digits becomes is left out: without kParseFullPrecisionFlag
   strtod.h does not promise the nearest one, and RoundedOnce says when it is. *)
EXTENDS JsonText

CONSTANTS
    IntBits,        \* 32
    Int64Bits,      \* 64
    FastBits,       \* 53, the bits of a double's significand
    MaxDigits,      \* 17, the significant digits a fraction is followed for
    MaxExp,         \* 308, the largest exponent of ten of a double
    PlainDigits,    \* 21, the digits before the point the writer writes plainly
    ExpLimit        \* 2147483639, eight below the largest int

ASSUME NumberAssumption ==
    /\ IntBits < Int64Bits /\ FastBits < Int64Bits
    /\ MaxExp >= 9 /\ ExpLimit >= 10 * MaxExp

-------------------------------------------------------------------------------
TrailingZeros(sig) == CHOOSE k \in 0..9 : sig % 10 ^ k = 0 /\ (sig \div 10 ^ k) % 10 # 0

Finite(neg, sig, exp) ==
    IF sig = 0 THEN [class |-> "finite", neg |-> neg, sig |-> 0, exp |-> 0]
    ELSE LET z == TrailingZeros(sig) IN
         [class |-> "finite", neg |-> neg, sig |-> sig \div 10 ^ z, exp |-> exp + z]
NaN == [class |-> "nan", neg |-> FALSE, sig |-> 0, exp |-> 0]
Infinity(neg) == [class |-> "inf", neg |-> neg, sig |-> 0, exp |-> 0]

RECURSIVE DigitsOf(_)
\* The digits u32toa and u64toa print.
DigitsOf(n) == IF n < 10 THEN <<Zero + n>>
               ELSE Append(DigitsOf(n \div 10), Zero + (n % 10))

\* Larger than the largest double, 1.79 * 10^MaxExp.
TooBig(sig, exp) ==
    LET size == Len(DigitsOf(sig)) + exp IN
    sig # 0 /\ \/ size > MaxExp + 1
               \/ size = MaxExp + 1 /\ DigitsOf(sig)[1] > Zero + 1

-------------------------------------------------------------------------------
DigitsAt(t, p) == SubSeq(t, p, Past(t, p, Digits) - 1)

\* Mutant of Stop: the last digit that still fits is taken to overflow.
StopEarly(digits, limit) ==
    LET full(k) == Value(SubSeq(digits, 1, k - 1)) >= limit \div 10
    IN  CHOOSE k \in 2..Len(digits) + 1 :
            /\ k <= Len(digits) => full(k)
            /\ \A j \in 2..k - 1 : ~full(j)

\* The first digit that no longer fits an integer of that limit, one past the
\* last if they all do.
Stop(digits, limit) ==
    LET full(k) == LET i == Value(SubSeq(digits, 1, k - 1)) IN
                   /\ i >= limit \div 10
                   /\ i # limit \div 10 \/ digits[k] > Zero + (limit % 10)
    IN  CHOOSE k \in 2..Len(digits) + 1 :
            /\ k <= Len(digits) => full(k)
            /\ \A j \in 2..k - 1 : ~full(j)

\* The largest magnitude the integers of a width hold.
Limit(bits, minus) == IF minus THEN 2 ^ (bits - 1) ELSE 2 ^ bits - 1

\* static_cast<int>(~n + 1)
Negated(n, bits) == LET u == (2 ^ bits - n) % 2 ^ bits IN
                    IF u >= 2 ^ (bits - 1) THEN u - 2 ^ bits ELSE u

\* One digit of the fraction: kept while the significand is below 2^FastBits,
\* or there are fewer than MaxDigits significant digits, and else skipped.
FractionDigit(s, c) ==
    LET fast == s.fast /\ s.d <= 2 ^ FastBits - 1
        d == 10 * s.d + (c - Zero)
    IN  IF fast \/ s.signif < MaxDigits
        THEN [d |-> d, exp |-> s.exp - 1, fast |-> fast,
              signif |-> s.signif + (IF d # 0 THEN 1 ELSE 0)]
        ELSE [s EXCEPT !.fast = FALSE]

\* A negative exponent grows until it exceeds maxExp; the digits behind it are
\* taken and dropped.
NegativeExp(digits, maxExp) ==
    FoldLeft(LAMBDA e, c : IF e > maxExp THEN e ELSE 10 * e + (c - Zero), 0, digits)

\* How far the number at position p goes and what is wrong with it, if anything:
\* `end` is where the stream stands, `off` the offset reported.
Outcome(ev, end, err, off) == [ev |-> ev, end |-> end, err |-> err, off |-> off]
Nothing == [k |-> "Nothing"]
Wrong(err, end, off) == Outcome(Nothing, end, err, off)

\* The exponent at position p, if there is one: `value`, the position it ends at,
\* and whether it is missing or exceeds what expFrac allows.
Exponent(t, p, expFrac) ==
    LET sign == At(t, p + 1)
        q == IF sign \in {Plus, Minus} THEN p + 2 ELSE p + 1
        digits == DigitsAt(t, q)
        over == {k \in 2..Len(digits) : Value(SubSeq(digits, 1, k)) > MaxExp - expFrac}
        ends(value, n, big) == [has |-> TRUE, value |-> value, end |-> q + n,
                                missing |-> digits = <<>>, over |-> big]
    IN  CASE At(t, p) \notin {Ch.e, Ch.E} ->
               [has |-> FALSE, value |-> 0, end |-> p, missing |-> FALSE, over |-> FALSE]
          [] At(t, p) \in {Ch.e, Ch.E} /\ sign = Minus ->
               ends(-NegativeExp(digits, (expFrac + ExpLimit) \div 10), Len(digits), FALSE)
          [] OTHER -> IF over # {} THEN ends(0, Min(over), TRUE)
                      ELSE ends(Value(digits), Len(digits), FALSE)

\* NaN, Inf and Infinity: how many units are taken, and whether they are one of
\* the three.
NamedNaN(p, n) == [end |-> p + n, ok |-> n = 3]
NamedInfinity(p, i, rest) == IF i < 3 THEN [end |-> p + i, ok |-> FALSE]
                             ELSE [end |-> p + 3 + rest, ok |-> rest \in {0, 5}]
Special(t, p) ==
    IF At(t, p) = Ch.N THEN NamedNaN(p, Consumed(t, p, <<Ch.N, Ch.a, Ch.N>>))
    ELSE NamedInfinity(p, Consumed(t, p, <<Ch.I, Ch.n, Ch.f>>),
                       Consumed(t, p + 3, <<Ch.i, Ch.n, Ch.i, Ch.t, Ch.y>>))

\* What stands before the point: the sign, and the digits or, if the flags ask for
\* it, the name of a number; `dot` is the position behind it.
Numeral(t, p, flags) ==
    LET minus == At(t, p) = Minus
        first == IF minus THEN p + 1 ELSE p
        digits == IF At(t, first) = Zero THEN <<Zero>> ELSE DigitsAt(t, first)
        word == Special(t, first)
    IN  IF "nanAndInf" \in flags /\ At(t, first) \in {Ch.I, Ch.N}
        THEN [minus |-> minus, first |-> first, special |-> TRUE, nan |-> At(t, first) = Ch.N,
              ok |-> word.ok, digits |-> <<>>, dot |-> word.end]
        ELSE [minus |-> minus, first |-> first, special |-> FALSE, nan |-> FALSE,
              ok |-> digits # <<>>, digits |-> digits, dot |-> first + Len(digits)]

\* The integer before the point: its value, its significant digits, and whether it
\* needs 64 bits or, `wide`, a double.
Fitting(m, stop32, stop64) ==
    [i |-> Value(m.digits), signif |-> stop64 - 2, wide |-> stop64 <= Len(m.digits),
     use64bit |-> stop32 <= Len(m.digits)]
Whole(m) ==
    IF m.special THEN [i |-> 0, signif |-> 0, use64bit |-> FALSE, wide |-> FALSE]
    ELSE Fitting(m, Stop(m.digits, Limit(IntBits, m.minus)), Stop(m.digits, Limit(Int64Bits, m.minus)))

\* The fraction, if there is one: the significand and the exponent so far.
Fraction(t, m, w) ==
    LET start == [d |-> w.i, exp |-> 0, signif |-> w.signif, fast |-> ~w.wide] IN
    IF At(t, m.dot) = Dot
    THEN [sum |-> FoldLeft(FractionDigit, start, DigitsAt(t, m.dot + 1)), has |-> TRUE,
          end |-> Past(t, m.dot + 1, Digits)]
    ELSE [sum |-> start, has |-> FALSE, end |-> m.dot]

\* StrtodNormalPrecision multiplies or divides once, and what it multiplies, the
\* significand and the power of ten, are doubles themselves: then the result is the
\* double nearest to the decimal.
RoundedOnce(f, e) ==
    LET p10 == e.value + f.sum.exp IN
    /\ f.sum.d < 2 ^ FastBits
    /\ p10 \in -FastBits..FastBits
    /\ 5 ^ (IF p10 < 0 THEN -p10 ELSE p10) < 2 ^ FastBits

\* The double, by the decimal it was read from; the code's may be another one
\* nearby unless it was rounded once.
DoubleOf(m, f, e) ==
    LET p10 == e.value + f.sum.exp IN
    Finite(m.minus, IF p10 < -2 * MaxExp THEN 0 ELSE f.sum.d, p10)

\* The number that was read, or what is wrong with it.  What follows NaN or
\* Infinity is still looked at: a fraction or an exponent makes a double of it, of
\* significand zero.
Judged(t, p, flags, m, w, f, e) ==
    LET done(k, v) == Outcome([k |-> k, v |-> v], e.end, "None", 0)
        double == DoubleOf(m, f, e)
        real == w.wide \/ f.has \/ e.has
    IN  IF ~m.ok THEN IF m.special THEN Wrong("ValueInvalid", m.dot, m.dot - 1)
                      ELSE Wrong("ValueInvalid", m.first, m.first - 1)
        ELSE IF f.has /\ f.end = m.dot + 1 THEN Wrong("NumberMissFraction", f.end, f.end - 1)
        ELSE IF e.missing THEN Wrong("NumberMissExponent", e.end, e.end - 1)
        ELSE IF e.over THEN Wrong("NumberTooBig", e.end, p - 1)
        ELSE IF "numbersAsStrings" \in flags THEN done("RawNumber", SubSeq(t, p, e.end - 1))
        ELSE IF real /\ TooBig(double.sig, double.exp) THEN Wrong("NumberTooBig", e.end, p - 1)
        ELSE IF real THEN done("Double", double)
        ELSE IF m.special THEN done("Double", IF m.nan THEN NaN ELSE Infinity(m.minus))
        ELSE IF w.use64bit THEN IF m.minus THEN done("Int64", Negated(w.i, Int64Bits))
                           ELSE done("Uint64", w.i)
        ELSE IF m.minus THEN done("Int", Negated(w.i, IntBits)) ELSE done("Uint", w.i)

\* ParseNumber at position p, one part behind the other.
ParseExponent(t, p, flags, m, w, f) ==
    Judged(t, p, flags, m, w, f, Exponent(t, f.end, f.sum.exp))
ParseFraction(t, p, flags, m, w) == ParseExponent(t, p, flags, m, w, Fraction(t, m, w))
ParseMantissa(t, p, flags, m) == ParseFraction(t, p, flags, m, Whole(m))
ParseNumber(t, p, flags) == ParseMantissa(t, p, flags, Numeral(t, p, flags))

\* Whether the text of a number, a sign and digits, is read with one rounding.
ReadNearest(t) ==
    LET m == Numeral(t, 1, {})
        f == Fraction(t, m, Whole(m))
    IN  RoundedOnce(f, Exponent(t, f.end, f.sum.exp))

-------------------------------------------------------------------------------
\* Writer: i32toa and i64toa, the sign before the digits.
IntText(n) == IF n < 0 THEN <<Minus>> \o DigitsOf(-n) ELSE DigitsOf(n)

\* Prettify: plain notation while the point stays within PlainDigits on its left
\* and 6 zeros on its right, else an exponent; digits behind places are cut off,
\* and zeros before the cut with them, but for one.
Trimmed(digits, places) ==
    LET kept == SubSeq(digits, 1, places)
        last == CHOOSE k \in 1..Len(kept) :
                    /\ k = 1 \/ kept[k] # Zero
                    /\ \A j \in k + 1..Len(kept) : kept[j] = Zero
    IN  IF Len(digits) <= places THEN digits ELSE SubSeq(kept, 1, last)

Prettify(digits, k, places) ==
    LET size == Len(digits)
        kk == size + k
        zeros(n) == [j \in 1..n |-> Zero]
    IN  IF 0 <= k /\ kk <= PlainDigits THEN digits \o zeros(k) \o <<Dot, Zero>>
        ELSE IF k < 0 /\ 0 < kk /\ kk <= PlainDigits THEN
                SubSeq(digits, 1, kk) \o <<Dot>> \o Trimmed(SubSeq(digits, kk + 1, size), places)
        ELSE IF -6 < kk /\ kk <= 0 THEN <<Zero, Dot>> \o Trimmed(zeros(-kk) \o digits, places)
        ELSE IF kk < -places THEN <<Zero, Dot, Zero>>
        ELSE IF size = 1 THEN digits \o <<Ch.e>> \o IntText(kk - 1)
        ELSE <<digits[1], Dot>> \o Tail(digits) \o <<Ch.e>> \o IntText(kk - 1)

\* WriteDouble: what does not exist in JSON only if writeNanAndInf asks for it.
DoubleText(d, places, flags) ==
    LET sign == IF d.neg THEN <<Minus>> ELSE <<>> IN
    IF d.class # "finite" /\ "writeNanAndInf" \notin flags THEN [ok |-> FALSE, units |-> <<>>]
    ELSE IF d.class = "nan" THEN [ok |-> TRUE, units |-> <<Ch.N, Ch.a, Ch.N>>]
    ELSE IF d.class = "inf" THEN [ok |-> TRUE, units |-> sign \o
                             <<Ch.I, Ch.n, Ch.f, Ch.i, Ch.n, Ch.i, Ch.t, Ch.y>>]
    ELSE IF d.sig = 0 THEN [ok |-> TRUE, units |-> sign \o <<Zero, Dot, Zero>>]
    ELSE [ok |-> TRUE, units |-> sign \o Prettify(DigitsOf(d.sig), d.exp, places)]
===============================================================================

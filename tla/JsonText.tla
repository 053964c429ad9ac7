------------------------------- MODULE JsonText -------------------------------
(* The units a JSON text is made of.  A text is a sequence of code units (bytes
   for UTF-8), read through a stream whose Peek is '\0' once the units are used
   up (stream.h, memorystream.h); a position is the index of the next unit. *)
EXTENDS Integers, Sequences, FiniteSets, SequencesExt

Space == 32  Quote == 34  Plus == 43  Comma == 44  Minus == 45  Dot == 46
Slash == 47  Star == 42  Zero == 48  Nine == 57  Colon == 58
LBracket == 91  Backslash == 92  RBracket == 93  LBrace == 123  RBrace == 125
Backspace == 8  Tab == 9  LF == 10  FF == 12  CR == 13

\* The letters of the literals, escapes and exponents.
Ch == [a |-> 97, b |-> 98, e |-> 101, f |-> 102, i |-> 105, l |-> 108, n |-> 110,
       r |-> 114, s |-> 115, t |-> 116, u |-> 117, y |-> 121,
       A |-> 65, C |-> 67, D |-> 68, E |-> 69, F |-> 70, I |-> 73, N |-> 78]

White == {Space, Tab, LF, CR}
Digits == Zero..Nine

\* The unit at position p: the stream's Peek.
At(t, p) == IF p \in DOMAIN t THEN t[p] ELSE 0

\* t has the units of word from position p on.
Reads(t, p, word) == \A k \in DOMAIN word : At(t, p + k - 1) = word[k]

\* How many units of word a chain of Consume calls takes from position p.
Consumed(t, p, word) ==
    CHOOSE n \in 0..Len(word) :
        /\ Reads(t, p, SubSeq(word, 1, n))
        /\ n = Len(word) \/ At(t, p + n) # word[n + 1]

\* The first position from p on whose unit is not in units.
Past(t, p, units) ==
    CHOOSE q \in p..Len(t) + 1 :
        At(t, q) \notin units /\ \A k \in p..q - 1 : t[k] \in units

\* The number a sequence of digit units denotes.
Value(digits) == FoldLeft(LAMBDA n, c : 10 * n + (c - Zero), 0, digits)
===============================================================================

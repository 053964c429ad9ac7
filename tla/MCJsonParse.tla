------------------------------ MODULE MCJsonParse ------------------------------
(* The texts json_parse is checked on, theme by theme: every sequence of at most
   `size` pieces that begins with `first`; with `prune` only while the text so far is
   the beginning of a JSON text, so that every kind of error comes up as the last
   piece. *)
EXTENDS JsonParse

Units(codes) == {<<c>> : c \in codes}
Theme(first, pieces, size, flagSets, refusals, prune, bytes) ==
    [first |-> first, pieces |-> pieces, size |-> size, flags |-> flagSets, refuse |-> refusals,
     prune |-> prune, bytes |-> bytes]

Structure == Units({LBracket, RBracket, LBrace, RBrace, Comma, Colon})
                 \cup {<<Quote, Ch.a, Quote>>, <<Zero + 1>>}
Literals == {<<Ch.t, Ch.r, Ch.u>>, <<Ch.e>>, <<Ch.n, Ch.u, Ch.l, Ch.l>>, <<Ch.f, Ch.a, Ch.l, Ch.s, Ch.e>>,
             <<Space>>, <<LBracket>>, <<Comma>>}
Comments == {<<Slash>>, <<Star>>, <<LF>>, <<Zero + 1>>, <<Comma>>, <<LBracket>>}
Text == Units({Quote, Backslash, Ch.u, Ch.n, Tab, 127, 195, 169})
            \cup {<<Backslash, Ch.u, 68, 56, 51, 68>>,         \* \uD83D
                  <<Backslash, Ch.u, 68, 69, 48, 48>>,         \* \uDE00
                  <<Backslash, Ch.u, 48, 48, 48, 48>>}
Numerals == Units({Minus, Zero, Zero + 1, Zero + 2, Zero + 6, Dot, Ch.e, Plus})
Names == {<<Minus>>, <<Ch.N, Ch.a>>, <<Ch.N>>, <<Ch.I, Ch.n, Ch.f>>, <<Ch.i, Ch.n, Ch.i, Ch.t, Ch.y>>,
          <<Zero>>, <<Dot>>}
Bytes == Units({65, 128, 143, 144, 159, 160, 191, 193, 194, 224, 225, 237, 240, 241, 244, 245})

MCThemes ==
    {Theme(<<>>, Structure, 6, {{"trailingCommas"}}, {0}, TRUE, FALSE),
     Theme(<<>>, Structure, 5, {{"stopWhenDone"}}, {0, 3}, TRUE, FALSE),
     Theme(<<>>, Literals, 4, {{}}, {0, 1}, TRUE, FALSE),
     Theme(<<>>, Comments, 5, {{"comments"}, {"comments", "stopWhenDone"}}, {0}, FALSE, FALSE),
     Theme(<< <<Quote>> >>, Text, 4, {{"validate"}, {"utf16"}}, {0}, FALSE, FALSE),
     Theme(<<>>, Numerals, 5, {{}, {"numbersAsStrings"}}, {0}, TRUE, FALSE),
     Theme(<<>>, Names, 4, {{"nanAndInf"}}, {0}, FALSE, FALSE),
     Theme(<<>>, Bytes, 4, {{}}, {0}, FALSE, TRUE)}
===============================================================================

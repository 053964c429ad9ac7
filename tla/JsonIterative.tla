----------------------------- MODULE JsonIterative -----------------------------
(* The iterative parser of GenericReader (reader.h) as a state machine: one step
   is one token of IterativeParse, or one call of IterativeParseNext, the
   incremental interface.  The stack holds, for every open object and array, the
   state to return to and the number of elements before the current one.  The
   text that is parsed is put together first, piece by piece. *)
EXTENDS JsonWriter

CONSTANT Themes     \* what is parsed: records of first, pieces, size, flags, refuse,
                    \* prune and bytes

VARIABLES
    theme, text, flags,
    driver,         \* "IterativeParse", or "Next" for the incremental interface
    r,              \* the parse so far, as in JsonReader
    state,          \* state_, an IterativeParsingState
    stack,          \* stack_
    phase           \* "write", "parse" or "done"

vars == <<theme, text, flags, driver, r, state, stack, phase>>

Tokenize(c) == CASE c = LBracket -> "LeftBracket"      [] c = RBracket -> "RightBracket"
                 [] c = LBrace -> "LeftCurlyBracket"   [] c = RBrace -> "RightCurlyBracket"
                 [] c = Comma -> "Comma"               [] c = Colon -> "Colon"
                 [] c = Quote -> "String"              [] c = Ch.n -> "Null"
                 [] c = Ch.t -> "True"                 [] c = Ch.f -> "False"
                 [] OTHER -> "Number"

Scalars == {"String", "False", "True", "Null", "Number"}

\* The table G.
Predict(s, token) ==
    CASE s \in {"Start", "ArrayInitial", "ElementDelimiter", "KeyValueDelimiter"}
            /\ token = "LeftBracket" -> "ArrayInitial"
      [] s \in {"Start", "ArrayInitial", "ElementDelimiter", "KeyValueDelimiter"}
            /\ token = "LeftCurlyBracket" -> "ObjectInitial"
      [] s = "Start" /\ token \in Scalars -> "Value"
      [] s \in {"ArrayInitial", "ElementDelimiter"} /\ token \in Scalars -> "Element"
      [] s = "KeyValueDelimiter" /\ token \in Scalars -> "MemberValue"
      [] s \in {"ObjectInitial", "MemberDelimiter"} /\ token = "String" -> "MemberKey"
      [] s = "MemberKey" /\ token = "Colon" -> "KeyValueDelimiter"
      [] s = "MemberValue" /\ token = "Comma" -> "MemberDelimiter"
      [] s = "Element" /\ token = "Comma" -> "ElementDelimiter"
      [] s \in {"ArrayInitial", "ElementDelimiter", "Element"}
            /\ token = "RightBracket" -> "ArrayFinish"
      [] s \in {"ObjectInitial", "MemberValue", "MemberDelimiter"}
            /\ token = "RightCurlyBracket" -> "ObjectFinish"
      [] OTHER -> "Error"

-------------------------------------------------------------------------------
(* One transition of m, a record of r, state and stack. *)

\* The state in which the value that contains this one goes on.
Return(s) == CASE s \in {"ArrayInitial", "ElementDelimiter"} -> "Element"
               [] s = "KeyValueDelimiter" -> "MemberValue"
               [] OTHER -> s

\* An object or array begins: the level is pushed before the handler is told.
Open(m, dst) ==
    LET told == Emit(m.r, Event(IF dst = "ObjectInitial" THEN "StartObject" ELSE "StartArray"),
                     m.r.at - 1)
    IN  [r |-> IF Failed(told) THEN told ELSE Moved(told, told.at + 1),
         stack |-> Append(m.stack, [back |-> Return(m.state), n |-> 0]),
         state |-> IF Failed(told) THEN "Error" ELSE dst]

\* It ends: behind a comma only if the flags allow it; the last element, which
\* no comma followed, is counted now.
Close(m, kind, last, trailing, err, fl) ==
    LET level == Last(m.stack)
        n == level.n + (IF m.state = last THEN 1 ELSE 0)
        told == Emit(m.r, [k |-> kind, v |-> n], m.r.at - 1)
    IN  IF m.state = trailing /\ "trailingCommas" \notin fl
        THEN [m EXCEPT !.r = Fail(m.r, err, m.r.at - 1), !.state = "Error"]
        ELSE [r |-> IF Failed(told) THEN told ELSE Moved(told, told.at + 1),
              stack |-> Front(m.stack),
              state |-> IF Failed(told) THEN "Error"
                        ELSE IF level.back = "Start" THEN "Finish"
                        ELSE level.back]

\* A comma: one more element is complete.
Delimiter(m, dst) ==
    [state |-> dst, r |-> Moved(m.r, m.r.at + 1),
     stack |-> [m.stack EXCEPT ![Len(m.stack)].n = @ + 1]]

Transit(t, m, dst, fl) ==
    LET into(q, s) == [m EXCEPT !.r = q, !.state = IF Failed(q) THEN "Error" ELSE s] IN
    CASE dst = "Error" -> [m EXCEPT !.state = "Error"]
      [] dst \in {"ObjectInitial", "ArrayInitial"} -> Open(m, dst)
      [] dst = "MemberKey" -> into(ParseString(t, m.r, fl, "Key"), dst)
      [] dst = "KeyValueDelimiter" -> into(Moved(m.r, m.r.at + 1), dst)
      [] dst \in {"MemberValue", "Element"} -> into(ParseValue(t, m.r, fl), dst)
      [] dst \in {"MemberDelimiter", "ElementDelimiter"} -> Delimiter(m, dst)
      [] dst = "ObjectFinish" ->
            Close(m, "EndObject", "MemberValue", "MemberDelimiter", "ObjectMissName", fl)
      [] dst = "ArrayFinish" ->
            Close(m, "EndArray", "Element", "ElementDelimiter", "ValueInvalid", fl)
      [] OTHER -> into(ParseValue(t, m.r, fl), "Finish")

\* HandleError: what is missing in that state, unless an error is set already.
HandleError(q, s) ==
    LET missing ==
            CASE s = "Start" -> "DocumentEmpty"
              [] s = "Finish" -> "DocumentRootNotSingular"
              [] s \in {"ObjectInitial", "MemberDelimiter"} -> "ObjectMissName"
              [] s = "MemberKey" -> "ObjectMissColon"
              [] s = "MemberValue" -> "ObjectMissCommaOrCurlyBracket"
              [] s \in {"KeyValueDelimiter", "ArrayInitial", "ElementDelimiter"} -> "ValueInvalid"
              [] OTHER -> "ArrayMissCommaOrSquareBracket"
    IN  IF Failed(q) THEN q ELSE Fail(q, missing, q.at - 1)

Delimiters == {"ElementDelimiter", "MemberDelimiter", "KeyValueDelimiter"}

RECURSIVE ParseNext(_, _, _), Arrived(_, _, _, _, _)
\* One call of IterativeParseNext: a comma or colon and the token behind it are
\* one call; `ok` is what it returns.  No error of the white space is looked at.
ParseNext(t, m, fl) ==
    LET s == SkipWhitespaceAndComments(t, m.r, fl)
        n == Predict(m.state, Tokenize(At(t, s.at)))
    IN  IF At(t, m.r.at) = 0 /\ m.state = "Finish" THEN [m |-> [m EXCEPT !.stack = <<>>], ok |-> TRUE]
        ELSE IF At(t, m.r.at) = 0 THEN
                [m |-> [m EXCEPT !.stack = <<>>, !.r = HandleError(@, m.state)], ok |-> FALSE]
        ELSE Arrived(t, m, n, Transit(t, [m EXCEPT !.r = s], n, fl), fl)

\* The token took m to d, as the table's n says.
Arrived(t, m, n, d, fl) ==
    LET rest == SkipWhitespaceAndComments(t, d.r, fl)
    IN  IF d.state = "Error" THEN
                [m |-> [m EXCEPT !.r = HandleError(d.r, m.state)], ok |-> FALSE]
        ELSE IF d.state = "Finish" /\ "stopWhenDone" \notin fl THEN
                IF At(t, rest.at) # 0
                THEN [m |-> [d EXCEPT !.r = HandleError(rest, "Finish")], ok |-> FALSE]
                ELSE [m |-> [d EXCEPT !.r = rest], ok |-> TRUE]
        ELSE IF d.state = "Finish" \/ n \notin Delimiters THEN [m |-> d, ok |-> TRUE]
        ELSE ParseNext(t, d, fl)

-------------------------------------------------------------------------------
(* The state machine. *)
Machine == [r |-> r, state |-> state, stack |-> stack]

Becomes(m, p) == /\ r' = m.r /\ state' = m.state /\ stack' = m.stack /\ phase' = p
                 /\ UNCHANGED <<theme, text, flags, driver>>

Init == /\ theme \in Themes /\ flags \in theme.flags /\ text = theme.first
        /\ driver \in {"IterativeParse", "Next"}
        /\ r \in {Start(n) : n \in theme.refuse}
        /\ state = "Start" /\ stack = <<>> /\ phase = "write"

\* q is how the parse of t ended: well, or not before the end of t.
Unfinished(t, q) == q.err = "None" \/ q.off >= Len(t)

\* A longer text; one whose parse fails before its end need not grow.
Write == /\ phase = "write" /\ Len(text) < theme.size
         /\ theme.prune => LET t == FlattenSeq(text) IN Unfinished(t, Parse(t, flags, 0))
         /\ \E piece \in theme.pieces : text' = Append(text, piece)
         /\ UNCHANGED <<theme, flags, driver, r, state, stack, phase>>

\* IterativeParse, or IterativeParseInit: from here on text is the flat text.
Begin == /\ phase = "write"
         /\ text' = FlattenSeq(text)
         /\ LET s == SkipWhitespaceAndComments(text', r, flags) IN
            IF driver = "IterativeParse"
            THEN r' = s /\ phase' = IF Failed(s) THEN "done" ELSE "parse"
            ELSE r' = r /\ phase' = "parse"
         /\ UNCHANGED <<theme, flags, driver, state, stack>>

Reach(d) ==
    LET s == SkipWhitespaceAndComments(text, d.r, flags) IN
    IF d.state = "Error" THEN Becomes([Machine EXCEPT !.r = HandleError(d.r, state)], "done")
    ELSE IF d.state = "Finish" /\ "stopWhenDone" \in flags THEN Becomes(d, "done")
    ELSE Becomes([d EXCEPT !.r = s], IF Failed(s) THEN "done" ELSE "parse")

\* One round of IterativeParse's loop.
Token == /\ phase = "parse" /\ driver = "IterativeParse" /\ At(text, r.at) # 0
         /\ Reach(Transit(text, Machine, Predict(state, Tokenize(At(text, r.at))), flags))

\* The units are used up.
TextEnds == /\ phase = "parse" /\ driver = "IterativeParse" /\ At(text, r.at) = 0
            /\ Becomes([Machine EXCEPT !.r = IF state = "Finish" THEN r
                                             ELSE HandleError(r, state)], "done")

Returned(c) ==
    Becomes(c.m, IF ~c.ok \/ c.m.state \in {"Finish", "Error"} THEN "done" ELSE "parse")

\* One call of IterativeParseNext; the caller goes on until it returns false or
\* the text is complete (IterativeParseComplete).
Call == /\ phase = "parse" /\ driver = "Next"
        /\ Returned(ParseNext(text, Machine, flags))

Next == Write \/ Begin \/ Token \/ TextEnds \/ Call

Spec == Init /\ [][Next]_vars
===============================================================================

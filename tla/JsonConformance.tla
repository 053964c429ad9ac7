---------------------------- MODULE JsonConformance ----------------------------
(* What a schema validator promises (schema.h): its verdict on a document, which
   it has seen only as a stream of events, is what the schema says of the
   document as a whole.  The documents are built by the handler of JsonValue from
   the same events. *)
EXTENDS JsonValidator

CONSTANTS
    Cases,          \* schemas, with the scalars, the names and the size of the documents
    MaxDepth        \* bound on open containers

VARIABLES
    case,           \* the number of the case at hand
    library,        \* its schema document, which never changes once it is constructed
    validator,
    values,         \* the document so far: the stack of its handler
    open,           \* the open containers: kind, members or elements, name given
    size            \* the values so far
vars == <<case, library, validator, values, open, size>>

This == Cases[case]

\* A value may come: in an array, after a name, or as the document itself.
Complete == open = <<>> /\ values # <<>>
Expected == /\ size < This.size
            /\ IF open = <<>> THEN values = <<>> ELSE ~Last(open).object \/ Last(open).named

\* The container has one more value, if there is one.
Counted == IF open = <<>> THEN <<>>
           ELSE [open EXCEPT ![Len(open)] = [@ EXCEPT !.n = @ + 1, !.named = FALSE]]

Take(e) == /\ validator' = Feed(library, validator, e)
           /\ values' = Handle(values, e)
           /\ UNCHANGED <<case, library>>

Scalar == /\ Expected
          /\ \E i \in DOMAIN This.scalars : Take(This.scalars[i])
          /\ open' = Counted
          /\ size' = size + 1

Opens(word, object) ==
    /\ Expected /\ Len(open) < MaxDepth
    /\ Take(Event(word))
    /\ open' = Append(Counted, [object |-> object, n |-> 0, named |-> FALSE])
    /\ size' = size + 1
StartObject == Opens("StartObject", TRUE)
StartArray == Opens("StartArray", FALSE)

\* The names of the open object.
NamesSoFar == {values[Len(values) - 2 * k + 1].v : k \in 1..Last(open).n}

Key == /\ open # <<>> /\ size < This.size
       /\ Last(open).object /\ ~Last(open).named
       /\ \E name \in This.names \ NamesSoFar : Take([k |-> "Key", v |-> name])
       /\ open' = [open EXCEPT ![Len(open)].named = TRUE]
       /\ size' = size

EndContainer == /\ open # <<>> /\ ~Last(open).named
                /\ Take([k |-> IF Last(open).object THEN "EndObject" ELSE "EndArray", v |-> Last(open).n])
                /\ open' = Front(open)
                /\ size' = size

Empty == values' = <<>> /\ open' = <<>> /\ size' = 0 /\ UNCHANGED <<case, library>>

\* Reset, at any time; without it another document may follow a valid one.
Reset == size > 0 /\ Empty /\ validator' = Validator(library.root, <<>>)
NextDocument == Complete /\ validator.valid /\ Empty /\ validator' = validator

Init == /\ case \in DOMAIN Cases
        /\ library = Compile(This.schema)
        /\ validator = Validator(library.root, <<>>)
        /\ values = <<>> /\ open = <<>> /\ size = 0
Next == Scalar \/ StartObject \/ StartArray \/ Key \/ EndContainer \/ Reset \/ NextDocument
Spec == Init /\ [][Next]_vars

-------------------------------------------------------------------------------
(* What a schema says of a value: draft 4 of JSON Schema, in the code's reading. *)

NamesIn(x) == {x.v[i][1].v : i \in DOMAIN x.v}
ValueOf(x, name) == x.v[FindMember(x, name)][2]

RECURSIVE Same(_, _)
\* Equal as JSON values: numbers by value, objects whatever the order.
Same(x, y) ==
    /\ x.k = y.k
    /\ CASE x.k = "Number" -> ~Lower(GetDouble(x), GetDouble(y)) /\ ~Lower(GetDouble(y), GetDouble(x))
         [] x.k = "Object" -> /\ NamesIn(x) = NamesIn(y)
                              /\ \A name \in NamesIn(x) : Same(ValueOf(x, name), ValueOf(y, name))
         [] x.k = "Array" -> Len(x.v) = Len(y.v) /\ \A i \in DOMAIN x.v : Same(x.v[i], y.v[i])
         [] OTHER -> x.v = y.v

TypesOf(x) == CASE x.k \in {"True", "False"} -> {"boolean"}
                [] x.k = "Number" -> IF "Double" \in x.f THEN {"number"} ELSE {"integer", "number"}
                [] OTHER -> {type \in Types : x.k = [null |-> "Null", object |-> "Object",
                                array |-> "Array", string |-> "String", boolean |-> "",
                                number |-> "", integer |-> ""][type]}

\* The properties that additionalProperties does not speak of: also, which the
\* draft has not, those that are only required or have or are a dependency.
Declared(s) == PropertyNames(s)
Matching(s, name) ==
    {m \in ToSet(MembersOf(s, "patternProperties")) : IsPatternMatch(Pattern(m[1]), name)}

RECURSIVE Holds(_, _, _), HoldsAt(_, _, _, _)
\* The member of x of that name obeys the schemas for it.  A value that satisfies
\* the schema of additional properties need not obey the patterns its name
\* matches, nor one that obeys them that schema: the draft has it obey the patterns.
MemberObeys(d, s, x, name) ==
    LET all(schemas) == \A schema \in schemas : Holds(d, schema, ValueOf(x, name))
        own == {m[2] : m \in {n \in ToSet(MembersOf(s, "properties")) : n[1].v = name}}
        additional == IF Given(s, "additionalProperties", {"Object"})
                      THEN {Member(s, "additionalProperties")} ELSE {}
        obeys(patterned) ==
            CASE name \in Declared(s) -> all(patterned \cup own)
              [] name \notin Declared(s) /\ (additional = {} \/ patterned = {}) ->
                    all(patterned \cup additional)
              [] OTHER -> all(patterned) \/ all(additional)
    IN  obeys({m[2] : m \in Matching(s, name)})

ElementObeys(d, s, x, i) ==
    LET tuple == ArrayOf(s, "items") IN
    /\ Given(s, "items", {"Object"}) => Holds(d, Member(s, "items"), x.v[i])
    /\ tuple # <<>> =>
          IF i <= Len(tuple) THEN Holds(d, tuple[i], x.v[i])
          ELSE Given(s, "additionalItems", {"Object"}) => Holds(d, Member(s, "additionalItems"), x.v[i])

\* A required property may be missing if its schema has a default, a text that is not empty.
Defaulted(d, s, name) ==
    /\ name \in NamesIn(Object(MembersOf(s, "properties")))
    /\ LET own == ValueOf(Member(s, "properties"), name)
           at(target) == IF target = <<>> THEN own ELSE Get(d, target[1]).v
           has(there) == /\ there.k = "Object" /\ Given(there, "default", {"String"})
                         /\ Member(there, "default").v # <<>>
       IN  has(at(Referred(d, own)))

Allows(pattern, units) == pattern = <<>> \/ IsPatternMatch(pattern, units)

\* How many of the schemas x obeys.
Holding(d, schemas, x) == Cardinality({i \in DOMAIN schemas : Holds(d, schemas[i], x)})
Exclusive(s, word) == Given(s, word, {"True"})
Bound(s, word) == GetDouble(Member(s, word))

\* The value x obeys the keyword of the schema s of the document d.
Obeys(d, s, word, x) ==
    LET textual == x.k = "String"  object == x.k = "Object"  array == x.k = "Array"
        number == x.k = "Number"
        value == Member(s, word)
        count == IF textual THEN CodePoints(x.v, 1) ELSE Len(x.v)
        needs == ToSet(MembersOf(s, "dependencies"))
        chosen(n) == CASE word = "allOf" -> n = Len(value.v)
                       [] word = "anyOf" -> n > 0
                       [] word = "oneOf" -> n = 1
                       [] word = "not" -> n = 0
    IN  Has(s, word) =>
        CASE word = "type" -> \E type \in TypesOf(x) :
                                 K[type] \in StringsOf(IF value.k = "Array" THEN value.v ELSE <<value>>)
          [] word = "enum" -> \E i \in DOMAIN value.v : Same(x, value.v[i])
          [] word \in {"allOf", "anyOf", "oneOf", "not"} ->
                chosen(Holding(d, IF word = "not" THEN <<value>> ELSE value.v, x))
          [] word \in {"minLength", "minItems", "minProperties"} ->
                [minLength |-> textual, minItems |-> array, minProperties |-> object][word] =>
                    count < 0 \/ count >= value.v
          [] word \in {"maxLength", "maxItems", "maxProperties"} ->
                [maxLength |-> textual, maxItems |-> array, maxProperties |-> object][word] => count <= value.v
          [] word = "pattern" -> textual => Allows(Pattern(value), x.v)
          [] word = "minimum" -> number => IF Exclusive(s, "exclusiveMinimum")
                                           THEN Lower(Bound(s, word), GetDouble(x))
                                           ELSE ~Lower(GetDouble(x), Bound(s, word))
          [] word = "maximum" -> number => IF Exclusive(s, "exclusiveMaximum")
                                           THEN Lower(GetDouble(x), Bound(s, word))
                                           ELSE ~Lower(Bound(s, word), GetDouble(x))
          [] word = "multipleOf" -> number => Divides(Bound(s, word), GetDouble(x))
          [] word = "required" -> object => \A name \in StringsOf(value.v) :
                                               name \in NamesIn(x) \/ Defaulted(d, s, name)
          [] word = "dependencies" ->
                object => \A m \in needs : m[1].v \in NamesIn(x) =>
                    IF m[2].k = "Array" THEN StringsOf(m[2].v) \subseteq NamesIn(x) ELSE Holds(d, m[2], x)
          [] word = "additionalProperties" ->
                object /\ value.k = "False" =>
                    \A name \in NamesIn(x) : name \in Declared(s) \/ Matching(s, name) # {}
          [] word = "additionalItems" -> array /\ value.k = "False" =>
                                            ArrayOf(s, "items") = <<>> \/ Len(x.v) <= Len(ArrayOf(s, "items"))
          [] word = "uniqueItems" -> array /\ value.k = "True" =>
                                        \A i, j \in DOMAIN x.v : Same(x.v[i], x.v[j]) => i = j
          [] OTHER -> TRUE

HoldsAt(d, target, s, x) ==
    IF target # <<>> THEN Get(d, target[1]).ok => Holds(d, Get(d, target[1]).v, x)
    ELSE /\ \A word \in ToSet(Keywords) : Obeys(d, s, word, x)
         /\ x.k = "Object" => \A name \in NamesIn(x) : MemberObeys(d, s, x, name)
         /\ x.k = "Array" => \A i \in DOMAIN x.v : ElementObeys(d, s, x, i)

Holds(d, s, x) == HoldsAt(d, Referred(d, s), s, x)

RECURSIVE AllErrors(_)
AllErrors(errors) ==
    ToSet(errors) \cup UNION {UNION {AllErrors(errors[i].below[j]) : j \in DOMAIN errors[i].below} :
                              i \in DOMAIN errors}

-------------------------------------------------------------------------------
(* Properties. *)

\* The verdict on a document is what the schema says of it: a document is rejected
\* exactly if it does not satisfy the schema, however deep the alternatives,
\* dependencies, patterns and references lie by which it does not; there are
\* errors exactly if it was rejected; and an accepted document leaves the
\* validator as it was, so that another one may follow without Reset
\* (GenericSchemaValidator::IsValid, schema.h:1858; the handlers, schema.h:2077).
VerdictExact ==
    /\ Complete => /\ validator.valid <=> Holds(This.schema, This.schema, values[1])
                   /\ validator.valid => validator = Validator(library.root, <<>>)
    /\ validator.valid <=> validator.errors = <<>>

\* The schema at `at` rejects the value the validator stopped at or the one around it.
StoppedAt(d, at, x) ==
    /\ Get(d, at).ok
    /\ \E p \in {validator.path, IF validator.path = <<>> THEN <<>> ELSE Front(validator.path)} :
          Get(x, p).ok /\ ~Holds(d, Get(d, at).v, Get(x, p).v)

\* Every error tells the truth: the value of the document its instanceRef leads to
\* does not obey the keyword it names of the schema its schemaRef leads to, also
\* the errors of alternatives below an error; and the schema and the place the
\* validator stopped at are such a pair, the value itself or the one around it
\* (AddErrorLocation, schema.h:2331; GetInvalidSchemaPointer, schema.h:1865).
\* Not so when it stopped at a value that patterns speak of: that value's own schema
\* is typeless_, which is nowhere in the document and says of itself that it is the
\* root (schema.h:898, 1543), and the root need not reject anything there.
ErrorsAreReal ==
    Complete /\ ~validator.valid =>
        LET d == This.schema
            x == values[1]
        IN  /\ \A e \in AllErrors(validator.errors) :
                  /\ Get(x, e.instance).ok /\ Get(d, e.schema).ok
                  /\ ~Obeys(d, Get(d, e.schema).v, e.keyword, Get(x, e.instance).v)
            /\ IF Current(validator).schema = Typeless
               THEN Current(validator).invalidKeyword = "patternProperties"
               ELSE StoppedAt(d, CurrentSchema(library, validator).pointer, x)
===============================================================================

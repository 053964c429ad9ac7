----------------------------- MODULE JsonValidator -----------------------------
(* GenericSchemaValidator (schema.h): it takes a document event by event.  Its
   stack has a context for every value that is open, with the schema the value
   must satisfy; the alternatives of that schema, and the schemas of the patterns
   a member's name matches, have validators of their own in the context, which
   are fed every event of the value.  It ends at the first event that no longer
   satisfies the schema, and from then on answers every event with false. *)
EXTENDS JsonSchema

\* Its constructors: a nested one starts with the path of the one it is nested in.
Validator(root, path) ==
    [root |-> root, stack |-> <<>>, path |-> path, errors |-> <<>>, valid |-> TRUE]

NoValidators == [allOf |-> <<>>, anyOf |-> <<>>, oneOf |-> <<>>, not |-> <<>>, dependencies |-> <<>>]
Context(schema) ==
    [schema |-> schema, valueSchema |-> Absent, invalidKeyword |-> "none",
     hashed |-> FALSE, hasher |-> <<>>, arrayElementHashCodes |-> <<>>,
     validators |-> NoValidators, patternValidators |-> <<>>, patternSchemas |-> <<>>,
     valueKind |-> "PatternOnly", objectKind |-> "PatternOnly", arrayElementIndex |-> 0,
     propertyExist |-> {}, inArray |-> FALSE, valueUniqueness |-> FALSE, arrayUniqueness |-> FALSE]

Current(v) == Last(v.stack)
CurrentSchema(l, v) == SchemaOf(l, Current(v).schema)
InContext(v, context) == [v EXCEPT !.stack[Len(v.stack)] = context]

\* What is done unless the validator has failed.
Then(v, Do(_)) == IF v.valid THEN Do(v) ELSE v

-------------------------------------------------------------------------------
(* Errors: where in the document, of which schema, which keyword, and the errors
   of the validators below. *)

Invalid(v, keyword) ==
    [v EXCEPT !.valid = FALSE, !.stack[Len(v.stack)].invalidKeyword = keyword]

\* Mutant of Reported: the error of a container is put at its element.
ReportedAtElement(l, v, keyword, parent, below) ==
    [v EXCEPT !.errors = Append(@, [keyword |-> keyword, instance |-> v.path,
         schema |-> CurrentSchema(l, v).pointer, below |-> below])]

\* AddCurrentError, with AddErrorLocation; `parent`: the error is the container's
\* of the place the path leads to.
Reported(l, v, keyword, parent, below) ==
    [v EXCEPT !.errors = Append(@, [keyword |-> keyword,
         instance |-> IF parent /\ v.path # <<>> THEN Front(v.path) ELSE v.path,
         schema |-> CurrentSchema(l, v).pointer, below |-> below])]

Rejected(l, v, keyword) == Invalid(Reported(l, v, keyword, FALSE, <<>>), keyword)

ErrorsOf(validators) == [i \in DOMAIN validators |-> validators[i].errors]

\* MergeError
Merged(v, validators) == [v EXCEPT !.errors = @ \o FlattenSeq(ErrorsOf(validators))]

-------------------------------------------------------------------------------
(* What the schema of a value asks of the event the value begins with. *)

\* A double in units of 10^exp.
Scaled(d, exp) == (IF d.neg THEN -d.sig ELSE d.sig) * 10 ^ (d.exp - exp)
Lower(a, b) == LET exp == Min({a.exp, b.exp}) IN Scaled(a, exp) < Scaled(b, exp)
Divides(b, a) == LET exp == Min({a.exp, b.exp}) IN Scaled(a, exp) % Scaled(b, exp) = 0

\* CheckDoubleMinimum: x is below the limit, or at it if the limit is exclusive.
BelowDouble(x, limit, exclusive) ==
    IF exclusive THEN ~Lower(limit, x) ELSE Lower(x, limit)

\* CheckInt, CheckUint and CheckDoubleMinimum: integers are compared as integers
\* where the limit has the type of the number; an unsigned number is above any limit
\* that is negative, a signed one below any that is too large for its type.
BelowMinimum(s, x) ==
    LET m == s.minimum
        type == IF x.k \in {"Int", "Int64"} THEN "Int64" ELSE "Uint64"
    IN  /\ m # Null
        /\ CASE x.k = "Double" -> BelowDouble(x.v, GetDouble(m), s.exclusiveMinimum)
             [] x.k # "Double" /\ type \in m.f ->
                   IF s.exclusiveMinimum THEN x.v <= m.v ELSE x.v < m.v
             [] x.k # "Double" /\ type \notin m.f /\ "Double" \notin m.f -> type = "Int64"
             [] OTHER -> BelowDouble(GetDouble(Number(x.k, x.v)), GetDouble(m), s.exclusiveMinimum)

AboveMaximum(s, x) ==
    LET m == s.maximum
        type == IF x.k \in {"Int", "Int64"} THEN "Int64" ELSE "Uint64"
        exceeds(d) == IF s.exclusiveMaximum THEN ~Lower(d, GetDouble(m)) ELSE Lower(GetDouble(m), d)
    IN  /\ m # Null
        /\ CASE x.k = "Double" -> exceeds(x.v)
             [] x.k # "Double" /\ type \in m.f ->
                   IF s.exclusiveMaximum THEN x.v >= m.v ELSE x.v > m.v
             [] x.k # "Double" /\ type \notin m.f /\ "Double" \notin m.f -> type = "Uint64"
             [] OTHER -> exceeds(GetDouble(Number(x.k, x.v)))

\* The double of a large integer, and a - q * b, are rounded: left out.
NotMultipleOf(s, x) ==
    LET m == s.multipleOf IN
    /\ m # Null
    /\ IF x.k # "Double" /\ "Uint64" \in m.f
       THEN (IF x.v < 0 THEN -x.v ELSE x.v) % m.v # 0
       ELSE ~Divides(GetDouble(m), GetDouble(Number(x.k, x.v)))

\* CountStringCodePoint; a text that is not well-formed has no length.
RECURSIVE CodePoints(_, _)
CodePoints(units, p) ==
    LET d == Decode("UTF8", units, p) IN
    IF p > Len(units) THEN 0
    ELSE IF d.ok /\ CodePoints(units, d.next) >= 0 THEN 1 + CodePoints(units, d.next) ELSE -1

\* The first keyword, in the order of the checks, that the event does not satisfy.
TextUnsatisfied(s, units, length) ==
    IF length >= 0 /\ length < s.minLength THEN "minLength"
    ELSE IF length > s.maxLength THEN "maxLength"
    ELSE IF s.pattern # <<>> /\ ~IsPatternMatch(s.pattern, units) THEN "pattern"
    ELSE "none"

Unsatisfied(s, e) ==
    LET numbers == {"Int", "Uint", "Int64", "Uint64", "Double"}
        type == CASE e.k = "Null" -> {"null"}
                  [] e.k \in {"True", "False"} -> {"boolean"}
                  [] e.k \in {"String", "RawNumber"} -> {"string"}
                  [] e.k = "StartObject" -> {"object"}
                  [] e.k = "StartArray" -> {"array"}
                  [] e.k = "Double" -> {"number"}
                  [] OTHER -> {"integer", "number"}
    IN  IF type \cap s.type = {} THEN "type"
        ELSE IF e.k \in numbers THEN
            IF BelowMinimum(s, e) THEN "minimum"
            ELSE IF AboveMaximum(s, e) THEN "maximum"
            ELSE IF NotMultipleOf(s, e) THEN "multipleOf" ELSE "none"
        ELSE IF e.k \in {"String", "RawNumber"} THEN TextUnsatisfied(s, e.v, CodePoints(e.v, 1))
        ELSE "none"

-------------------------------------------------------------------------------
(* A value begins. *)

PushSchema(v, schema) == [v EXCEPT !.stack = Append(@, Context(schema))]

\* Schema::BeginValue: which schema the next element of an array must satisfy.
ElementSchema(s, index) ==
    CASE s.itemsList # Absent -> s.itemsList
      [] s.itemsList = Absent /\ s.hasTuple /\ index < Len(s.itemsTuple) -> s.itemsTuple[index + 1]
      [] s.itemsList = Absent /\ s.hasTuple /\ index >= Len(s.itemsTuple) ->
            IF s.additionalItemsSchema # Absent THEN s.additionalItemsSchema
            ELSE IF s.additionalItems THEN Typeless ELSE Absent
      [] OTHER -> Typeless

\* BeginValue: a context for the value, and a validator for each pattern that its
\* name matches.
BeginValue(l, v) ==
    LET c == Current(v)
        s == CurrentSchema(l, v)
        schema == ElementSchema(s, c.arrayElementIndex)
        there == IF c.inArray THEN [v EXCEPT !.path = AppendIndex(@, c.arrayElementIndex)] ELSE v
        taken == IF c.inArray
                 THEN InContext(there, [c EXCEPT !.valueSchema = schema, !.arrayElementIndex = @ + 1,
                                                 !.valueUniqueness = @ \/ s.uniqueItems])
                 ELSE there
        pushed == PushSchema(taken, Current(taken).valueSchema)
    IN  CASE v.stack = <<>> -> PushSchema(v, v.root)
          [] v.stack # <<>> /\ c.inArray /\ schema = Absent ->
                Invalid(Reported(l, there, "additionalItems", TRUE, <<>>), "items")
          [] OTHER ->
                InContext(pushed, [Current(pushed) EXCEPT
                    !.objectKind = IF c.patternSchemas # <<>> THEN c.valueKind ELSE @,
                    !.patternValidators = [i \in DOMAIN c.patternSchemas |->
                                              Validator(c.patternSchemas[i], taken.path)],
                    !.arrayUniqueness = Current(taken).valueUniqueness])

\* CreateParallelValidator: the validators of the alternatives.
CreateParallelValidator(l, v) ==
    LET s == CurrentSchema(l, v)
        all(schemas) == [i \in DOMAIN schemas |-> Validator(schemas[i], v.path)]
        bySchema == {name \in DOMAIN s.properties : s.properties[name].dependenciesSchema # Absent}
    IN  InContext(v, [Current(v) EXCEPT
            !.hashed = s.enum # <<>> \/ Current(v).arrayUniqueness,
            !.validators = [allOf |-> all(s.allOf), anyOf |-> all(s.anyOf), oneOf |-> all(s.oneOf),
                            not |-> IF s.not = Absent THEN <<>> ELSE <<Validator(s.not, v.path)>>,
                            dependencies |-> [name \in bySchema |->
                                Validator(s.properties[name].dependenciesSchema, v.path)]]])

\* Schema::Null ... StartArray.
BegunUnless(l, v, e, keyword) ==
    IF keyword # "none" THEN Rejected(l, v, keyword)
    ELSE CreateParallelValidator(l,
            IF e.k = "StartArray" THEN InContext(v, [Current(v) EXCEPT !.inArray = TRUE, !.arrayElementIndex = 0])
            ELSE v)
Begun(l, v, e) == BegunUnless(l, v, e, Unsatisfied(CurrentSchema(l, v), e))

\* Schema::Key: which schemas the value of the member must satisfy.
Matched(s, name) == SelectSeq(s.patternProperties, LAMBDA p : IsPatternMatch(p.pattern, name))

NameTaken(l, v, name, s, matching) ==
    LET c == Current(v)
        schemas == [i \in DOMAIN matching |-> matching[i].schema]
        by(schema, kind) ==
            IF schemas = <<>> THEN [c EXCEPT !.valueSchema = schema, !.patternSchemas = <<>>]
            ELSE [c EXCEPT !.valueSchema = Typeless, !.valueKind = kind,
                           !.patternSchemas = Append(schemas, schema)]
    IN  CASE name \in DOMAIN s.properties ->
                LET known == by(s.properties[name].schema, "WithProperty") IN
                InContext(v, [known EXCEPT !.propertyExist = @ \cup {name}])
          [] name \notin DOMAIN s.properties /\ s.additionalPropertiesSchema # Absent ->
                InContext(v, by(s.additionalPropertiesSchema, "WithAdditionalProperty"))
          [] name \notin DOMAIN s.properties /\ s.additionalPropertiesSchema = Absent
             /\ (s.additionalProperties \/ schemas # <<>>) ->
                InContext(v, [c EXCEPT !.valueSchema = Typeless, !.patternSchemas = schemas])
          [] OTHER -> Invalid(Reported(l, v, "additionalProperties", TRUE, <<>>), "additionalProperties")

KeyTaken(l, v, name) ==
    NameTaken(l, v, name, CurrentSchema(l, v), Matched(CurrentSchema(l, v), name))

-------------------------------------------------------------------------------
(* A value ends. *)

AllValid(validators) == \A i \in DOMAIN validators : validators[i].valid
ValidOnes(validators) == Cardinality({i \in DOMAIN validators : validators[i].valid})

\* Mutant of PatternsHold: what the member must satisfy besides the patterns is
\* taken for one more pattern.
PatternsHoldAlike(c) == AllValid(c.patternValidators)

\* The schemas of the patterns a member's name matches must all hold, and its
\* own schema, which is the last one; but a value that satisfies the schema of
\* additional properties need not satisfy the patterns.
PatternsHold(c) ==
    LET own == IF c.objectKind = "PatternOnly" THEN c.patternValidators ELSE Front(c.patternValidators)
        other == Last(c.patternValidators).valid
    IN  \/ c.patternValidators = <<>>
        \/ c.objectKind = "PatternOnly" /\ AllValid(own)
        \/ c.objectKind = "WithProperty" /\ AllValid(own) /\ other
        \/ c.objectKind = "WithAdditionalProperty" /\ (AllValid(own) \/ other)

\* Schema::EndValue: the first keyword the value as a whole does not satisfy.
ValueViolated(s, c) ==
    IF ~PatternsHold(c) THEN "patternProperties"
    ELSE IF s.enum # <<>> /\ HashOf(c.hasher[1]) \notin ToSet(s.enum) THEN "enum"
    ELSE IF ~AllValid(c.validators.allOf) THEN "allOf"
    ELSE IF s.anyOf # <<>> /\ ValidOnes(c.validators.anyOf) = 0 THEN "anyOf"
    ELSE IF s.oneOf # <<>> /\ ValidOnes(c.validators.oneOf) # 1 THEN "oneOf"
    ELSE IF ValidOnes(c.validators.not) > 0 THEN "not"
    ELSE "none"

\* Its errors: PropertyViolations and NotAllOf take over those of the validators,
\* NoneOf and NotOneOf put them below their own.
Violation(l, v, keyword) ==
    LET c == Current(v) IN
    CASE keyword = "patternProperties" -> Invalid(Merged(v, c.patternValidators), keyword)
      [] keyword = "allOf" -> Invalid(Merged(v, c.validators.allOf), keyword)
      [] keyword \in {"anyOf", "oneOf"} ->
            Invalid(Reported(l, v, keyword, FALSE, ErrorsOf(c.validators[keyword])), keyword)
      [] OTHER -> Rejected(l, v, keyword)

\* EndValue: the context goes, the element must be new to an array of unique
\* items, and the path leads to the container again.
EndValue(l, v) ==
    LET c == Current(v)
        keyword == ValueViolated(CurrentSchema(l, v), c)
        popped == [v EXCEPT !.stack = Front(@)]
        above == Current(popped)
        code == HashOf(c.hasher[1])
        counted == IF popped.stack # <<>> /\ above.valueUniqueness
                   THEN InContext(popped, [above EXCEPT !.arrayElementHashCodes = Append(@, code)])
                   ELSE popped
    IN  CASE keyword # "none" -> Violation(l, v, keyword)
          [] keyword = "none" /\ popped.stack # <<>> /\ above.valueUniqueness
             /\ code \in ToSet(above.arrayElementHashCodes) ->
                Invalid(Reported(l, popped, "uniqueItems", TRUE, <<>>), "uniqueItems")
          [] OTHER -> [counted EXCEPT !.path = IF @ = <<>> THEN <<>> ELSE Front(@)]

\* The required properties that are not there; one whose schema has a default is
\* never missing.
Missing(l, s, c) ==
    {name \in DOMAIN s.properties :
        /\ s.properties[name].required /\ name \notin c.propertyExist
        /\ SchemaOf(l, s.properties[name].schema).defaultValueLength = 0}

\* The dependencies that do not hold: each property that is there and lacks another one,
\* or whose schema for the whole object does not hold.
BrokenDependencies(s, c) ==
    {name \in c.propertyExist :
        \/ ~s.properties[name].dependencies \subseteq c.propertyExist
        \/ name \in DOMAIN c.validators.dependencies /\ ~c.validators.dependencies[name].valid}

\* Schema::EndObject and Schema::EndArray.
ContainerEnded(l, v, e) ==
    LET s == CurrentSchema(l, v)
        c == Current(v)
        broken == BrokenDependencies(s, c)
        below == SetToSeq(broken \cap DOMAIN c.validators.dependencies)
        dependencies == [i \in DOMAIN below |-> c.validators.dependencies[below[i]].errors]
    IN  IF e.k = "EndArray"
        THEN LET ended == InContext(v, [c EXCEPT !.inArray = FALSE]) IN
             IF e.v < s.minItems THEN Rejected(l, ended, "minItems")
             ELSE IF e.v > s.maxItems THEN Rejected(l, ended, "maxItems")
             ELSE ended
        ELSE IF Missing(l, s, c) # {} THEN Rejected(l, v, "required")
        ELSE IF e.v < s.minProperties THEN Rejected(l, v, "minProperties")
        ELSE IF e.v > s.maxProperties THEN Rejected(l, v, "maxProperties")
        ELSE IF s.hasDependencies /\ broken # {}
             THEN Invalid(Reported(l, v, "dependencies", FALSE, dependencies), "dependencies")
        ELSE v

-------------------------------------------------------------------------------
RECURSIVE Feed(_, _, _)

\* Every open context has the event: its hasher, its alternatives, its patterns.
Parallel(l, v, e) ==
    LET fed(validators) == [i \in DOMAIN validators |-> Feed(l, validators[i], e)]
        all(c) == [c EXCEPT !.hasher = IF c.hashed THEN Handle(@, e) ELSE @,
                            !.validators = [kind \in DOMAIN @ |-> fed(@[kind])],
                            !.patternValidators = fed(@)]
    IN  [v EXCEPT !.stack = [i \in DOMAIN @ |-> all(@[i])]]

\* The handler methods.
Feed(l, v, e) ==
    LET begins(w) == Then(BeginValue(l, w), LAMBDA x : Begun(l, x, e))
        parallel(w) == Then(w, LAMBDA x : Parallel(l, x, e))
        ends(w) == Then(w, LAMBDA x : EndValue(l, x))
        named == [v EXCEPT !.path = Append(@, Token(e.v, IndexOf(e.v)))]
        begun(w) == IF e.k \in {"StartObject", "StartArray"} THEN w ELSE ends(w)
    IN  CASE ~v.valid -> v
          [] v.valid /\ e.k = "Key" -> parallel(KeyTaken(l, named, e.v))
          [] v.valid /\ e.k \in {"EndObject", "EndArray"} ->
                ends(Then(parallel(v), LAMBDA x : ContainerEnded(l, x, e)))
          [] OTHER -> begun(parallel(begins(v)))
===============================================================================

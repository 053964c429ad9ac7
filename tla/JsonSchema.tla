------------------------------ MODULE JsonSchema ------------------------------
(* A schema document (schema.h: Schema, GenericSchemaDocument): every object of a
   JSON document is compiled into a schema, which the validators (JsonValidator)
   refer to.  A schema is found by the pointer it was compiled at; the one schema
   that has no conditions, typeless_, stands where a reference leads nowhere.
   Subschemas are objects, as the schema language has it: the code does not look. *)
EXTENDS JsonPointer

R == INSTANCE JsonRegex

\* The keywords, and the names of the types, abbreviated to a letter.
Keywords ==
    <<"type", "enum", "allOf", "anyOf", "oneOf", "not", "properties", "required", "dependencies",
      "patternProperties", "additionalProperties", "minProperties", "maxProperties", "items",
      "minItems", "maxItems", "additionalItems", "uniqueItems", "minLength", "maxLength", "pattern",
      "minimum", "maximum", "exclusiveMinimum", "exclusiveMaximum", "multipleOf">>
Others == <<"default", "$ref", "definitions", "null", "boolean", "object", "array", "string",
            "number", "integer">>
K == [word \in ToSet(Keywords) \cup ToSet(Others) |->
         IF \E i \in DOMAIN Keywords : Keywords[i] = word
         THEN <<96 + CHOOSE i \in DOMAIN Keywords : Keywords[i] = word>>
         ELSE <<64 + CHOOSE i \in DOMAIN Others : Others[i] = word>>]

Types == {"null", "boolean", "object", "array", "string", "number", "integer"}

\* Where a schema is: in the schema map, or the typeless one, or not set.
Absent == <<"absent">>
Typeless == <<"typeless">>
MappedAt(p) == <<"at", p>>

-------------------------------------------------------------------------------
Has(value, word) == FindMember(value, K[word]) <= Len(value.v)
Member(value, word) == value.v[FindMember(value, K[word])][2]

\* GetMember and the test of its kind that goes with every use of it.
Given(value, word, kinds) == Has(value, word) /\ Member(value, word).k \in kinds

\* AssignIfExist
Flag(value, word, default) ==
    IF Given(value, word, {"True", "False"}) THEN Member(value, word).k = "True" ELSE default
Size(value, word, default) ==
    IF Given(value, word, {"Number"}) /\ "Uint64" \in Member(value, word).f
       /\ Member(value, word).v <= NoIndex
    THEN Member(value, word).v ELSE default

ArrayOf(value, word) == IF Given(value, word, {"Array"}) THEN Member(value, word).v ELSE <<>>
MembersOf(value, word) == IF Given(value, word, {"Object"}) THEN Member(value, word).v ELSE <<>>
StringsOf(values) == {values[i].v : i \in {j \in DOMAIN values : values[j].k = "String"}}

\* The hash code of a value.  It mixes the members of an object with xor, so that
\* a pair that comes twice is as good as none; two values that differ otherwise
\* have different codes.  A number is its 64 bits and its double.
RECURSIVE HashOf(_)
HashOf(x) ==
    LET pairs == [i \in DOMAIN x.v |-> <<x.v[i][1].v, HashOf(x.v[i][2])>>]
        times(pair) == Cardinality({i \in DOMAIN pairs : pairs[i] = pair})
        whole(d) == IF d.exp >= 0 THEN d.sig * 10 ^ d.exp ELSE d.sig \div 10 ^ (-d.exp)
    IN  IF x.k = "Object" THEN <<"Object", {pair \in ToSet(pairs) : times(pair) % 2 = 1}>>
        ELSE IF x.k = "Array" THEN <<"Array", [i \in DOMAIN x.v |-> HashOf(x.v[i])]>>
        ELSE IF x.k = "Number" /\ "Double" \in x.f THEN
                <<"Number", Bits(IF x.v.neg THEN -whole(x.v) ELSE whole(x.v)), x.v>>
        ELSE IF x.k = "Number" THEN <<"Number", Bits(x.v), GetDouble(x)>>
        ELSE <<x.k, x.v>>

Positive(d) == ~d.neg /\ d.sig > 0

\* CreatePattern: a text that is no pattern leaves none.
IfValid(re) == IF re.valid THEN <<re>> ELSE <<>>
Pattern(value) == IF value.k = "String" THEN IfValid(R!Regex(value.v)) ELSE <<>>
IsPatternMatch(pattern, units) == pattern # <<>> /\ R!Search(pattern[1], units)

-------------------------------------------------------------------------------
(* References. *)

RECURSIVE Referred(_, _)
\* HandleRefSchema: where the reference of a schema leads, after all references on
\* the way; <<>> for a schema that is none, also if the reference is remote (no
\* provider is given) or no pointer.
Referred(document, value) ==
    LET units == Member(value, "$ref").v
        further(there) == IF there.ok THEN Referred(document, there.v) ELSE <<>>
        farthest(tokens, beyond) == IF beyond = <<>> THEN <<tokens>> ELSE beyond
        by(pointer) ==
            IF ~pointer.valid THEN <<>>
            ELSE farthest(pointer.tokens, further(Get(document, pointer.tokens)))
    IN  IF ~Given(value, "$ref", {"String"}) \/ units = <<>> \/ At(units, 1) # Hash THEN <<>>
        ELSE by(ParsePointer(units))

RECURSIVE ObjectsFrom(_, _)
\* CreateSchemaRecursive: the pointers of all objects of the document, with their
\* values.  The name of a member is no index, even if it is a number.
ObjectsFrom(p, value) ==
    CASE value.k = "Object" ->
            {<<p, value>>} \cup UNION {ObjectsFrom(AppendName(p, value.v[i][1].v), value.v[i][2]) :
                                       i \in DOMAIN value.v}
      [] value.k = "Array" -> UNION {ObjectsFrom(AppendIndex(p, i - 1), value.v[i]) : i \in DOMAIN value.v}
      [] OTHER -> {}

\* CreateSchema: what is put where the schema of `value`, at p, is wanted.  The
\* references are resolved when all schemas are in the map; typeless_ stands for
\* one that leads to no schema.
Slot(document, p, value) ==
    LET reached(target) ==
            CASE target = <<>> -> MappedAt(p)
              [] target # <<>> /\ \E o \in ObjectsFrom(<<>>, document) : o[1] = target[1] ->
                    MappedAt(target[1])
              [] OTHER -> Typeless
    IN  IF value.k = "Object" THEN reached(Referred(document, value)) ELSE Absent

-------------------------------------------------------------------------------
\* AddType
AddType(name) == CASE name = K["number"] -> {"number", "integer"}
                   [] OTHER -> {type \in Types : K[type] = name}

TypeSet(value) ==
    LET v == Member(value, "type") IN
    IF ~Has(value, "type") THEN Types
    ELSE UNION {AddType(name) : name \in StringsOf(IF v.k = "Array" THEN v.v ELSE <<v>>)}

\* The properties a schema knows: those it has a schema for, requires, or has a
\* dependency of or on.
PropertyNames(value) ==
    LET named == MembersOf(value, "dependencies") IN
    {MembersOf(value, "properties")[i][1].v : i \in DOMAIN MembersOf(value, "properties")}
        \cup StringsOf(ArrayOf(value, "required"))
        \cup UNION {{named[i][1].v} \cup (IF named[i][2].k = "Array" THEN StringsOf(named[i][2].v) ELSE {}) :
                    i \in DOMAIN named}

\* The subschemas of the object at p: under keywords, in their arrays, and in their
\* members, where `default` stands for what is no schema.
Words == [one |-> {"not", "items", "additionalProperties", "additionalItems"},
          list |-> {"allOf", "anyOf", "oneOf", "items"},
          members |-> {"properties", "dependencies", "patternProperties"}]

Subschemas(document, p, value) ==
    LET at(word) == AppendName(p, K[word])
        default(word) == IF word = "patternProperties" THEN Absent ELSE Typeless
        member(word, m, s) == [name |-> m[1].v, value |-> m[2],
                               schema |-> IF s = Absent THEN default(word) ELSE s]
    IN  [one |-> [word \in Words.one |->
                     IF Given(value, word, {"Object"})
                     THEN Slot(document, at(word), Member(value, word)) ELSE Absent],
         list |-> [word \in Words.list |-> [i \in DOMAIN ArrayOf(value, word) |->
                      Slot(document, AppendIndex(at(word), i - 1), ArrayOf(value, word)[i])]],
         members |-> [word \in Words.members |-> [i \in DOMAIN MembersOf(value, word) |->
                         LET m == MembersOf(value, word)[i] IN
                         member(word, m, Slot(document, AppendName(at(word), m[1].v), m[2]))]]]

\* What a schema knows of a property: the last schema given for it, and the last
\* dependency, which is a set of properties or a schema.
Property(value, sub, name) ==
    LET named(word) == SelectSeq(sub.members[word], LAMBDA m : m.name = name)
        own == named("properties")
        need == Last(named("dependencies"))
        needs(kind) == named("dependencies") # <<>> /\ need.value.k = kind
    IN  [schema |-> IF own = <<>> THEN Typeless ELSE Last(own).schema,
         required |-> name \in StringsOf(ArrayOf(value, "required")),
         dependencies |-> IF needs("Array") THEN StringsOf(need.value.v) ELSE {},
         dependenciesSchema |-> IF needs("Object") THEN need.schema ELSE Absent]

\* Schema's constructor, for the object at p with those subschemas.
Constructed(p, value, sub) ==
    LET number(word) == IF Given(value, word, {"Number"}) THEN Member(value, word) ELSE Null
        patterned == sub.members["patternProperties"]
    IN  [pointer |-> p,
         type |-> TypeSet(value),
         enum |-> [i \in DOMAIN ArrayOf(value, "enum") |-> HashOf(ArrayOf(value, "enum")[i])],
         allOf |-> sub.list["allOf"], anyOf |-> sub.list["anyOf"], oneOf |-> sub.list["oneOf"],
         not |-> sub.one["not"],
         properties |-> [name \in PropertyNames(value) |-> Property(value, sub, name)],
         hasDependencies |-> Given(value, "dependencies", {"Object"}),
         patternProperties |-> [i \in DOMAIN patterned |->
                                   [pattern |-> Pattern(String(patterned[i].name)),
                                    schema |-> patterned[i].schema]],
         additionalProperties |-> Flag(value, "additionalProperties", TRUE),
         additionalPropertiesSchema |-> sub.one["additionalProperties"],
         minProperties |-> Size(value, "minProperties", 0),
         maxProperties |-> Size(value, "maxProperties", NoIndex),
         itemsList |-> sub.one["items"],
         hasTuple |-> ArrayOf(value, "items") # <<>>,
         itemsTuple |-> sub.list["items"],
         additionalItems |-> Flag(value, "additionalItems", TRUE),
         additionalItemsSchema |-> sub.one["additionalItems"],
         minItems |-> Size(value, "minItems", 0), maxItems |-> Size(value, "maxItems", NoIndex),
         uniqueItems |-> Flag(value, "uniqueItems", FALSE),
         minLength |-> Size(value, "minLength", 0), maxLength |-> Size(value, "maxLength", NoIndex),
         pattern |-> IF Given(value, "pattern", {"String"}) THEN Pattern(Member(value, "pattern")) ELSE <<>>,
         minimum |-> number("minimum"), maximum |-> number("maximum"),
         exclusiveMinimum |-> Flag(value, "exclusiveMinimum", FALSE),
         exclusiveMaximum |-> Flag(value, "exclusiveMaximum", FALSE),
         multipleOf |-> IF number("multipleOf") # Null /\ Positive(GetDouble(number("multipleOf")))
                        THEN number("multipleOf") ELSE Null,
         defaultValueLength |-> IF Given(value, "default", {"String"}) THEN Len(Member(value, "default").v)
                                ELSE 0]

Compiled(document, p, value) == Constructed(p, value, Subschemas(document, p, value))

\* The constructor of GenericSchemaDocument.  A root that is no object has no conditions.
Compile(document) ==
    LET objects == ObjectsFrom(<<>>, document)
        known(root) == IF root = Absent THEN Typeless ELSE root
    IN  [root |-> known(Slot(document, <<>>, document)),
         typeless |-> Compiled(Object(<<>>), <<>>, Object(<<>>)),
         map |-> [p \in {o[1] : o \in objects} |->
                     Compiled(document, p, (CHOOSE o \in objects : o[1] = p)[2])]]

SchemaOf(library, schema) == IF schema = Typeless THEN library.typeless ELSE library.map[schema[2]]
===============================================================================

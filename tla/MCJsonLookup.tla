------------------------------ MODULE MCJsonLookup ------------------------------
(* The schemas of json_lookup, each with documents in which its keywords meet; and
   the pieces of pointers, the names and the patterns.  What is asked of documents
   is whether they satisfy a schema (JsonConformance), and what pointers and patterns
   find in them (JsonQuery), which the schemas rest on.  The two do not touch: one
   moves while the other is where it began. *)
EXTENDS JsonConformance, JsonQuery

LookupInit == Init /\ QueryInit
LookupNext == \/ QueryInit /\ Next /\ UNCHANGED asked
              \/ case = 1 /\ size = 0 /\ QueryNext /\ UNCHANGED vars
LookupSpec == LookupInit /\ [][LookupNext]_<<vars, asked>>

X == <<88>>  Y == <<89>>  XY == <<88, 89>>

Schema(members) == Object(members)
With(word, value) == <<String(K[word]), value>>
Under(name, value) == <<String(name), value>>
N(n) == Number("Uint", n)
Minus1(n) == Number("Int", n)
Word(word) == String(K[word])
Ty(word) == Schema(<<With("type", Word(word))>>)
Strings(names) == Array([i \in DOMAIN names |-> String(names[i])])
False == [k |-> "False", v |-> <<>>]
True == [k |-> "True", v |-> <<>>]
Decimal(sig, exp) == Number("Double", Finite(FALSE, sig, exp))

\* "#" and "#/definitions/<name>"
ToRoot == <<Hash>>
ToDefinition(name) == <<Hash, Slash>> \o K["definitions"] \o <<Slash>> \o name
Multiple(m) == Schema(<<With("multipleOf", m)>>)
Ref(pointer) == Schema(<<With("$ref", String(pointer))>>)

Signed(n) == [k |-> "Int", v |-> n]
Uint(n) == [k |-> "Uint", v |-> n]
Double(sig, exp) == [k |-> "Double", v |-> Finite(FALSE, sig, exp)]
Str(units) == [k |-> "String", v |-> units]
Simple == <<Event("Null"), Uint(1), Str(<<Ch.a>>)>>
Case(schema, scalars, names, most) ==
    [schema |-> schema, scalars |-> scalars, names |-> names, size |-> most]

\* Limits of every type against numbers of every type, around the limit.
Numbers == <<Signed(-3), Signed(-2), Signed(-1), Uint(0), Uint(1), Uint(2), Uint(3), Uint(6),
             [k |-> "Int64", v |-> -20], [k |-> "Uint64", v |-> 126], [k |-> "Uint64", v |-> 200],
             [k |-> "Uint64", v |-> 201], Double(15, -1), Double(2, 0), Double(3, 0)>>
Limits == <<Minus1(-2), N(2), Number("Uint64", 200), Decimal(15, -1)>>
Bounded(word, exclusive, flag) ==
    [i \in DOMAIN Limits |->
        Case(Schema(<<With(word, Limits[i]), With(exclusive, flag)>>), Numbers, {}, 1)]
TypeNames == SetToSeq(Types)
NumberCases ==
    Bounded("minimum", "exclusiveMinimum", True) \o Bounded("minimum", "exclusiveMinimum", False)
    \o Bounded("maximum", "exclusiveMaximum", True) \o Bounded("maximum", "exclusiveMinimum", True)
    \o <<Case(Multiple(N(3)), Numbers, {}, 1),
         Case(Schema(Multiple(Decimal(15, -1)).v \o Ty("number").v), Numbers, {}, 1)>>
    \o [i \in DOMAIN TypeNames |->
           Case(Ty(TypeNames[i]), Numbers \o Simple \o <<Event("True")>>, {X}, 2)]

TextCases ==
    <<Case(Schema(<<With("minLength", N(1)), With("maxLength", N(2)),
                   With("pattern", String(<<R!Caret, Ch.a, Plus, R!Dollar>>)),
                   With("type", Array(<<Word("string"), Word("null")>>))>>),
          <<Str(<<>>), Str(<<Ch.a>>), Str(<<195, 169>>), Str(<<Ch.a, Ch.b>>), Str(<<Ch.a, Ch.a, Ch.a>>),
           Str(<<195>>), Event("Null")>>, {}, 2)>>

ChoiceCases ==
    <<Case(Schema(<<With("oneOf", Array(<<Multiple(N(2)), Multiple(N(3))>>)),
                   With("anyOf", Array(<<Ty("integer"), Ty("string")>>)),
                   With("not", Schema(<<With("enum", Array(<<N(4)>>))>>))>>),
          <<Uint(2), Uint(3), Uint(4), Uint(5), Uint(6), Double(2, 0), Str(<<>>)>>, {}, 1),
     Case(Schema(<<With("allOf", Array(<<Schema(<<With("items", Ty("integer"))>>),
                                         Schema(<<With("maxItems", N(1)), With("minItems", N(1))>>)>>))>>),
          Simple, {X}, 3),
     Case(Schema(<<With("anyOf", Array(<<
              Schema(<<With("properties", Schema(<<Under(X, Schema(<<With("not", Ty("integer"))>>))>>)),
                       With("required", Strings(<<X>>))>>),
              Schema(<<With("type", Word("array")),
                       With("items", Schema(<<With("anyOf", Array(<<Ty("null"), Ty("array")>>))>>))>>)>>))>>),
          Simple, {X, Y}, 4),
     Case(Schema(<<With("enum", Array(<<
              Schema(<<Under(X, N(1)), Under(Y, Array(<<N(2)>>))>>), Array(<<N(1), N(2)>>),
              String(<<Ch.a>>), Array(<<Decimal(15, -1)>>)>>))>>),
          <<Uint(1), Uint(2), Double(1, 0), Double(15, -1), Str(<<Ch.a>>)>>, {X, Y}, 4)>>

ObjectCases ==
    <<Case(Schema(<<With("properties", Schema(<<Under(X, Ty("integer"))>>)),
                   With("required", Strings(<<X>>)), With("additionalProperties", False)>>),
          Simple, {X, Y}, 3),
     Case(Schema(<<With("properties", Schema(<<Under(X, Schema(<<With("default", String(<<Ch.a>>))>>))>>)),
                   With("required", Strings(<<X, Y>>)), With("additionalProperties", False),
                   With("maxProperties", N(2)), With("minProperties", N(1))>>),
          <<Uint(1), Str(<<Ch.a>>)>>, {X, Y, XY}, 3),
     Case(Schema(<<With("patternProperties", Schema(<<Under(X, Ty("integer"))>>)),
                   With("properties", Schema(<<Under(XY, Schema(<<With("minimum", N(1))>>))>>)),
                   With("additionalProperties", False)>>),
          <<Uint(0), Uint(1), Event("Null")>>, {X, Y, XY}, 3),
     Case(Schema(<<With("patternProperties", Schema(<<Under(X, Ty("integer")), Under(Y, Schema(<<With("maxItems", N(0))>>))>>)),
                   With("properties", Schema(<<Under(Y, Ty("array"))>>)),
                   With("additionalProperties", Ty("null"))>>),
          <<Uint(0), Event("Null")>>, {X, Y, XY, <<90>>}, 3),
     Case(Schema(<<With("dependencies", Schema(<<
              Under(X, Strings(<<Y>>)),
              Under(XY, Schema(<<With("properties", Schema(<<Under(X, Ty("null"))>>)),
                                 With("maxProperties", N(2))>>))>>))>>),
          <<Uint(0), Event("Null")>>, {X, Y, XY}, 4),
     Case(Schema(<<With("items", Schema(<<With("properties", Schema(<<Under(X, Ty("null"))>>)),
                                          With("required", Strings(<<Y>>))>>))>>),
          <<Event("Null"), Uint(0)>>, {X, Y}, 4),
     Case(Schema(<<With("items", Schema(<<With("patternProperties",
                                               Schema(<<Under(X, Ty("integer"))>>))>>))>>),
          <<Event("Null"), Uint(0)>>, {X, Y}, 4)>>

ArrayCases ==
    <<Case(Schema(<<With("items", Array(<<Ty("integer"), Ty("null")>>)), With("additionalItems", False)>>),
          Simple, {X}, 4),
     Case(Schema(<<With("items", Array(<<Ty("integer")>>)),
                   With("additionalItems", Schema(<<With("maxItems", N(1))>>)), With("minItems", N(1))>>),
          Simple, {X}, 4),
     Case(Schema(<<With("uniqueItems", True), With("items", Schema(<<With("uniqueItems", True)>>))>>),
          <<Uint(1), Double(1, 0), Event("Null")>>, {X}, 4)>>

Definitions == With("definitions", Schema(<<Under(X, Ref(ToDefinition(Y))), Under(Y, Ty("integer"))>>))
ReferenceCases ==
    <<Case(Schema(<<Definitions, With("items", Ref(ToDefinition(X)))>>), Simple, {X}, 3),
     Case(Schema(<<Definitions, With("$ref", String(ToDefinition(X)))>>), Simple, {X}, 2),
     Case(Schema(<<Definitions, With("allOf", Array(<<Ref(ToDefinition(XY)), Ref(<<Ch.a, Hash>>)>>)),
                   With("not", Ref(ToDefinition(X)))>>), Simple, {X}, 2),
     Case(Schema(<<With("type", Word("object")), With("properties", Schema(<<Under(X, Ref(ToRoot))>>)),
                   With("additionalProperties", False)>>), <<Event("Null")>>, {X, Y}, 4)>>

MCCases == NumberCases \o TextCases \o ChoiceCases \o ObjectCases \o ArrayCases
               \o ReferenceCases
-------------------------------------------------------------------------------
Text(codes) == {<<c>> : c \in codes}
MCPieces == Text({Slash, Tilde, Zero, Zero + 1, Ch.a, Hash, Space, Percent})
            \cup {<<Percent, 55, Ch.e>>,                               \* %7e
                  <<Percent, Ch.C, 51, Percent, Ch.A, Nine>>,          \* a two-byte character
                  <<Percent, Ch.C, 51>>}                               \* half of one
MCNames == Text({Ch.a, Zero, Zero + 1, Minus})
MCScalars == {Number("Int", 1), Array(<<>>), Object(<<>>)}

a == [units |-> <<Ch.a>>, means |-> {Ch.a}]
b == [units |-> <<Ch.b>>, means |-> {Ch.b}]
NotA == [units |-> <<LBracket, R!Caret, Ch.a, RBracket>>, means |-> {Ch.b, Ch.e}]
MCLeaves == {a, b, NotA}
MCQuantifiers == {<<0, 0>>, <<0, 1>>, <<1, 0>>, <<2, 2>>, <<1, 2>>, <<2, 0>>}
MCSubjects == UNION {[1..n -> {Ch.a, Ch.b}] : n \in 0..3}
===============================================================================

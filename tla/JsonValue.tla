------------------------------- MODULE JsonValue -------------------------------
(* GenericValue and GenericDocument (document.h) as values: a value is its kind
   and contents, an object a sequence of <<name, value>> members.  How values
   share and move memory is the business of JsonDom. *)
EXTENDS JsonReader

-------------------------------------------------------------------------------
(* Values and the types a number answers to. *)

\* What the constructor of each number type sets: every integer type that holds n.
NumberFlags(kind, n) ==
    CASE kind = "Int" -> {"Int", "Int64"} \cup (IF n >= 0 THEN {"Uint", "Uint64"} ELSE {})
      [] kind = "Uint" -> {"Uint", "Uint64", "Int64"}
                          \cup (IF n < 2 ^ (IntBits - 1) THEN {"Int"} ELSE {})
      [] kind = "Int64" ->
            {"Int64"} \cup (IF n >= 0 THEN {"Uint64"} ELSE {})
                      \cup (IF n \in 0..2 ^ IntBits - 1 THEN {"Uint"} ELSE {})
                      \cup (IF n \in -2 ^ (IntBits - 1)..2 ^ (IntBits - 1) - 1 THEN {"Int"} ELSE {})
      [] kind = "Uint64" ->
            {"Uint64"} \cup (IF n < 2 ^ (Int64Bits - 1) THEN {"Int64"} ELSE {})
                       \cup (IF n < 2 ^ IntBits THEN {"Uint"} ELSE {})
                       \cup (IF n < 2 ^ (IntBits - 1) THEN {"Int"} ELSE {})
      [] OTHER -> {"Double"}

Number(kind, n) == [k |-> "Number", f |-> NumberFlags(kind, n), v |-> n]
String(units) == [k |-> "String", v |-> units]
Array(elements) == [k |-> "Array", v |-> elements]
Object(members) == [k |-> "Object", v |-> members]
Null == [k |-> "Null", v |-> <<>>]

\* GetDouble: a double as it is, an integer as the double of that value.
GetDouble(x) == IF "Double" \in x.f THEN x.v ELSE Finite(x.v < 0, IF x.v < 0 THEN -x.v ELSE x.v, 0)

\* The 64 bits of an integer.
Bits(n) == n % 2 ^ Int64Bits

\* -0.0 equals 0.0, and NaN nothing.
SameDouble(a, b) == /\ "nan" \notin {a.class, b.class}
                    /\ \/ a = b
                       \/ a.class = "finite" /\ b.class = "finite" /\ a.sig = 0 /\ b.sig = 0

\* FindMember: the index of the first member of that name, one past the last
\* member if there is none.
FindMember(object, name) ==
    CHOOSE i \in 1..Len(object.v) + 1 :
        /\ i <= Len(object.v) => object.v[i][1].v = name
        /\ \A j \in 1..i - 1 : object.v[j][1].v # name

RECURSIVE Equal(_, _)
\* operator==
Equal(x, y) ==
    /\ x.k = y.k
    /\ IF x.k = "Object" THEN
              /\ Len(x.v) = Len(y.v)
              /\ \A i \in DOMAIN x.v :
                    LET j == FindMember(y, x.v[i][1].v) IN
                    j <= Len(y.v) /\ Equal(x.v[i][2], y.v[j][2])
       ELSE IF x.k = "Array" THEN Len(x.v) = Len(y.v) /\ \A i \in DOMAIN x.v : Equal(x.v[i], y.v[i])
       ELSE IF x.k = "String" THEN x.v = y.v
       ELSE IF x.k = "Number" /\ "Double" \in x.f \cup y.f THEN SameDouble(GetDouble(x), GetDouble(y))
       ELSE IF x.k = "Number" THEN Bits(x.v) = Bits(y.v)
       ELSE TRUE

-------------------------------------------------------------------------------
(* The document as the handler of a reader: a stack of values. *)

Pushed(stack, value) == Append(stack, value)

\* Pop n values and give them to the container below, which must be there.
Gathered(stack, n, Make(_)) ==
    LET rest == Len(stack) - n IN
    Append(SubSeq(stack, 1, rest - 1), Make(SubSeq(stack, rest + 1, Len(stack))))

Pairs(values) == [i \in 1..Len(values) \div 2 |-> <<values[2 * i - 1], values[2 * i]>>]

Handle(stack, event) ==
    CASE event.k \in {"String", "Key", "RawNumber"} -> Pushed(stack, String(event.v))
      [] event.k \in {"Int", "Uint", "Int64", "Uint64", "Double"} ->
            Pushed(stack, Number(event.k, event.v))
      [] event.k = "StartObject" -> Pushed(stack, Object(<<>>))
      [] event.k = "StartArray" -> Pushed(stack, Array(<<>>))
      [] event.k = "EndObject" -> Gathered(stack, 2 * event.v, LAMBDA vs : Object(Pairs(vs)))
      [] event.k = "EndArray" -> Gathered(stack, event.v, Array)
      [] OTHER -> Pushed(stack, [k |-> event.k, v |-> <<>>])

\* ParseStream and Populate: the value that was parsed replaces the document's
\* only after a parse without error, which leaves exactly one value.
Loaded(root, r) ==
    LET stack == FoldLeft(Handle, <<>>, r.ev) IN
    IF Failed(r) THEN root ELSE stack[Len(stack)]

-------------------------------------------------------------------------------
RECURSIVE Accept(_)
\* The events a value hands to a handler; a number goes out as the first of the
\* types it answers to.
Accept(x) ==
    LET type == CHOOSE i \in 1..5 :
                    /\ <<"Double", "Int", "Uint", "Int64", "Uint64">>[i] \in x.f
                    /\ \A j \in 1..i - 1 : <<"Double", "Int", "Uint", "Int64">>[j] \notin x.f
        member(m) == <<[k |-> "Key", v |-> m[1].v]>> \o Accept(m[2])
    IN  CASE x.k = "Object" ->
               <<Event("StartObject")>> \o FlattenSeq([i \in DOMAIN x.v |-> member(x.v[i])])
                   \o <<[k |-> "EndObject", v |-> Len(x.v)]>>
          [] x.k = "Array" ->
               <<Event("StartArray")>> \o FlattenSeq([i \in DOMAIN x.v |-> Accept(x.v[i])])
                   \o <<[k |-> "EndArray", v |-> Len(x.v)]>>
          [] x.k = "String" -> <<[k |-> "String", v |-> x.v]>>
          [] x.k = "Number" ->
               <<[k |-> <<"Double", "Int", "Uint", "Int64", "Uint64">>[type], v |-> x.v]>>
          [] OTHER -> <<Event(x.k)>>
===============================================================================

----------------------------- MODULE LexicalCast -----------------------------
(***************************************************************************)
(* LexicalCast (Config.h): the casts between containers and YAML, which    *)
(* call each other down to the scalars.  A type is a tuple: a scalar,      *)
(* <<"vector", T>> for vector and list, <<"set", T>> for set and           *)
(* unordered_set, <<"map", T>> for map and unordered_map.                  *)
(*                                                                         *)
(* YAML text is its tree: kind, the text of a scalar, the items of a       *)
(* sequence or the key-value pairs of a map.  Scalars are those whose text *)
(* YAML reads back as it was written; a map where a sequence is expected   *)
(* is not modelled.                                                        *)
(***************************************************************************)
EXTENDS SequencesExt

CONSTANTS
    Failed,         \* what a cast that throws yields
    CastScalar(_)   \* boost::lexical_cast from a string

Scalar(text) == [kind |-> "scalar", text |-> text, items |-> <<>>]
Sequence(items) == [kind |-> "sequence", text |-> "", items |-> items]
Map(items) == [kind |-> "map", text |-> "", items |-> items]
Pair(key, value) == [key |-> key, value |-> value]

\* A loop over the items, each cast on its own; size() of a scalar is 0.
RECURSIVE FromYaml(_, _)
FromYaml(T, node) ==
    IF T = <<"scalar">> THEN IF node.kind = "scalar" THEN CastScalar(node.text) ELSE Failed
    ELSE LET elements == [i \in DOMAIN node.items |->
                            FromYaml(T[2], IF T[1] = "map" THEN node.items[i].value
                                           ELSE node.items[i])]
             keys == {node.items[i].key : i \in DOMAIN node.items}
             \* insert() keeps the first of two
             first(k) == CHOOSE i \in DOMAIN node.items :
                            /\ node.items[i].key = k
                            /\ \A j \in 1 .. i - 1 : node.items[j].key # k
         IN  IF Failed \in Range(elements) THEN Failed
             ELSE CASE T[1] = "vector" -> elements
                    [] T[1] = "set" -> Range(elements)
                    [] T[1] = "map" -> [k \in keys |-> elements[first(k)]]

\* Mutant of ToYaml: what is nested in a map is left out.
ToYamlFlat(T, v) == Map(SetToSeq({Pair(k, Sequence(<<>>)) : k \in DOMAIN v}))

RECURSIVE ToYaml(_, _)
ToYaml(T, v) ==
    CASE T[1] = "scalar" -> Scalar(v)
      [] T[1] = "vector" -> Sequence([i \in DOMAIN v |-> ToYaml(T[2], v[i])])
      [] T[1] = "set" -> Sequence(SetToSeq({ToYaml(T[2], e) : e \in v}))
      [] T[1] = "map" -> Map(SetToSeq({Pair(k, ToYaml(T[2], v[k])) : k \in DOMAIN v}))

=============================================================================

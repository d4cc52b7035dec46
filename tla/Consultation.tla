---------------------------- MODULE Consultation ----------------------------
(***************************************************************************)
(* Consulting a resolved Recipe: what `configblender resolve` and          *)
(* `explain` print, from a local database or from the central service.     *)
(* Locally the command has the values of the engine itself; remotely they  *)
(* have been JSON: numbers are floats, times are strings, a Provenance is  *)
(* a map, and a value that JSON cannot express leaves the answer without a *)
(* body.  Every layer of a stored Recipe has a Git source; a member of     *)
(* LayerNames stands for the name and the source that one layer has.       *)
(***************************************************************************)
EXTENDS MergeEngine

CONSTANTS TypeOf,        \* TypeOf[x]: the Go type of a scalar or item
          Large,         \* integers that a float64 prints with an exponent
          Unencodable,   \* NaN, infinities, maps with keys that are no strings
          Nobody         \* no layer

ASSUME ValuesAssumption ==
  /\ TypeOf \in [Scalars \cup Items -> {"int", "float", "string", "time", "other"}]
  /\ Large \subseteq {x \in Scalars \cup Items : TypeOf[x] = "int"}
  /\ Unencodable \subseteq Scalars \cup Items
  /\ \A x \in Scalars \cup Items : TypeOf[x] = "time" => x \in Opaque
ASSUME NobodyAssumption == Nobody \notin LayerNames

(* A tree with each of its values converted.                               *)
As(t, Converted(_)) ==
  [p \in DOMAIN t |->
     CASE t[p].kind = "scalar" -> Scalar(Converted(t[p].value))
       [] t[p].kind = "list" ->
            List([i \in DOMAIN t[p].value |-> Converted(t[p].value[i])])
       [] OTHER -> t[p]]

Native(x) == [type |-> TypeOf[x], of |-> x]

(* Mutant of Received: numbers are decoded as json.Number, a string.       *)
ReceivedUseNumber(x) ==
  [type |-> IF TypeOf[x] \in {"int", "float", "time"} THEN "string" ELSE TypeOf[x],
   of   |-> x]

(* What encoding/json makes of a value that it decodes into an any.        *)
Received(x) ==
  [type |-> CASE TypeOf[x] = "int" -> "float"
              [] TypeOf[x] = "time" -> "string"
              [] OTHER -> TypeOf[x],
   of   |-> x]

(* yaml.Marshal: a float prints shortest, with an exponent from a million  *)
(* on; a string that would read as something else is quoted.               *)
Printed(v) ==
  [form |-> CASE v.type = "float" /\ v.of \in Large -> "exponent"
              [] v.type = "string" /\ TypeOf[v.of] # "string" -> "quoted"
              [] OTHER -> "plain",
   of   |-> v.of]

Yaml(t) == As(t, Printed)

(* An explain with each Provenance as a map, the keys of its source in the *)
(* order in which YAML prints them: those of a Go struct as it declares    *)
(* them, those of a decoded map sorted.                                    *)
LayerKey == <<"layer">>
SourceKey == <<"source">>
Declared == <<"repo", "path", "ref">>
Sorted == <<"path", "ref", "repo">>
Source(n, keys) == [kind |-> "source", value |-> n, keys |-> keys]

Provenances(e, keys) ==
  [p \in DOMAIN e \cup {Append(q, k) : q \in Leaves(e), k \in {LayerKey, SourceKey}} |->
     IF p \in DOMAIN e THEN Mapping
     ELSE IF Last(p) = LayerKey THEN Scalar([type |-> "string", of |-> e[Front(p)].value])
     ELSE Source(e[Front(p)].value, keys)]

(* What a resolve has in the process that prints it.                       *)
Encodable(t) == ~HasAnyOf(t, Unencodable)
LocalResult == [config |-> As(config, Native), explain |-> explain]
RemoteResult ==
  [config |-> As(config, Received), explain |-> Provenances(explain, Sorted)]
Results == {LocalResult} \cup IF Encodable(config) THEN {RemoteResult} ELSE {}

-----------------------------------------------------------------------------
(* explain --key: the argument is split at its dots, and each word is a    *)
(* key of the tree below.                                                  *)
LookupPath(t, words) ==
  LET p == [i \in DOMAIN words |-> <<words[i]>>]
  IN [q \in {q \in DOMAIN t : IsPrefix(p, q)} |-> t[q]]

(* yaml.Marshal writes a Provenance as a map, and a map as it is.          *)
ExplainYaml(e) ==
  IF \E p \in DOMAIN e : e[p].kind = "layer" THEN Provenances(e, Declared) ELSE e

(* What annotates a value: a layer and its source, or nothing.             *)
By(n) == [layer |-> n, source |-> n]

(* Mutant of AsProvenance: only the type that a local resolve has.         *)
LocalProvenance(e, p) ==
  By(IF p \in DOMAIN e /\ e[p].kind = "layer" THEN e[p].value ELSE Nobody)

(* The layer and source of a value, from either form of an explain: the    *)
(* source is put together by the names of its keys.                        *)
AsProvenance(e, p) ==
  LET layer == Append(p, LayerKey)
      source == Append(p, SourceKey)
  IN IF p \in DOMAIN e /\ e[p].kind = "layer" THEN By(e[p].value)
     ELSE IF layer \in DOMAIN e /\ e[layer].kind = "scalar"
     THEN [layer  |-> e[layer].value.of,
           source |-> IF source \in DOMAIN e /\ e[source].kind = "source"
                      THEN e[source].value ELSE Nobody]
     ELSE By(Nobody)

FormatAnnotated(r) ==
  [p \in Leaves(r.config) |-> [value |-> r.config[p], by |-> AsProvenance(r.explain, p)]]

-----------------------------------------------------------------------------
Resolved == outcome = "done"

(* Whichever way a Recipe is consulted (locally or remotely, annotated or  *)
(* by key), a value is attributed to the layer that set it last, and to    *)
(* the source of that layer.  A key with a dot in it cannot be asked for.  *)
Plain(p) == \A i \in DOMAIN p : Len(p[i]) = 1
LastSetter(p) == applied[Max(Setters(p))].name

EveryViewNamesLastSetter ==
  Resolved =>
    \A r \in Results : \A p \in Leaves(config) :
      /\ FormatAnnotated(r)[p].by = By(LastSetter(p))
      /\ Plain(p) =>
           LET answer == LookupPath(r.explain, Dotted(p))
           IN AsProvenance(answer, p) = By(LastSetter(p))

(* A config of portable values (no large integers, no times, nothing that  *)
(* JSON cannot express) is printed alike from both sides.  So is its       *)
(* explain, whole or by any key that the config has, but for the order of  *)
(* the keys of a source: the texts differ as soon as they name a layer.    *)
Portable(x) == x \notin Large \cup Unencodable /\ TypeOf[x] # "time"
AllPortable == ~HasAnyOf(config, {x \in Scalars \cup Items : ~Portable(x)})

Unordered(e) ==
  [p \in DOMAIN e |->
     IF e[p].kind = "source" THEN Source(e[p].value, Range(e[p].keys)) ELSE e[p]]

SameYamlIfPortable ==
  Resolved /\ AllPortable =>
    /\ RemoteResult \in Results
    /\ Yaml(LocalResult.config) = Yaml(RemoteResult.config)
    /\ \A p \in DOMAIN config \cup {<<>>} :
         LET here == ExplainYaml(LookupPath(LocalResult.explain, Dotted(p)))
             there == ExplainYaml(LookupPath(RemoteResult.explain, Dotted(p)))
         IN Plain(p) =>
              /\ Unordered(here) = Unordered(there)
              /\ here = there <=> ~ \E q \in Leaves(config) : IsPrefix(p, q)
=============================================================================

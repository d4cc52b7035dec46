----------------------------- MODULE MergeEngine -----------------------------
(***************************************************************************)
(* The resolution engine (resolve, recipe/types.go): the layers of a       *)
(* Recipe, in order, are merged into one config tree, and a second tree of *)
(* the same shape, the explain, says of each leaf which layer it is from.  *)
(*                                                                         *)
(* A tree is a function from paths to nodes: a path is a sequence of keys, *)
(* and every proper prefix of a path of the tree is a mapping in it.  What *)
(* mergeValue does by recursion over the keys is then a quantification     *)
(* over paths; module MergeValue has the recursion as it is in the code.   *)
(* A key is a sequence of words, those between its dots: the key "a.b" and *)
(* the key "b" below the key "a" have the same dotted path.                *)
(***************************************************************************)
EXTENDS Integers, SequencesExt

CONSTANTS Words,        \* what is between the dots of a key
          Keys,         \* keys: nonempty sequences of words
          Scalars,      \* scalar values, null included
          Items,        \* elements of lists
          Opaque,       \* values Starlark has no equivalent of (dates, ...)
          Text,         \* Text[x]: how the item x prints
          LayerNames,   \* what tells of a layer, its name and Git source:
                        \* layers of a Recipe need not differ in it
          Contents,     \* what a layer may yield: trees
          Policies,     \* merge policies: sequences of [path, strategy]
          MaxLayers     \* BOUND: layers of a Recipe

Strategies == {"replace", "union", "append"}

Mapping == [kind |-> "map", value |-> <<>>]
Scalar(x) == [kind |-> "scalar", value |-> x]
List(s) == [kind |-> "list", value |-> s]
Origin(n) == [kind |-> "layer", value |-> n]     \* a leaf of the explain

IsNode(v) ==
  \/ v = Mapping
  \/ v.kind = "scalar" /\ v.value \in Scalars
  \/ v.kind = "list" /\ v.value \in Seq(Items)
Origins == {Mapping} \cup {Origin(n) : n \in LayerNames}

(* The proper, nonempty prefixes of a path.                                *)
Above(p) == {SubSeq(p, 1, i) : i \in 1..(Len(p) - 1)}

IsTree(t) ==
  \A p \in DOMAIN t : \A q \in Above(p) : q \in DOMAIN t /\ t[q] = Mapping

Leaves(t) == {p \in DOMAIN t : t[p] # Mapping}

(* A tree has one of the given values, by itself or in a list.             *)
HasAnyOf(t, values) ==
  \E p \in DOMAIN t :
    \/ t[p].kind = "scalar" /\ t[p].value \in values
    \/ t[p].kind = "list" /\ Range(t[p].value) \cap values # {}

ASSUME KeysAssumption == Keys \subseteq Seq(Words) \ {<<>>}
ASSUME OpaqueAssumption == Opaque \subseteq Scalars \cup Items
ASSUME ContentsAssumption ==
  \A t \in Contents :
    /\ \A p \in DOMAIN t : p \in Seq(Keys) \ {<<>>} /\ IsNode(t[p])
    /\ IsTree(t)
ASSUME PoliciesAssumption ==
  \A r \in Policies : \A i \in DOMAIN r : r[i].strategy \in Strategies
ASSUME MaxLayersAssumption == MaxLayers \in Nat

VARIABLES config,    \* the tree merged so far
          explain,   \* its provenance
          policy,    \* the Recipe's merge policy
          outcome,   \* "running", "done" or "failed"
          applied    \* ghost: the layers merged so far, [name, patch]

vars == <<config, explain, policy, outcome, applied>>

EmptyTree == [p \in {} |-> Mapping]

-----------------------------------------------------------------------------
(* Lists are united item by item: an item is added unless one that prints  *)
(* the same has been.                                                      *)
Add(out, x) == IF \E i \in DOMAIN out : Text[out[i]] = Text[x] THEN out ELSE Append(out, x)

AddAll(s) ==
  LET out[n \in 0..Len(s)] == IF n = 0 THEN <<>> ELSE Add(out[n - 1], s[n])
  IN out[Len(s)]

UnionLists(a, b) == AddAll(a \o b)

Dotted(p) == FlattenSeq(p)

(* The strategy for a path: the first rule with that dotted path, or       *)
(* replace.                                                                *)
MergeStrategyFor(r, p) ==
  LET Matches == {i \in DOMAIN r : r[i].path = Dotted(p)} IN
  IF Matches = {} THEN "replace" ELSE r[Min(Matches)].strategy

AsList(t, p) == IF p \in DOMAIN t /\ t[p].kind = "list" THEN t[p].value ELSE <<>>

(* Mutant of Merged: the later layer's items come first.                   *)
LaterFirst(base, patch, r, p) ==
  IF patch[p].kind # "list" THEN patch[p]
  ELSE CASE MergeStrategyFor(r, p) = "union" ->
              List(UnionLists(patch[p].value, AsList(base, p)))
         [] MergeStrategyFor(r, p) = "append" ->
              List(patch[p].value \o AsList(base, p))
         [] OTHER -> patch[p]

(* What a path of the patch has after the merge: the patch's node, but for *)
(* lists that are combined with what is there.                             *)
Merged(base, patch, r, p) ==
  IF patch[p].kind # "list" THEN patch[p]
  ELSE CASE MergeStrategyFor(r, p) = "union" ->
              List(UnionLists(AsList(base, p), patch[p].value))
         [] MergeStrategyFor(r, p) = "append" ->
              List(AsList(base, p) \o patch[p].value)
         [] OTHER -> patch[p]

(* Mutants of Kept: what was below a value that is no mapping any more     *)
(* stays; a mapping is replaced by the patch's mapping, not merged with it. *)
KeptAll(base, patch) == DOMAIN base \ DOMAIN patch
KeptOutside(base, patch) ==
  {p \in DOMAIN base \ DOMAIN patch : Above(p) \cap DOMAIN patch = {}}

(* The paths that the patch leaves as they are: no key of it replaces them *)
(* or something they are below of.                                         *)
Kept(base, patch) ==
  {p \in DOMAIN base \ DOMAIN patch :
     \A q \in Above(p) \cap DOMAIN patch : patch[q] = Mapping}

MergeTree(base, patch, r) ==
  [p \in Kept(base, patch) \cup DOMAIN patch |->
     IF p \in DOMAIN patch THEN Merged(base, patch, r, p) ELSE base[p]]

(* Mutants of ExplainTree: a leaf keeps its first layer; the explain is    *)
(* not cleared of what the patch replaces.                                 *)
ExplainFirst(base, patch, n) ==
  [p \in Kept(base, patch) \cup DOMAIN patch |->
     IF p \notin DOMAIN patch THEN base[p]
     ELSE IF patch[p] = Mapping THEN Mapping
     ELSE IF p \in Leaves(base) THEN base[p] ELSE Origin(n)]
ExplainAll(base, patch, n) ==
  [p \in DOMAIN base \cup DOMAIN patch |->
     IF p \notin DOMAIN patch THEN base[p]
     ELSE IF patch[p] = Mapping THEN Mapping ELSE Origin(n)]

(* The same for the explain: a leaf of the patch is from this layer.       *)
ExplainTree(base, patch, n) ==
  [p \in Kept(base, patch) \cup DOMAIN patch |->
     IF p \notin DOMAIN patch THEN base[p]
     ELSE IF patch[p] = Mapping THEN Mapping ELSE Origin(n)]

-----------------------------------------------------------------------------
(* Resolve: a Recipe is any sequence of layers, so each step takes any     *)
(* layer that may come next.                                               *)
Init ==
  /\ config = EmptyTree
  /\ explain = EmptyTree
  /\ policy \in Policies
  /\ outcome = "running"
  /\ applied = <<>>

Apply(n, patch) ==
  /\ config' = MergeTree(config, patch, policy)
  /\ explain' = ExplainTree(explain, patch, n)
  /\ applied' = Append(applied, [name |-> n, patch |-> patch])
  /\ UNCHANGED <<policy, outcome>>

Running == outcome = "running" /\ Len(applied) < MaxLayers

Fail ==
  /\ outcome' = "failed"
  /\ UNCHANGED <<config, explain, policy, applied>>

(* A static layer is a mapping (or nothing), or does not parse.            *)
StaticLayer(n, patch) == Running /\ Apply(n, patch)

StaticInvalid == Running /\ Fail

(* A dynamic layer sees the config so far, which must be expressible in    *)
(* Starlark, and yields a dict, which always is; or its script fails, runs *)
(* too long, or yields something else.                                     *)
HasOpaque(t) == HasAnyOf(t, Opaque)

DynamicLayer(n, patch) ==
  /\ Running
  /\ ~HasOpaque(config)
  /\ ~HasOpaque(patch)
  /\ Apply(n, patch)

DynamicFails == Running /\ Fail

UnknownType == Running /\ Fail

Finish ==
  /\ outcome = "running"
  /\ outcome' = "done"
  /\ UNCHANGED <<config, explain, policy, applied>>

Next ==
  \/ \E n \in LayerNames, t \in Contents : StaticLayer(n, t) \/ DynamicLayer(n, t)
  \/ StaticInvalid
  \/ DynamicFails
  \/ UnknownType
  \/ Finish

Spec == Init /\ [][Next]_vars

-----------------------------------------------------------------------------
(* Both trees are trees, of the nodes that YAML and Starlark can yield.    *)
TypeOK ==
  /\ \A p \in DOMAIN config : p \in Seq(Keys) \ {<<>>} /\ IsNode(config[p])
  /\ \A p \in DOMAIN explain : explain[p] \in Origins
  /\ IsTree(config)
  /\ IsTree(explain)
  /\ policy \in Policies
  /\ outcome \in {"running", "done", "failed"}
  /\ Len(applied) <= MaxLayers
  /\ \A i \in DOMAIN applied :
       applied[i].name \in LayerNames /\ applied[i].patch \in Contents

(* The explain mirrors the config: the same paths, the same mappings, and  *)
(* one origin for each leaf, though the two are merged side by side and a  *)
(* layer may turn mappings into leaves and back.                           *)
ExplainMirrors ==
  /\ DOMAIN explain = DOMAIN config
  /\ Leaves(explain) = Leaves(config)

(* The layers that a path of the result may come from: they have the path, *)
(* and no later layer has a leaf above it.                                 *)
Setters(p) ==
  {i \in DOMAIN applied :
     /\ p \in DOMAIN applied[i].patch
     /\ \A j \in (i + 1)..Len(applied) :
          \A q \in Above(p) \cap DOMAIN applied[j].patch :
            applied[j].patch[q] = Mapping}

(* The explain tells the truth: the layer it names for a leaf is the last  *)
(* one that set it, whatever other layers did to the path and above it.    *)
ExplainNamesLastSetter ==
  \A p \in Leaves(config) :
    /\ Setters(p) # {}
    /\ explain[p] = Origin(applied[Max(Setters(p))].name)

(* The config is what the layers say, taken together instead of one by     *)
(* one: a path is there if a layer has it and no later one removed it; its *)
(* value is that of the last layer; and a list that is appended to, or     *)
(* united, is made of the lists of all the layers since the path last was  *)
(* something else, in the order of the layers.                             *)
ListSetters(p) ==
  {i \in Setters(p) :
     \A j \in Setters(p) : j >= i => applied[j].patch[p].kind = "list"}

Gathered(p) ==
  FlattenSeq([i \in DOMAIN applied |->
                IF i \in ListSetters(p) THEN applied[i].patch[p].value ELSE <<>>])

Combined(p) ==
  LET last == applied[Max(Setters(p))].patch[p]
      how == MergeStrategyFor(policy, p)
  IN IF last.kind = "list" /\ how = "append" THEN List(Gathered(p))
     ELSE IF last.kind = "list" /\ how = "union" THEN List(AddAll(Gathered(p)))
     ELSE last

ConfigIsCombination ==
  /\ DOMAIN config =
       {p \in UNION {DOMAIN applied[i].patch : i \in DOMAIN applied} : Setters(p) # {}}
  /\ \A p \in DOMAIN config : config[p] = Combined(p)
=============================================================================

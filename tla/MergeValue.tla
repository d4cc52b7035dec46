----------------------------- MODULE MergeValue -----------------------------
(***************************************************************************)
(* mergeValue (resolve/merge.go) as it is written: a recursion over the    *)
(* keys of nested maps that returns the merged value and its provenance    *)
(* together.  It is compared with the merge of MergeEngine, which works on *)
(* all the paths of a tree at once.                                        *)
(*                                                                         *)
(* Within one merge the path of a call determines its other arguments:     *)
(* they are what the three trees have at that path.  So the recursion is a *)
(* function of the path, and a value is what a tree has from a path on.    *)
(***************************************************************************)
EXTENDS MergeEngine

(* A document is finite.                                                   *)
ASSUME FiniteAssumption == \A t \in Contents : IsFiniteSet(DOMAIN t)

(* A tree with the mapping that holds it, at the empty path.               *)
Rooted(t) == [p \in DOMAIN t \cup {<<>>} |-> IF p = <<>> THEN Mapping ELSE t[p]]

(* The value of a tree at a path: nothing (nil) if it does not have it.    *)
At(t, p) == [q \in {q \in DOMAIN t : IsPrefix(p, q)} |-> t[q]]

(* The entries of the map at a path: none if there is no map.              *)
Entries(t, p) == {q \in DOMAIN t : Len(q) = Len(p) + 1 /\ IsPrefix(p, q)}

MapAt(p, out) ==
  [q \in {p} \cup UNION {DOMAIN out[c] : c \in DOMAIN out} |->
     IF q = p THEN Mapping ELSE out[SubSeq(q, 1, Len(p) + 1)][q]]

LeafAt(p, v) == [q \in {p} |-> v]

mergeValue(base, baseExplain, patch, prov, r) ==
  LET merged[p \in DOMAIN patch] ==
        CASE patch[p] = Mapping ->
               LET keys == Entries(base, p) \cup Entries(patch, p)
                   out == [c \in keys |-> IF c \in DOMAIN patch THEN merged[c]
                                          ELSE <<At(base, c), At(baseExplain, c)>>]
               IN <<MapAt(p, [c \in keys |-> out[c][1]]), MapAt(p, [c \in keys |-> out[c][2]])>>
          [] patch[p].kind = "list" /\ MergeStrategyFor(r, p) = "union" ->
               <<LeafAt(p, List(UnionLists(AsList(base, p), patch[p].value))), LeafAt(p, prov)>>
          [] patch[p].kind = "list" /\ MergeStrategyFor(r, p) = "append" ->
               <<LeafAt(p, List(AsList(base, p) \o patch[p].value)), LeafAt(p, prov)>>
          [] OTHER -> <<LeafAt(p, patch[p]), LeafAt(p, prov)>>
  IN merged[<<>>]

-----------------------------------------------------------------------------
(* From every config and explain that the engine can reach, the code's     *)
(* recursion yields for every next layer what the merge of trees yields:   *)
(* what MergeEngine shows of the trees holds of mergeValue.                *)
MergeAgrees ==
  \A t \in Contents, n \in LayerNames :
    mergeValue(Rooted(config), Rooted(explain), Rooted(t), Origin(n), policy)
      = <<Rooted(MergeTree(config, t, policy)), Rooted(ExplainTree(explain, t, n))>>
=============================================================================

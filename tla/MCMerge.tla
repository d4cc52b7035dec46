------------------------------- MODULE MCMerge -------------------------------
(* The engine on Recipes of up to MaxLayers layers.  The contents bring    *)
(* every kind of node over every other, one and two levels deep, lists     *)
(* with duplicates and with items that only print the same, the empty      *)
(* mapping, a key with a dot, and values that JSON changes or refuses.     *)
EXTENDS MergeValue, Consultation

CONSTANTS text, date, nan, one, million, oneString, base, team

KeyA == <<"a">>
KeyB == <<"b">>
KeyAB == <<"a", "b">>

MCKeys == {KeyA, KeyB, KeyAB}
MCTypeOf ==
  [x \in Scalars \cup Items |->
     CASE x \in {one, million} -> "int"
       [] x = nan -> "float"
       [] x = date -> "time"
       [] OTHER -> "string"]

MCText ==
  [x \in Items |->
     CASE x = million -> "1000000"
       [] x = nan -> "NaN"
       [] x = date -> "2024-05-01"
       [] OTHER -> "1"]

Under(node) ==
  [p \in {<<KeyA>>, <<KeyA, KeyB>>} |-> IF p = <<KeyA>> THEN Mapping ELSE node]

Deep ==
  [p \in {<<KeyA>>, <<KeyA, KeyB>>, <<KeyA, KeyB, KeyA>>} |->
     IF p = <<KeyA, KeyB, KeyA>> THEN Scalar(nan) ELSE Mapping]

MCContents ==
  {EmptyTree,
   [p \in {<<KeyA>>} |-> Mapping],
   [p \in {<<KeyA>>, <<KeyB>>} |-> Scalar(text)],
   [p \in {<<KeyAB>>} |-> List(<<million>>)],
   [p \in {<<KeyB>>} |-> List(<<nan, date>>)],
   Under(List(<<one, million>>)),
   Under(List(<<oneString, one>>)),
   Under(Scalar(date)),
   Deep}

Rule(strategy) == [path |-> <<"a", "b">>, strategy |-> strategy]

MCPolicies ==
  {<<>>, <<Rule("append")>>, <<Rule("union"), Rule("append")>>}
=============================================================================

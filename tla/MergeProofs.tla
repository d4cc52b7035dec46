----------------------------- MODULE MergeProofs -----------------------------
(***************************************************************************)
(* What TLAPS proves of the resolution engine, for any layers, contents,   *)
(* policies and number of layers: the config and the explain stay trees of *)
(* one shape, the config is what the layers say together, the explain      *)
(* names for each leaf the last layer that set it, and the recursion of    *)
(* mergeValue computes both.                                               *)
(***************************************************************************)
EXTENDS MergeValue, InductionBySets

USE KeysAssumption, ContentsAssumption, MaxLayersAssumption

Layers == [name : LayerNames, patch : Contents]
Paths == Seq(Keys) \ {<<>>}

(* Both are trees over paths.                                              *)
Trees ==
  /\ DOMAIN config \subseteq Paths
  /\ IsTree(config)
  /\ IsTree(explain)

(* The origin of a leaf, with the layer it is named after at hand.         *)
LastSetterNamed ==
  \A p \in Leaves(config) : \E i \in Setters(p) :
    /\ \A j \in Setters(p) : j <= i
    /\ explain[p] = Origin(applied[i].name)

MergeInv ==
  /\ applied \in Seq(Layers)
  /\ Trees
  /\ ExplainMirrors
  /\ LastSetterNamed

-----------------------------------------------------------------------------
(* Lists: the union, item by item.                                         *)
LEMMA AddKeepsLists ==
  ASSUME NEW S, NEW s \in Seq(S), NEW x \in S
  PROVE  Add(s, x) \in Seq(S)
BY AppendProperties DEF Add

LEMMA AddAllIterates ==
  ASSUME NEW S, NEW s \in Seq(S)
  PROVE  \E f : /\ Iterates(f, Len(s), Seq(S), <<>>,
                            [n \in 1..Len(s) |-> [v \in Seq(S) |-> Add(v, s[n])]])
               /\ AddAll(s) = f[Len(s)]
<1> DEFINE N == Len(s)
           T == Seq(S)
           G == [n \in 1..N |-> [v \in T |-> Add(v, s[n])]]
           Step(g) == [n \in 0..N |-> IF n = 0 THEN <<>> ELSE Add(g[n - 1], s[n])]
           out == CHOOSE g : g = Step(g)
<1>1. N \in Nat /\ \A n \in 1..N : s[n] \in S
  BY LenProperties, ElementOfSeq
<1>2. \A n \in 1..N : \A v \in T : Add(v, s[n]) \in T
  BY <1>1, AddKeepsLists
<1>3. <<>> \in T
  BY EmptySeq
<1>4. AddAll(s) = out[N]
  BY DEF AddAll
<1> HIDE DEF N, T
<1>5. G \in [1..N -> [T -> T]]
  BY <1>2
<1>6. PICK f : Iterates(f, N, T, <<>>, G)
  <2> HIDE DEF G
  <2> QED BY <1>1, <1>3, <1>5, IteratesExist
<1>7. f = Step(f)
  <2>1. f \in [0..N -> T] /\ f[0] = <<>> /\ \A n \in 1..N : f[n] = G[n][f[n - 1]]
    BY <1>6 DEF Iterates
  <2>2. \A n \in 1..N : f[n - 1] \in T
    BY <1>1, <2>1
  <2>3. \A n \in 1..N : f[n] = Add(f[n - 1], s[n])
    BY <2>1, <2>2
  <2>4. \A n \in 0..N : n = 0 \/ n \in 1..N
    BY <1>1
  <2>5. \A n \in 0..N : f[n] = IF n = 0 THEN <<>> ELSE Add(f[n - 1], s[n])
    BY <2>1, <2>3, <2>4
  <2> QED BY <2>1, <2>5
<1>8. out = Step(out)
  BY <1>7
<1> HIDE DEF out
<1>9. out \in [0..N -> T] /\ Iterates(out, N, T, <<>>, G)
  <2>1. \A n \in 0..N : out[n] = IF n = 0 THEN <<>> ELSE Add(out[n - 1], s[n])
    BY <1>8
  <2>2. out[0] = <<>>
    BY <1>1, <2>1
  <2> DEFINE P == {n \in Nat : n <= N => out[n] \in T}
  <2>3. 0 \in P
    BY <1>3, <2>2
  <2>4. ASSUME NEW n \in Nat, n \in P PROVE n + 1 \in P
    <3> SUFFICES ASSUME n + 1 <= N PROVE out[n + 1] \in T
      OBVIOUS
    <3>1. n + 1 \in 0..N /\ n + 1 \in 1..N /\ n + 1 # 0 /\ (n + 1) - 1 = n
      BY <1>1
    <3>2. out[n + 1] = Add(out[n], s[n + 1])
      BY <2>1, <3>1
    <3>3. out[n] \in T
      BY <1>1, <2>4
    <3> QED BY <1>2, <3>1, <3>2, <3>3
  <2>5. \A n \in Nat : n \in P
    <3> HIDE DEF P
    <3> QED BY <2>3, <2>4, SetInduction
  <2>6. out \in [0..N -> T]
    <3>1. \A n \in 0..N : out[n] \in T
      BY <1>1, <2>5
    <3>2. out = [n \in 0..N |-> out[n]]
      BY <1>8
    <3> QED BY <3>1, <3>2
  <2>7. \A n \in 1..N : n \in 0..N /\ n # 0 /\ out[n - 1] \in T
    BY <1>1, <2>6
  <2>8. \A n \in 1..N : out[n] = G[n][out[n - 1]]
    BY <2>1, <2>7
  <2> QED BY <2>2, <2>6, <2>8 DEF Iterates
<1> QED BY <1>4, <1>9 DEF N, T

(* The union of a list that goes on by one item.                           *)
LEMMA AddAllAppend ==
  ASSUME NEW S, NEW s \in Seq(S), NEW x \in S
  PROVE  /\ AddAll(s) \in Seq(S)
         /\ AddAll(<<>>) = <<>>
         /\ AddAll(Append(s, x)) = Add(AddAll(s), x)
<1> DEFINE Steps(t) == [n \in 1..Len(t) |-> [v \in Seq(S) |-> Add(v, t[n])]]
           N == Len(s)
           t == Append(s, x)
<1>1. N \in Nat
  BY LenProperties
<1>2. /\ t \in Seq(S) /\ Len(t) = N + 1 /\ t[N + 1] = x
      /\ \A n \in 1..N : t[n] = s[n]
  BY AppendProperties
<1>3. <<>> \in Seq(S) /\ Len(<<>>) = 0
  BY EmptySeq
<1> HIDE DEF t
<1>4. PICK f : Iterates(f, N, Seq(S), <<>>, Steps(s)) /\ AddAll(s) = f[N]
  BY AddAllIterates
<1>5. PICK g : Iterates(g, N + 1, Seq(S), <<>>, Steps(t)) /\ AddAll(t) = g[N + 1]
  BY <1>2, AddAllIterates
<1>6. PICK e : Iterates(e, 0, Seq(S), <<>>, Steps(<<>>)) /\ AddAll(<<>>) = e[0]
  BY <1>3, AddAllIterates
<1>7. \A n \in 1..N : Steps(s)[n] = Steps(t)[n]
  <2>1. \A n \in 1..N : n \in 1..(N + 1)
    BY <1>1
  <2> QED BY <1>2, <2>1
<1>8. N + 1 \in 1..(N + 1) /\ (N + 1) - 1 = N /\ N \in 0..N
  BY <1>1
<1>9. Steps(t)[N + 1] = [v \in Seq(S) |-> Add(v, x)]
  BY <1>2, <1>8
<1> DEFINE G == Steps(s)
           H == Steps(t)
<1>10. /\ Iterates(f, N, Seq(S), <<>>, G) /\ Iterates(g, N + 1, Seq(S), <<>>, H)
       /\ \A n \in 1..N : G[n] = H[n]
       /\ H[N + 1] = [v \in Seq(S) |-> Add(v, x)]
  BY <1>4, <1>5, <1>7, <1>9
<1> HIDE DEF G, H, N
<1>11. f[N] = g[N]
  BY <1>1, <1>10, IteratesAgree
<1>12. f[N] \in Seq(S) /\ g[N + 1] = H[N + 1][g[N]]
  BY <1>8, <1>10 DEF Iterates
<1>13. g[N + 1] = Add(f[N], x)
  BY <1>10, <1>11, <1>12
<1>14. AddAll(<<>>) = <<>>
  BY <1>6 DEF Iterates
<1> QED BY <1>4, <1>5, <1>12, <1>13, <1>14 DEF t

LEMMA AddAllEmpty == AddAll(<<>>) = <<>>
<1>1. <<>> \in Seq({0}) /\ 0 \in {0}
  BY EmptySeq
<1> QED BY <1>1, AddAllAppend

(* What unionLists promises: every item of the list is there by an item    *)
(* that prints the same, and there are no two of those.                    *)
Distinct(s) == \A i, j \in DOMAIN s : Text[s[i]] = Text[s[j]] => i = j
Represents(t, s) == \A i \in DOMAIN s : \E j \in DOMAIN t : Text[t[j]] = Text[s[i]]

LEMMA AddDistinct ==
  ASSUME NEW S, NEW s \in Seq(S), NEW t \in Seq(S), NEW x \in S,
         Distinct(t), Represents(t, s)
  PROVE  Distinct(Add(t, x)) /\ Represents(Add(t, x), Append(s, x))
<1> DEFINE u == Append(t, x)
           v == Append(s, x)
           m == Len(t)
           n == Len(s)
<1>1. /\ m \in Nat /\ DOMAIN t = 1..m /\ n \in Nat /\ DOMAIN s = 1..n
  BY LenProperties
<1>2. /\ DOMAIN u = 1..(m + 1) /\ u[m + 1] = x /\ \A i \in 1..m : u[i] = t[i]
      /\ DOMAIN v = 1..(n + 1) /\ v[n + 1] = x /\ \A i \in 1..n : v[i] = s[i]
  BY AppendProperties, LenProperties
<1>3. /\ \A i \in 1..(m + 1) : i \in 1..m \/ i = m + 1
      /\ \A i \in 1..(n + 1) : i \in 1..n \/ i = n + 1
      /\ m + 1 \in 1..(m + 1) /\ \A i \in 1..m : i \in 1..(m + 1)
  BY <1>1
<1> HIDE DEF u, v, m, n
<1>4. CASE \E i \in DOMAIN t : Text[t[i]] = Text[x]
  <2>1. Add(t, x) = t
    BY <1>4 DEF Add
  <2>2. Represents(t, v)
    BY <1>1, <1>2, <1>3, <1>4 DEF Represents
  <2> QED BY <2>1, <2>2 DEF v
<1>5. CASE ~ \E i \in DOMAIN t : Text[t[i]] = Text[x]
  <2>1. Add(t, x) = u
    BY <1>5 DEF Add, u
  <2>2. Distinct(u)
    BY <1>1, <1>2, <1>3, <1>5 DEF Distinct
  <2>3. Represents(u, v)
    BY <1>1, <1>2, <1>3 DEF Represents
  <2> QED BY <2>1, <2>2, <2>3 DEF v
<1> QED BY <1>4, <1>5

THEOREM UnionIsDistinct ==
  ASSUME NEW S, NEW s \in Seq(S)
  PROVE  AddAll(s) \in Seq(S) /\ Distinct(AddAll(s)) /\ Represents(AddAll(s), s)
<1> DEFINE P == {t \in Seq(S) : /\ AddAll(t) \in Seq(S) /\ Distinct(AddAll(t))
                                /\ Represents(AddAll(t), t)}
<1>1. <<>> \in P
  <2>1. AddAll(<<>>) = <<>>
    BY AddAllEmpty
  <2>2. <<>> \in Seq(S) /\ DOMAIN <<>> = {}
    BY EmptySeq
  <2> QED BY <2>1, <2>2 DEF Distinct, Represents
<1>2. ASSUME NEW t \in Seq(S), NEW x \in S, t \in P PROVE Append(t, x) \in P
  <2>1. Append(t, x) \in Seq(S) /\ AddAll(Append(t, x)) = Add(AddAll(t), x)
    BY AppendProperties, AddAllAppend
  <2>2. Add(AddAll(t), x) \in Seq(S)
    BY <1>2, AddKeepsLists
  <2>3. Distinct(Add(AddAll(t), x)) /\ Represents(Add(AddAll(t), x), Append(t, x))
    BY <1>2, AddDistinct
  <2> QED BY <2>1, <2>2, <2>3
<1>3. \A t \in Seq(S) : t \in P
  <2> HIDE DEF P
  <2> QED BY <1>1, <1>2, SequenceInduction
<1> QED BY <1>3

LEMMA UnionOfDistinct ==
  ASSUME NEW S, NEW s \in Seq(S), Distinct(s)
  PROVE  AddAll(s) = s
<1> DEFINE P == {t \in Seq(S) : Distinct(t) => AddAll(t) = t}
<1>1. <<>> \in P
  <2>1. AddAll(<<>>) = <<>>
    BY AddAllEmpty
  <2> QED BY <2>1, EmptySeq
<1>2. ASSUME NEW t \in Seq(S), NEW x \in S, t \in P PROVE Append(t, x) \in P
  <2> DEFINE u == Append(t, x)
             m == Len(t)
  <2>1. /\ m \in Nat /\ DOMAIN t = 1..m /\ u \in Seq(S) /\ DOMAIN u = 1..(m + 1)
        /\ u[m + 1] = x /\ \A i \in 1..m : u[i] = t[i]
    BY AppendProperties, LenProperties
  <2>2. /\ \A i \in 1..m : i \in 1..(m + 1) /\ i # m + 1
        /\ m + 1 \in 1..(m + 1)
    BY <2>1
  <2>3. AddAll(u) = Add(AddAll(t), x)
    BY AddAllAppend
  <2> HIDE DEF u, m
  <2> SUFFICES ASSUME Distinct(u) PROVE AddAll(u) = u
    BY <2>1 DEF u
  <2>4. Distinct(t) /\ ~ \E i \in DOMAIN t : Text[t[i]] = Text[x]
    BY <2>1, <2>2 DEF Distinct
  <2> QED BY <1>2, <2>3, <2>4 DEF Add, u
<1>3. \A t \in Seq(S) : t \in P
  <2> HIDE DEF P
  <2> QED BY <1>1, <1>2, SequenceInduction
<1> QED BY <1>3

(* Uniting what is united with more is uniting all of it at once.          *)
LEMMA UnionInSteps ==
  ASSUME NEW S, NEW a \in Seq(S), NEW b \in Seq(S)
  PROVE  AddAll(AddAll(a) \o b) = AddAll(a \o b)
<1> DEFINE P == {t \in Seq(S) : AddAll(AddAll(a) \o t) = AddAll(a \o t)}
<1>0. AddAll(a) \in Seq(S)
  BY UnionIsDistinct
<1>1. <<>> \in P
  <2>1. AddAll(AddAll(a)) = AddAll(a)
    BY <1>0, UnionIsDistinct, UnionOfDistinct
  <2>2. AddAll(a) \o <<>> = AddAll(a) /\ a \o <<>> = a /\ <<>> \in Seq(S)
    BY <1>0, ConcatEmptySeq, EmptySeq
  <2> QED BY <2>1, <2>2
<1>2. ASSUME NEW t \in Seq(S), NEW x \in S, t \in P PROVE Append(t, x) \in P
  <2>1. /\ AddAll(a) \o t \in Seq(S) /\ a \o t \in Seq(S)
        /\ AddAll(a) \o Append(t, x) = Append(AddAll(a) \o t, x)
        /\ a \o Append(t, x) = Append(a \o t, x)
        /\ Append(t, x) \in Seq(S)
    <3>1. <<x>> \in Seq(S)
      OBVIOUS
    <3>2. ASSUME NEW c \in Seq(S)
          PROVE  c \o t \in Seq(S) /\ c \o Append(t, x) = Append(c \o t, x)
      <4>1. Append(t, x) = t \o <<x>> /\ c \o t \in Seq(S)
        BY AppendIsConcat, ConcatProperties
      <4>2. Append(c \o t, x) = (c \o t) \o <<x>>
        BY <4>1, AppendIsConcat
      <4> QED BY <3>1, <4>1, <4>2, ConcatAssociative
    <3> QED BY <1>0, <3>2, AppendProperties
  <2>2. ASSUME NEW u \in Seq(S) PROVE AddAll(Append(u, x)) = Add(AddAll(u), x)
    BY AddAllAppend
  <2>3. /\ AddAll(Append(AddAll(a) \o t, x)) = Add(AddAll(AddAll(a) \o t), x)
        /\ AddAll(Append(a \o t, x)) = Add(AddAll(a \o t), x)
    BY <2>1, <2>2
  <2> QED BY <1>2, <2>1, <2>3
<1>3. \A t \in Seq(S) : t \in P
  <2> HIDE DEF P
  <2> QED BY <1>1, <1>2, SequenceInduction
<1> QED BY <1>3

-----------------------------------------------------------------------------
(* A prefix of a prefix of a path is a prefix of it.                       *)
LEMMA AboveIsTransitive ==
  ASSUME NEW p \in Paths, NEW q \in Above(p)
  PROVE  q \in Seq(Keys) /\ Above(q) \subseteq Above(p)
<1>1. p \in Seq(Keys) /\ Len(p) \in Nat
  BY DEF Paths
<1>2. PICK i \in 1..(Len(p) - 1) : q = SubSeq(p, 1, i)
  BY DEF Above
<1>3. q \in Seq(Keys) /\ Len(q) = i /\ \A m \in 1..i : q[m] = p[m]
  BY <1>1, <1>2
<1>4. ASSUME NEW j \in 1..(i - 1)
      PROVE  SubSeq(q, 1, j) = SubSeq(p, 1, j)
  BY <1>1, <1>3, <1>4
<1>5. 1..(i - 1) \subseteq 1..(Len(p) - 1)
  BY <1>1
<1> QED BY <1>3, <1>4, <1>5 DEF Above

(* What the merge has at a path of the patch is a mapping if and only if   *)
(* the patch has one there; a leaf's origin is never one.                  *)
LEMMA MappingsOfThePatch ==
  ASSUME NEW base, NEW patch, NEW r, NEW p
  PROVE  /\ Merged(base, patch, r, p) = Mapping <=> patch[p] = Mapping
         /\ \A n : Origin(n) # Mapping
<1>1. \A s : List(s) # Mapping
  BY DEF List, Mapping
<1>2. Mapping.kind # "list"
  BY DEF Mapping
<1>3. \A n : Origin(n) # Mapping
  BY DEF Origin, Mapping
<1>4. CASE patch[p].kind # "list"
  BY <1>3, <1>4 DEF Merged
<1>5. CASE patch[p].kind = "list"
  <2>1. patch[p] # Mapping
    BY <1>2, <1>5
  <2>2. Merged(base, patch, r, p) \in
          {List(UnionLists(AsList(base, p), patch[p].value)),
           List(AsList(base, p) \o patch[p].value), patch[p]}
    BY <1>5 DEF Merged
  <2> QED BY <1>1, <1>3, <2>1, <2>2
<1> QED BY <1>4, <1>5

(* The merge of a patch into a tree is a tree, with the paths that are     *)
(* kept and those of the patch.                                            *)
LEMMA MergedTreeIsTree ==
  ASSUME NEW base, NEW patch \in Contents, NEW r,
         DOMAIN base \subseteq Paths, IsTree(base)
  PROVE  /\ IsTree(MergeTree(base, patch, r))
         /\ DOMAIN MergeTree(base, patch, r) \subseteq Paths
<1> DEFINE t == MergeTree(base, patch, r)
<1>1. DOMAIN t = Kept(base, patch) \cup DOMAIN patch
  BY DEF MergeTree
<1>2. DOMAIN patch \subseteq Paths /\ IsTree(patch)
  BY DEF Paths
<1>3. DOMAIN t \subseteq Paths
  BY <1>1, <1>2 DEF Kept
<1>4. ASSUME NEW p \in DOMAIN t, NEW q \in Above(p)
      PROVE  q \in DOMAIN t /\ t[q] = Mapping
  <2>1. CASE q \in DOMAIN patch /\ patch[q] = Mapping
    BY <2>1, <1>1, MappingsOfThePatch DEF MergeTree
  <2>2. CASE p \in DOMAIN patch
    BY <2>1, <2>2, <1>2 DEF IsTree
  <2>3. CASE p \in Kept(base, patch) /\ q \notin DOMAIN patch
    <3>1. q \in DOMAIN base /\ base[q] = Mapping
      BY <2>3 DEF Kept, IsTree
    <3>2. Above(q) \subseteq Above(p)
      BY <2>3, AboveIsTransitive DEF Kept
    <3>3. q \in Kept(base, patch)
      BY <2>3, <3>1, <3>2 DEF Kept
    <3> QED BY <2>3, <3>1, <3>3 DEF MergeTree
  <2>4. CASE p \in Kept(base, patch) /\ q \in DOMAIN patch
    BY <2>1, <2>4 DEF Kept
  <2> QED BY <1>1, <2>2, <2>3, <2>4
<1> QED BY <1>3, <1>4 DEF IsTree

(* The same for the explain.                                               *)
LEMMA ExplainTreeIsTree ==
  ASSUME NEW base, NEW patch \in Contents, NEW n,
         DOMAIN base \subseteq Paths, IsTree(base)
  PROVE  IsTree(ExplainTree(base, patch, n))
<1> DEFINE t == ExplainTree(base, patch, n)
<1>1. DOMAIN t = Kept(base, patch) \cup DOMAIN patch
  BY DEF ExplainTree
<1>2. DOMAIN patch \subseteq Paths /\ IsTree(patch)
  BY DEF Paths
<1>4. ASSUME NEW p \in DOMAIN t, NEW q \in Above(p)
      PROVE  q \in DOMAIN t /\ t[q] = Mapping
  <2>1. CASE q \in DOMAIN patch /\ patch[q] = Mapping
    BY <2>1, <1>1 DEF ExplainTree
  <2>2. CASE p \in DOMAIN patch
    BY <2>1, <2>2, <1>2 DEF IsTree
  <2>3. CASE p \in Kept(base, patch) /\ q \notin DOMAIN patch
    <3>1. q \in DOMAIN base /\ base[q] = Mapping
      BY <2>3 DEF Kept, IsTree
    <3>2. Above(q) \subseteq Above(p)
      BY <2>3, AboveIsTransitive DEF Kept
    <3>3. q \in Kept(base, patch)
      BY <2>3, <3>1, <3>2 DEF Kept
    <3> QED BY <2>3, <3>1, <3>3 DEF ExplainTree
  <2>4. CASE p \in Kept(base, patch) /\ q \in DOMAIN patch
    BY <2>1, <2>4 DEF Kept
  <2> QED BY <1>1, <2>2, <2>3, <2>4
<1> QED BY <1>4 DEF IsTree

(* Merging one patch into two trees of one shape gives two of one shape.   *)
LEMMA ShapesStayEqual ==
  ASSUME NEW c, NEW e, NEW patch, NEW r, NEW n,
         DOMAIN e = DOMAIN c, Leaves(e) = Leaves(c)
  PROVE  LET cc == MergeTree(c, patch, r)
             ee == ExplainTree(e, patch, n)
         IN DOMAIN ee = DOMAIN cc /\ Leaves(ee) = Leaves(cc)
<1> DEFINE cc == MergeTree(c, patch, r)
           ee == ExplainTree(e, patch, n)
           D == Kept(c, patch) \cup DOMAIN patch
<1>1. Kept(e, patch) = Kept(c, patch)
  BY DEF Kept
<1>2. DOMAIN cc = D /\ DOMAIN ee = D
  BY <1>1 DEF MergeTree, ExplainTree
<1>3. ASSUME NEW p \in D
      PROVE  ee[p] = Mapping <=> cc[p] = Mapping
  <2>1. CASE p \in DOMAIN patch
    <3>1. cc[p] = Merged(c, patch, r, p)
      BY <2>1 DEF MergeTree
    <3>2. ee[p] = IF patch[p] = Mapping THEN Mapping ELSE Origin(n)
      BY <2>1 DEF ExplainTree
    <3> QED BY <3>1, <3>2, MappingsOfThePatch
  <2>2. CASE p \notin DOMAIN patch
    <3>1. cc[p] = c[p] /\ ee[p] = e[p] /\ p \in DOMAIN c
      BY <2>2, <1>1 DEF MergeTree, ExplainTree, Kept
    <3> QED BY <3>1 DEF Leaves
  <2> QED BY <2>1, <2>2
<1> HIDE DEF cc, ee, D
<1>4. DOMAIN ee = DOMAIN cc /\ Leaves(ee) = Leaves(cc)
  BY <1>2, <1>3 DEF Leaves
<1> QED BY <1>4 DEF cc, ee

-----------------------------------------------------------------------------
LEMMA InitInv == Init => MergeInv
<1> SUFFICES ASSUME Init PROVE MergeInv
  OBVIOUS
<1>1. DOMAIN config = {} /\ DOMAIN explain = {} /\ applied = <<>>
  BY DEF Init, EmptyTree
<1> QED BY <1>1 DEF MergeInv, Trees, IsTree, ExplainMirrors, LastSetterNamed, Leaves

(* A patch leaves a path in place if what it has above is mappings.        *)
Clear(p, patch) == \A q \in Above(p) \cap DOMAIN patch : patch[q] = Mapping

(* The layers that set a path, after one more is merged: those before, if  *)
(* it leaves the path in place, and the new one if it has the path.        *)
LEMMA SettersAfterLayer ==
  ASSUME applied \in Seq(Layers), NEW n \in LayerNames, NEW patch \in Contents,
         Apply(n, patch), NEW p
  PROVE  LET last == Len(applied) + 1 IN
         /\ last \in Nat /\ DOMAIN applied = 1..Len(applied) /\ DOMAIN applied' = 1..last
         /\ \A j \in DOMAIN applied' : j <= last
         /\ applied'[last] = [name |-> n, patch |-> patch]
         /\ \A i \in DOMAIN applied : i \in Nat /\ applied'[i] = applied[i]
         /\ p \in DOMAIN patch => Setters(p)' = Setters(p) \cup {last}
         /\ p \in Kept(config, patch) => Setters(p)' = Setters(p)
         /\ p \notin DOMAIN patch => Setters(p)' = {i \in Setters(p) : Clear(p, patch)}
<1> DEFINE last == Len(applied) + 1
           New == [name |-> n, patch |-> patch]
<1>1. Len(applied) \in Nat /\ DOMAIN applied = 1..Len(applied) /\ New \in Layers
  BY DEF Layers
<1>2. /\ Len(applied') = last /\ DOMAIN applied' = 1..last /\ applied'[last] = New
      /\ \A i \in DOMAIN applied : applied'[i] = applied[i]
  BY <1>1 DEF Apply
<1>3. Setters(p)' = {i \in Setters(p) : Clear(p, patch)}
                      \cup (IF p \in DOMAIN patch THEN {last} ELSE {})
  <2>1. Setters(p) = {i \in DOMAIN applied :
                        /\ p \in DOMAIN applied[i].patch
                        /\ \A j \in (i + 1)..Len(applied) : Clear(p, applied[j].patch)}
    BY DEF Setters, Clear
  <2>2. Setters(p)' = {i \in DOMAIN applied' :
                        /\ p \in DOMAIN applied'[i].patch
                        /\ \A j \in (i + 1)..Len(applied') : Clear(p, applied'[j].patch)}
    BY DEF Setters, Clear
  <2>3. applied'[last].patch = patch
    BY <1>2
  <2> HIDE DEF New
  <2>4. ASSUME NEW i \in DOMAIN applied
        PROVE  (\A j \in (i + 1)..last : Clear(p, applied'[j].patch))
                 <=> /\ \A j \in (i + 1)..Len(applied) : Clear(p, applied[j].patch)
                     /\ Clear(p, patch)
    <3>1. \A j \in (i + 1)..Len(applied) : applied'[j] = applied[j]
      BY <1>1, <1>2
    <3>2. \A j : j \in (i + 1)..last <=> j \in (i + 1)..Len(applied) \/ j = last
      <4> DEFINE m == Len(applied)
      <4>1. m \in Nat /\ i \in 1..m
        BY <1>1
      <4> HIDE DEF m
      <4>2. \A j : j \in (i + 1)..(m + 1) <=> j \in (i + 1)..m \/ j = m + 1
        BY <4>1
      <4> QED BY <4>2 DEF m
    <3> HIDE DEF last
    <3> QED BY <2>3, <3>1, <3>2
  <2>5. \A i : i \in DOMAIN applied' <=> i \in DOMAIN applied \/ i = last
    BY <1>1, <1>2
  <2>6. (last + 1)..last = {} /\ last \notin DOMAIN applied
    BY <1>1
  <2> HIDE DEF last
  <2> QED BY <1>2, <2>1, <2>2, <2>3, <2>4, <2>5, <2>6
<1>4. p \in DOMAIN patch => Clear(p, patch)
  BY DEF IsTree, Clear
<1>5. p \in Kept(config, patch) => p \notin DOMAIN patch /\ Clear(p, patch)
  BY DEF Kept, Clear
<1>6. \A i \in 1..last : i <= last
  BY <1>1
<1>7. p \in DOMAIN patch => Setters(p)' = Setters(p) \cup {last}
  BY <1>3, <1>4
<1>8. p \in Kept(config, patch) => Setters(p)' = Setters(p)
  BY <1>3, <1>5
<1>9. p \notin DOMAIN patch => Setters(p)' = {i \in Setters(p) : Clear(p, patch)}
  BY <1>3
<1> QED BY <1>1, <1>2, <1>6, <1>7, <1>8, <1>9

(* A layer that is merged keeps the invariant.                             *)
LEMMA ApplyInv ==
  ASSUME MergeInv, NEW n \in LayerNames, NEW patch \in Contents, Apply(n, patch)
  PROVE  MergeInv'
<1> DEFINE last == Len(applied) + 1
<1>1. applied' \in Seq(Layers)
  BY DEF Apply, MergeInv, Layers
<1>2. /\ config' = MergeTree(config, patch, policy)
      /\ explain' = ExplainTree(explain, patch, n)
  BY DEF Apply
<1>3. Trees'
  BY <1>2, MergedTreeIsTree, ExplainTreeIsTree DEF MergeInv, Trees, ExplainMirrors, IsTree
<1>4. ExplainMirrors'
  BY <1>2, ShapesStayEqual DEF MergeInv, ExplainMirrors, Leaves
<1>5. LastSetterNamed'
  <2> SUFFICES ASSUME NEW p \in Leaves(config')
               PROVE  \E i \in Setters(p)' :
                        /\ \A j \in Setters(p)' : j <= i
                        /\ explain'[p] = Origin(applied'[i].name)
    BY DEF LastSetterNamed, Leaves
  <2> DEFINE S == Setters(p)
  <2>1. p \in Kept(config, patch) \cup DOMAIN patch /\ config'[p] # Mapping
    BY <1>2 DEF Leaves, MergeTree
  <2>2. Setters(p)' \subseteq DOMAIN applied'
    BY DEF Setters
  <2>3. applied \in Seq(Layers)
    BY DEF MergeInv
  <2>4. CASE p \in DOMAIN patch
    <3>1. last \in Setters(p)' /\ \A j \in Setters(p)' : j <= last
      BY <2>2, <2>3, <2>4, SettersAfterLayer
    <3>2. applied'[last].name = n
      <4>1. applied'[last] = [name |-> n, patch |-> patch]
        BY <2>3, SettersAfterLayer
      <4> QED BY <4>1
    <3>3. config'[p] = Merged(config, patch, policy, p)
      BY <1>2, <2>4 DEF MergeTree
    <3>4. patch[p] # Mapping
      BY <2>1, <3>3, MappingsOfThePatch
    <3>5. explain'[p] = Origin(n)
      BY <1>2, <2>4, <3>4 DEF ExplainTree
    <3> QED BY <3>1, <3>2, <3>5
  <2>5. CASE p \notin DOMAIN patch
    <3>1. p \in Kept(config, patch) /\ p \in DOMAIN config
      BY <2>1, <2>5 DEF Kept
    <3>2. config'[p] = config[p] /\ explain'[p] = explain[p]
      <4>1. Kept(explain, patch) = Kept(config, patch)
        BY DEF MergeInv, ExplainMirrors, Kept
      <4> QED BY <1>2, <2>5, <3>1, <4>1 DEF MergeTree, ExplainTree
    <3>3. p \in Leaves(config)
      BY <2>1, <3>1, <3>2 DEF Leaves
    <3>4. PICK i \in Setters(p) : /\ \A j \in Setters(p) : j <= i
                                  /\ explain[p] = Origin(applied[i].name)
      BY <3>3 DEF MergeInv, LastSetterNamed
    <3>5. Setters(p)' = Setters(p) /\ applied'[i] = applied[i]
      <4>1. i \in DOMAIN applied
        BY DEF Setters
      <4>2. Setters(p)' = Setters(p)
        BY <2>3, <3>1, SettersAfterLayer
      <4>3. \A k \in DOMAIN applied : applied'[k] = applied[k]
        BY <2>3, SettersAfterLayer
      <4> QED BY <4>1, <4>2, <4>3
    <3> QED BY <3>2, <3>4, <3>5
  <2> QED BY <2>4, <2>5
<1> QED BY <1>1, <1>3, <1>4, <1>5 DEF MergeInv

LEMMA NextKeepsInv == MergeInv /\ [Next]_vars => MergeInv'
<1> SUFFICES ASSUME MergeInv, [Next]_vars PROVE MergeInv'
  OBVIOUS
<1>1. CASE \E n \in LayerNames, t \in Contents : StaticLayer(n, t) \/ DynamicLayer(n, t)
  BY <1>1, ApplyInv DEF StaticLayer, DynamicLayer
<1>2. CASE UNCHANGED <<config, explain, applied>>
  BY <1>2 DEF MergeInv, Trees, IsTree, ExplainMirrors, Leaves, LastSetterNamed, Setters
<1> QED BY <1>1, <1>2 DEF Next, StaticInvalid, DynamicFails, UnknownType, Fail, Finish, vars

LEMMA MergeInvHolds == Spec => []MergeInv
BY InitInv, NextKeepsInv, PTL DEF Spec

-----------------------------------------------------------------------------
(* Config and explain are trees over nonempty paths: every path has its    *)
(* prefixes above it, and they are mappings.                               *)
THEOREM TreesStayTrees == Spec => []Trees
<1>1. MergeInv => Trees
  BY DEF MergeInv
<1> QED BY <1>1, MergeInvHolds, PTL

(* The explain has the paths of the config, and an origin for each of its  *)
(* leaves, though the two trees are merged side by side.                   *)
THEOREM ExplainIsMirror == Spec => []ExplainMirrors
<1>1. MergeInv => ExplainMirrors
  BY DEF MergeInv
<1> QED BY <1>1, MergeInvHolds, PTL

(* The layer that the explain names for a leaf is the last that set it.    *)
THEOREM ExplainIsTrue == Spec => []ExplainNamesLastSetter
<1>1. MergeInv => ExplainNamesLastSetter
  <2> SUFFICES ASSUME MergeInv, NEW p \in Leaves(config)
               PROVE  /\ Setters(p) # {}
                      /\ explain[p] = Origin(applied[Max(Setters(p))].name)
    BY DEF ExplainNamesLastSetter
  <2>1. PICK i \in Setters(p) : /\ \A j \in Setters(p) : j <= i
                                /\ explain[p] = Origin(applied[i].name)
    BY DEF MergeInv, LastSetterNamed
  <2>2. Setters(p) \subseteq Nat
    BY DEF Setters, MergeInv
  <2>3. Max(Setters(p)) = i
    <3> DEFINE S == Setters(p)
    <3>1. \A j \in S : i >= j /\ i \in Int /\ j \in Int
      BY <2>1, <2>2
    <3>2. Max(S) \in S /\ \A j \in S : Max(S) >= j
      BY <2>1, <3>1 DEF Max
    <3> QED BY <2>1, <2>2, <3>1, <3>2
  <2> QED BY <2>1, <2>3
<1> QED BY <1>1, MergeInvHolds, PTL

-----------------------------------------------------------------------------
(* Types.                                                                  *)
LEMMA ListsAreTyped ==
  ASSUME TypeOK, NEW p
  PROVE  AsList(config, p) \in Seq(Items)
<1>1. CASE p \in DOMAIN config /\ config[p].kind = "list"
  <2>1. IsNode(config[p]) /\ Mapping.kind = "map"
    BY <1>1 DEF TypeOK, Mapping
  <2>2. config[p].value \in Seq(Items)
    BY <1>1, <2>1 DEF IsNode
  <2> QED BY <1>1, <2>2 DEF AsList
<1>2. CASE ~(p \in DOMAIN config /\ config[p].kind = "list")
  BY <1>2, EmptySeq DEF AsList
<1> QED BY <1>1, <1>2

(* A list of a patch.                                                      *)
LEMMA PatchLists ==
  ASSUME NEW patch \in Contents, NEW p \in DOMAIN patch
  PROVE  /\ IsNode(patch[p])
         /\ patch[p].kind = "list" => patch[p].value \in Seq(Items)
<1>1. IsNode(patch[p]) /\ Mapping.kind = "map"
  BY DEF Mapping
<1> QED BY <1>1 DEF IsNode

LEMMA MergedIsNode ==
  ASSUME TypeOK, NEW patch \in Contents, NEW p \in DOMAIN patch
  PROVE  IsNode(Merged(config, patch, policy, p))
<1>1. CASE patch[p].kind # "list"
  BY <1>1, PatchLists DEF Merged
<1>2. CASE patch[p].kind = "list"
  <2> DEFINE a == AsList(config, p)
             b == patch[p].value
  <2>1. a \in Seq(Items) /\ b \in Seq(Items)
    BY <1>2, ListsAreTyped, PatchLists
  <2>2. a \o b \in Seq(Items)
    BY <2>1, ConcatProperties
  <2>3. UnionLists(a, b) \in Seq(Items)
    BY <2>2, UnionIsDistinct DEF UnionLists
  <2>4. \A s \in Seq(Items) : IsNode(List(s))
    BY DEF IsNode, List
  <2>5. IsNode(patch[p])
    BY PatchLists
  <2>6. Merged(config, patch, policy, p)
          \in {List(UnionLists(a, b)), List(a \o b), patch[p]}
    BY <1>2 DEF Merged
  <2> HIDE DEF a, b
  <2> QED BY <2>2, <2>3, <2>4, <2>5, <2>6
<1> QED BY <1>1, <1>2

LEMMA ApplyKeepsTypes ==
  ASSUME TypeOK, MergeInv, MergeInv', NEW n \in LayerNames, NEW patch \in Contents,
         Running, Apply(n, patch)
  PROVE  TypeOK'
<1>1. \A p \in DOMAIN config' : p \in Paths /\ IsNode(config'[p])
  <2>1. \A p \in DOMAIN config' : p \in Paths
    BY DEF MergeInv, Trees
  <2>2. ASSUME NEW p \in DOMAIN config' PROVE IsNode(config'[p])
    <3>1. config' = MergeTree(config, patch, policy)
      BY DEF Apply
    <3>2. CASE p \in DOMAIN patch
      BY <3>1, <3>2, MergedIsNode DEF MergeTree
    <3>3. CASE p \notin DOMAIN patch
      BY <3>1, <3>3 DEF MergeTree, Kept, TypeOK
    <3> QED BY <3>2, <3>3
  <2> QED BY <2>1, <2>2
<1>2. \A p \in DOMAIN explain' : explain'[p] \in Origins
  BY DEF Apply, ExplainTree, Kept, TypeOK, Origins
<1>3. IsTree(config') /\ IsTree(explain')
  BY DEF MergeInv, Trees, IsTree
<1>4. policy' \in Policies /\ outcome' \in {"running", "done", "failed"}
  BY DEF Apply, TypeOK
<1>5. /\ Len(applied') <= MaxLayers
      /\ \A i \in DOMAIN applied' :
           applied'[i].name \in LayerNames /\ applied'[i].patch \in Contents
  <2>1. Len(applied') = Len(applied) + 1 /\ Len(applied) \in Nat
    BY DEF Apply, MergeInv
  <2>2. \A i \in DOMAIN applied' : applied'[i] \in Layers
    BY DEF MergeInv
  <2> QED BY <2>1, <2>2 DEF Running, Layers
<1> QED BY <1>1, <1>2, <1>3, <1>4, <1>5 DEF TypeOK, Paths, IsNode, IsTree

(* Config and explain are trees of the nodes that YAML and Starlark can    *)
(* yield, and no more layers are merged than there are.                    *)
THEOREM MergeTypes == Spec => []TypeOK
<1>1. Init => TypeOK
  <2> SUFFICES ASSUME Init PROVE TypeOK
    OBVIOUS
  <2>1. DOMAIN config = {} /\ DOMAIN explain = {} /\ applied = <<>>
    BY DEF Init, EmptyTree
  <2>2. Len(applied) <= MaxLayers
    BY <2>1
  <2> QED BY <2>1, <2>2 DEF Init, TypeOK, IsTree
<1>2. TypeOK /\ MergeInv /\ MergeInv' /\ [Next]_vars => TypeOK'
  <2> SUFFICES ASSUME TypeOK, MergeInv, MergeInv', [Next]_vars PROVE TypeOK'
    OBVIOUS
  <2>1. CASE \E n \in LayerNames, t \in Contents : StaticLayer(n, t) \/ DynamicLayer(n, t)
    BY <2>1, ApplyKeepsTypes DEF StaticLayer, DynamicLayer
  <2>2. CASE Fail \/ Finish
    BY <2>2 DEF TypeOK, IsNode, IsTree, Fail, Finish
  <2>3. CASE UNCHANGED vars
    BY <2>3 DEF TypeOK, IsNode, IsTree, vars
  <2> QED BY <2>1, <2>2, <2>3 DEF Next, StaticInvalid, DynamicFails, UnknownType
<1> QED BY <1>1, <1>2, MergeInvHolds, PTL DEF Spec

-----------------------------------------------------------------------------
(* The config is what the layers say, taken together.                      *)
LastNode(p) == applied[Max(Setters(p))].patch[p]

(* The lists that are combined at a path, layer by layer.                  *)
ListsOf(p) == [i \in DOMAIN applied |->
                 IF i \in ListSetters(p) THEN applied[i].patch[p].value ELSE <<>>]

LEMMA LastOfSetters ==
  ASSUME applied \in Seq(Layers), NEW p, Setters(p) # {}
  PROVE  /\ Max(Setters(p)) \in Setters(p)
         /\ \A j \in Setters(p) : j <= Max(Setters(p))
<1>1. Len(applied) \in Nat /\ Setters(p) \subseteq 1..Len(applied)
  BY DEF Setters
<1> QED BY <1>1, GreatestElement

LEMMA ListsAreLists ==
  ASSUME applied \in Seq(Layers), NEW p
  PROVE  /\ ListsOf(p) \in Seq(Seq(Items))
         /\ Len(ListsOf(p)) = Len(applied)
         /\ Gathered(p) \in Seq(Items)
<1>1. \A i \in ListSetters(p) : applied[i].patch[p].value \in Seq(Items)
  <2> SUFFICES ASSUME NEW i \in ListSetters(p)
               PROVE  applied[i].patch[p].value \in Seq(Items)
    OBVIOUS
  <2>1. i \in DOMAIN applied /\ p \in DOMAIN applied[i].patch /\ i \in Setters(p)
    BY DEF ListSetters, Setters
  <2>2. i \in Nat /\ applied[i].patch \in Contents
    <3>1. Len(applied) \in Nat /\ DOMAIN applied = 1..Len(applied)
      OBVIOUS
    <3>2. applied[i] \in Layers
      BY <2>1, <3>1, ElementOfSeq
    <3> QED BY <2>1, <3>1, <3>2 DEF Layers
  <2>3. applied[i].patch[p].kind = "list"
    BY <2>1, <2>2 DEF ListSetters
  <2> QED BY <2>1, <2>2, <2>3, PatchLists
<1>2. Len(applied) \in Nat /\ DOMAIN applied = 1..Len(applied) /\ <<>> \in Seq(Items)
  BY EmptySeq
<1> DEFINE T == Seq(Items)
<1>3. ListsOf(p) \in [1..Len(applied) -> T]
  BY <1>1, <1>2 DEF ListsOf
<1>4. ListsOf(p) \in Seq(T) /\ Len(ListsOf(p)) = Len(applied)
  <2> HIDE DEF T
  <2> QED BY <1>2, <1>3, SeqDef, LenProperties
<1>5. Gathered(p) = FlattenSeq(ListsOf(p))
  BY DEF Gathered, ListsOf
<1>6. FlattenSeq(ListsOf(p)) \in Seq(Items)
  BY <1>2, <1>4, FlattenAppend
<1> QED BY <1>4, <1>5, <1>6

(* Without lists, nothing is gathered.                                     *)
LEMMA NothingIsGathered ==
  ASSUME applied \in Seq(Layers), NEW p, ListSetters(p) = {}
  PROVE  Gathered(p) = <<>>
<1> DEFINE E == {<<>>}
           P == {s \in Seq(E) : FlattenSeq(s) = <<>>}
<1>1. E \subseteq Seq(Items) /\ <<>> \in Seq(Items)
  BY EmptySeq
<1>2. Seq(E) \subseteq Seq(Seq(Items))
  <2> HIDE DEF E
  <2> QED BY <1>1, SeqDef
<1>3. <<>> \in P
  BY EmptySeq DEF FlattenSeq
<1>4. ASSUME NEW s \in Seq(E), NEW x \in E, s \in P PROVE Append(s, x) \in P
  <2>1. FlattenSeq(Append(s, x)) = FlattenSeq(s) \o x
    <3>1. s \in Seq(Seq(Items)) /\ x \in Seq(Items)
      BY <1>1, <1>2
    <3> QED BY <3>1, FlattenAppend
  <2>2. FlattenSeq(s) \o x = <<>>
    BY <1>1, <1>4, ConcatEmptySeq
  <2> QED BY <2>1, <2>2, AppendProperties
<1>5. \A s \in Seq(E) : s \in P
  <2> HIDE DEF P, E
  <2> QED BY <1>3, <1>4, SequenceInduction
<1>6. ListsOf(p) \in Seq(E)
  <2>1. Len(applied) \in Nat /\ DOMAIN applied = 1..Len(applied)
    OBVIOUS
  <2>2. ListsOf(p) \in [1..Len(applied) -> E]
    BY <2>1 DEF ListsOf
  <2> HIDE DEF E
  <2> QED BY <2>1, <2>2, SeqDef
<1> QED BY <1>5, <1>6 DEF Gathered, ListsOf

(* A list that the config has where lists are appended is what the layers  *)
(* gave, one after another; where they are united, their union.            *)
LEMMA ListOfConfig ==
  ASSUME applied \in Seq(Layers), ConfigIsCombination, NEW p
  PROVE  LET how == MergeStrategyFor(policy, p) IN
         /\ how = "append" => AsList(config, p) = Gathered(p)
         /\ how = "union" => AsList(config, p) = AddAll(Gathered(p))
<1> DEFINE how == MergeStrategyFor(policy, p)
<1>1. \A s : List(s).kind = "list" /\ List(s).value = s
  BY DEF List
<1>2. CASE p \in DOMAIN config /\ config[p].kind = "list"
  <2>1. AsList(config, p) = config[p].value /\ config[p] = Combined(p)
    BY <1>2 DEF AsList, ConfigIsCombination
  <2>2. LastNode(p).kind # "list" => Combined(p) = LastNode(p)
    BY DEF Combined, LastNode
  <2>3. LastNode(p).kind = "list"
    BY <1>2, <2>1, <2>2
  <2>4. how = "append" => Combined(p) = List(Gathered(p))
    BY <2>3 DEF Combined, LastNode
  <2>5. how = "union" => Combined(p) = List(AddAll(Gathered(p)))
    BY <2>3 DEF Combined, LastNode
  <2> QED BY <1>1, <2>1, <2>4, <2>5
<1>3. CASE ~(p \in DOMAIN config /\ config[p].kind = "list")
  <2> SUFFICES ASSUME how \in {"append", "union"}
               PROVE  AsList(config, p) = Gathered(p) /\ AddAll(Gathered(p)) = Gathered(p)
    OBVIOUS
  <2>1. AsList(config, p) = <<>>
    BY <1>3 DEF AsList
  <2>2. ListSetters(p) = {}
    <3>1. CASE Setters(p) = {}
      BY <3>1 DEF ListSetters
    <3>2. CASE Setters(p) # {}
      <4>1. p \in DOMAIN config
        <5>1. PICK i \in Setters(p) : TRUE
          BY <3>2
        <5>2. i \in DOMAIN applied /\ p \in DOMAIN applied[i].patch
          BY DEF Setters
        <5> QED BY <3>2, <5>2 DEF ConfigIsCombination
      <4>2. config[p] = Combined(p) /\ config[p].kind # "list"
        BY <1>3, <4>1 DEF ConfigIsCombination
      <4>3. LastNode(p).kind = "list" =>
              Combined(p) \in {List(Gathered(p)), List(AddAll(Gathered(p)))}
        BY DEF Combined, LastNode
      <4>4. LastNode(p).kind # "list"
        BY <1>1, <4>2, <4>3
      <4>5. \A i \in Setters(p) : Max(Setters(p)) >= i
        <5>1. \A i \in Setters(p) : i \in Nat
          BY DEF Setters
        <5> QED BY <3>2, <5>1, LastOfSetters
      <4>6. Max(Setters(p)) \in Setters(p)
        BY <3>2, LastOfSetters
      <4> QED BY <4>4, <4>5, <4>6 DEF ListSetters, LastNode
    <3> QED BY <3>1, <3>2
  <2> QED BY <2>1, <2>2, NothingIsGathered, AddAllEmpty
<1> QED BY <1>2, <1>3

(* A layer adds its list, if it has one, to what is gathered at a path.    *)
LEMMA GatheredAfterLayer ==
  ASSUME applied \in Seq(Layers), NEW n \in LayerNames, NEW patch \in Contents,
         Apply(n, patch), NEW p
  PROVE  /\ p \in DOMAIN patch /\ patch[p].kind = "list" =>
              Gathered(p)' = Gathered(p) \o patch[p].value
         /\ p \in Kept(config, patch) => Gathered(p)' = Gathered(p)
<1> DEFINE m == Len(applied)
           last == m + 1
           T == Seq(Items)
           ss == ListsOf(p)
<1>1. /\ m \in Nat /\ DOMAIN applied = 1..m /\ DOMAIN applied' = 1..last
      /\ applied'[last] = [name |-> n, patch |-> patch]
      /\ \A i \in 1..m : applied'[i] = applied[i]
  <2> DEFINE New == [name |-> n, patch |-> patch]
  <2>1. m \in Nat /\ DOMAIN applied = 1..m /\ New \in Layers
    BY DEF Layers
  <2>2. applied' = Append(applied, New)
    BY DEF Apply
  <2> HIDE DEF New
  <2>3. /\ DOMAIN applied' = 1..last /\ applied'[last] = New
        /\ \A i \in 1..m : applied'[i] = applied[i]
    BY <2>1, <2>2
  <2> QED BY <2>1, <2>3 DEF New
<1>2. ss \in Seq(T) /\ Len(ss) = m /\ Gathered(p) \in T
  BY ListsAreLists
<1>3. \A i \in 1..m : i \in 1..last /\ i # last
  BY <1>1
<1>4. \A i \in 1..last : i \in 1..m \/ i = last
  BY <1>1
<1>5. ASSUME NEW e \in T, \A i \in 1..m : i \in ListSetters(p)' <=> i \in ListSetters(p),
             e = IF last \in ListSetters(p)' THEN patch[p].value ELSE <<>>
      PROVE  Gathered(p)' = Gathered(p) \o e
  <2> DEFINE tt == [i \in 1..last |->
                      IF i \in ListSetters(p)' THEN applied'[i].patch[p].value ELSE <<>>]
             uu == Append(ss, e)
  <2>1. Gathered(p)' = FlattenSeq(tt)
    BY <1>1 DEF Gathered
  <2>2. /\ uu \in Seq(T) /\ Len(uu) = last /\ uu[last] = e
        /\ \A i \in 1..m : uu[i] = ss[i]
    <3> HIDE DEF ss, T, m
    <3>1. /\ uu \in Seq(T) /\ Len(uu) = Len(ss) + 1 /\ uu[Len(ss) + 1] = e
          /\ \A i \in 1..Len(ss) : uu[i] = ss[i]
      BY <1>2, <1>5, AppendProperties
    <3> QED BY <1>2, <3>1 DEF last
  <2>3. uu = [i \in 1..last |-> uu[i]]
    <3> HIDE DEF uu, T
    <3> QED BY <2>2
  <2>4. \A i \in 1..m :
          ss[i] = IF i \in ListSetters(p) THEN applied[i].patch[p].value ELSE <<>>
    BY <1>1 DEF ListsOf
  <2>5. \A i \in 1..m : tt[i] = uu[i]
    <3> HIDE DEF uu, ss, m, last
    <3> QED BY <1>1, <1>3, <1>5, <2>2, <2>4
  <2>6. tt[last] = uu[last]
    <3>1. last \in 1..last /\ applied'[last].patch = patch
      BY <1>1
    <3> HIDE DEF uu, ss, m, last
    <3> QED BY <1>5, <2>2, <3>1
  <2>7. \A i \in 1..last : tt[i] = uu[i]
    <3> HIDE DEF uu, tt
    <3> QED BY <1>4, <2>5, <2>6
  <2>8. tt = uu
    <3>1. tt = [i \in 1..last |-> tt[i]]
      OBVIOUS
    <3> HIDE DEF uu, tt
    <3> QED BY <2>3, <2>7, <3>1
  <2>9. FlattenSeq(uu) = FlattenSeq(ss) \o e
    <3> HIDE DEF ss
    <3>1. ss \in Seq(Seq(Items)) /\ e \in Seq(Items)
      BY <1>2, <1>5
    <3> QED BY <3>1, FlattenAppend
  <2> QED BY <2>1, <2>8, <2>9 DEF Gathered, ListsOf
<1>6. ASSUME p \in DOMAIN patch, patch[p].kind = "list"
      PROVE  Gathered(p)' = Gathered(p) \o patch[p].value
  <2>1. Setters(p)' = Setters(p) \cup {last} /\ Setters(p) \subseteq 1..m
    BY <1>1, <1>6, SettersAfterLayer DEF Setters
  <2>2. last \in ListSetters(p)'
    <3>1. \A j \in Setters(p)' : j >= last => j = last
      BY <1>1, <1>3, <2>1
    <3>2. applied'[last].patch[p].kind = "list"
      BY <1>1, <1>6
    <3> HIDE DEF last
    <3> QED BY <2>1, <3>1, <3>2 DEF ListSetters
  <2>3. ASSUME NEW i \in 1..m PROVE i \in ListSetters(p)' <=> i \in ListSetters(p)
    <3>1. \A j \in Setters(p) : applied'[j].patch[p].kind = applied[j].patch[p].kind
      BY <1>1, <2>1
    <3>2. applied'[last].patch[p].kind = "list" /\ i \in Setters(p)' <=> i \in Setters(p)
      BY <1>1, <1>3, <1>6, <2>1
    <3>3. applied'[last].patch[p].kind = "list"
      BY <1>1, <1>6
    <3>4. i \in Setters(p)' <=> i \in Setters(p)
      BY <1>3, <2>1
    <3> HIDE DEF last, m
    <3> QED BY <2>1, <3>1, <3>3, <3>4 DEF ListSetters
  <2>4. patch[p].value \in T
    BY <1>6, PatchLists
  <2> HIDE DEF last, m, T
  <2> QED BY <1>5, <2>2, <2>3, <2>4
<1>7. ASSUME p \in Kept(config, patch)
      PROVE  Gathered(p)' = Gathered(p)
  <2>1. Setters(p)' = Setters(p) /\ Setters(p) \subseteq 1..m
    BY <1>1, <1>7, SettersAfterLayer DEF Setters
  <2>2. last \notin ListSetters(p)'
    <3>1. last \notin Setters(p)'
      BY <1>3, <2>1
    <3> QED BY <3>1 DEF ListSetters
  <2>3. \A i \in 1..m : i \in ListSetters(p)' <=> i \in ListSetters(p)
    <3>1. \A j \in Setters(p) : applied'[j].patch[p].kind = applied[j].patch[p].kind
      BY <1>1, <2>1
    <3> HIDE DEF m
    <3> QED BY <2>1, <3>1 DEF ListSetters
  <2>4. <<>> \in T
    BY EmptySeq
  <2>5. Gathered(p)' = Gathered(p) \o <<>>
    <3> HIDE DEF last, m, T
    <3> QED BY <1>5, <2>2, <2>3, <2>4
  <2> QED BY <1>2, <2>5, ConcatEmptySeq
<1> QED BY <1>6, <1>7

LEMMA ApplyKeepsCombination ==
  ASSUME TypeOK, MergeInv, ConfigIsCombination,
         NEW n \in LayerNames, NEW patch \in Contents, Apply(n, patch)
  PROVE  ConfigIsCombination'
<1> DEFINE last == Len(applied) + 1
           New == [name |-> n, patch |-> patch]
<1>1. /\ applied \in Seq(Layers) /\ policy' = policy
      /\ config' = MergeTree(config, patch, policy)
  BY DEF MergeInv, Apply
<1>2. /\ last \in Nat /\ DOMAIN applied = 1..Len(applied) /\ DOMAIN applied' = 1..last
      /\ applied'[last] = New /\ \A i \in DOMAIN applied : applied'[i] = applied[i]
      /\ \A j \in DOMAIN applied' : j <= last
  BY <1>1, SettersAfterLayer
<1>3. DOMAIN config' = Kept(config, patch) \cup DOMAIN patch
  BY <1>1 DEF MergeTree
<1>4. \A p : p \in DOMAIN config <=> Setters(p) # {}
  BY DEF ConfigIsCombination, Setters
<1>5. ASSUME NEW p PROVE p \in DOMAIN config' <=> Setters(p)' # {}
  <2>1. CASE p \in DOMAIN patch
    BY <1>1, <1>3, <2>1, SettersAfterLayer
  <2>2. CASE p \in Kept(config, patch)
    <3>1. Setters(p)' = Setters(p) /\ p \in DOMAIN config
      BY <1>1, <2>2, SettersAfterLayer DEF Kept
    <3> QED BY <1>3, <1>4, <2>2, <3>1
  <2>3. CASE p \notin DOMAIN patch /\ p \notin Kept(config, patch)
    <3>1. Setters(p)' = {i \in Setters(p) : Clear(p, patch)}
      BY <1>1, <2>3, SettersAfterLayer
    <3>2. p \notin DOMAIN config \/ ~Clear(p, patch)
      BY <2>3 DEF Kept, Clear
    <3> QED BY <1>3, <1>4, <2>3, <3>1, <3>2
  <2> QED BY <2>1, <2>2, <2>3
<1>6. DOMAIN config' =
        {p \in UNION {DOMAIN applied'[i].patch : i \in DOMAIN applied'} : Setters(p)' # {}}
  <2>1. ASSUME NEW p, Setters(p)' # {}
        PROVE  p \in UNION {DOMAIN applied'[i].patch : i \in DOMAIN applied'}
    <3>1. PICK i \in Setters(p)' : TRUE
      BY <2>1
    <3>2. i \in DOMAIN applied' /\ p \in DOMAIN applied'[i].patch
      BY <3>1 DEF Setters
    <3> QED BY <3>2
  <2> QED BY <1>5, <2>1
<1>7. ASSUME NEW p \in DOMAIN patch PROVE config'[p] = Combined(p)'
  <2>1. config'[p] = Merged(config, patch, policy, p)
    BY <1>1 DEF MergeTree
  <2>2. Max(Setters(p)') = last
    <3>1. Setters(p)' \subseteq 1..last /\ last \in Setters(p)'
      BY <1>1, <1>2, SettersAfterLayer DEF Setters
    <3>2. Max(Setters(p)') \in Setters(p)' /\ \A j \in Setters(p)' : j <= Max(Setters(p)')
      <4> HIDE DEF last
      <4> QED BY <1>2, <3>1, GreatestElement
    <3>3. Max(Setters(p)') \in 1..last /\ last <= Max(Setters(p)')
      BY <3>1, <3>2
    <3> QED BY <1>2, <3>3
  <2>3. applied'[Max(Setters(p)')].patch[p] = patch[p]
    BY <1>2, <2>2
  <2> DEFINE how == MergeStrategyFor(policy, p)
  <2>4. MergeStrategyFor(policy, p)' = how
    BY <1>1 DEF MergeStrategyFor
  <2>5. Combined(p)' =
          IF patch[p].kind = "list" /\ how = "append" THEN List(Gathered(p)')
          ELSE IF patch[p].kind = "list" /\ how = "union" THEN List(AddAll(Gathered(p)'))
          ELSE patch[p]
    BY <1>1, <2>3, <2>4 DEF Combined, AddAll, Add
  <2>6. CASE patch[p].kind # "list"
    BY <2>1, <2>5, <2>6 DEF Merged
  <2>7. CASE patch[p].kind = "list"
    <3>1. Gathered(p)' = Gathered(p) \o patch[p].value
      BY <1>1, <2>7, GatheredAfterLayer
    <3>2. Gathered(p) \in Seq(Items) /\ patch[p].value \in Seq(Items)
      BY <1>1, <2>7, ListsAreLists, PatchLists
    <3>3. CASE how = "append"
      <4>1. AsList(config, p) = Gathered(p)
        BY <1>1, <3>3, ListOfConfig
      <4> HIDE DEF how
      <4> QED BY <2>1, <2>5, <2>7, <3>1, <3>3, <4>1 DEF Merged, how
    <3>4. CASE how = "union"
      <4>1. AsList(config, p) = AddAll(Gathered(p))
        BY <1>1, <3>4, ListOfConfig
      <4>2. AddAll(AddAll(Gathered(p)) \o patch[p].value) =
              AddAll(Gathered(p) \o patch[p].value)
        BY <3>2, UnionInSteps
      <4> QED BY <2>1, <2>5, <2>7, <3>1, <3>4, <4>1, <4>2 DEF Merged, UnionLists
    <3>5. CASE how \notin {"append", "union"}
      BY <2>1, <2>5, <2>7, <3>5 DEF Merged
    <3> QED BY <3>3, <3>4, <3>5
  <2> QED BY <2>6, <2>7
<1>8. ASSUME NEW p \in Kept(config, patch) PROVE config'[p] = Combined(p)'
  <2>1. config'[p] = config[p] /\ p \in DOMAIN config
    BY <1>1 DEF MergeTree, Kept
  <2>2. Setters(p)' = Setters(p)
    BY <1>1, SettersAfterLayer
  <2>3. Max(Setters(p)) \in DOMAIN applied
    <3>1. Max(Setters(p)) \in Setters(p)
      BY <1>1, <1>4, <2>1, LastOfSetters
    <3> QED BY <3>1 DEF Setters
  <2>4. applied'[Max(Setters(p)')] = applied[Max(Setters(p))]
    BY <1>2, <2>2, <2>3
  <2>5. Gathered(p)' = Gathered(p)
    BY <1>1, GatheredAfterLayer
  <2>6. MergeStrategyFor(policy, p)' = MergeStrategyFor(policy, p)
    BY <1>1 DEF MergeStrategyFor
  <2>7. Combined(p)' = Combined(p)
    BY <2>4, <2>5, <2>6 DEF Combined
  <2> QED BY <2>1, <2>7 DEF ConfigIsCombination
<1> QED BY <1>3, <1>6, <1>7, <1>8 DEF ConfigIsCombination

(* The config is what the layers say, taken together: each path is what    *)
(* its last layer has there, and a list that is appended to or united is   *)
(* made of the lists of all the layers since the path last was something   *)
(* else, in the order of the layers.                                       *)
THEOREM ConfigCombines == Spec => []ConfigIsCombination
<1>1. Init => ConfigIsCombination
  BY DEF Init, EmptyTree, ConfigIsCombination
<1>2. TypeOK /\ MergeInv /\ ConfigIsCombination /\ [Next]_vars => ConfigIsCombination'
  <2> SUFFICES ASSUME TypeOK, MergeInv, ConfigIsCombination, [Next]_vars
               PROVE  ConfigIsCombination'
    OBVIOUS
  <2>1. CASE \E n \in LayerNames, t \in Contents : StaticLayer(n, t) \/ DynamicLayer(n, t)
    BY <2>1, ApplyKeepsCombination DEF StaticLayer, DynamicLayer
  <2>2. CASE UNCHANGED <<config, policy, applied>>
    <3>1. \A p : Combined(p)' = Combined(p) /\ Setters(p)' = Setters(p)
      BY <2>2 DEF Combined, Gathered, ListSetters, Setters, MergeStrategyFor
    <3> QED BY <2>2, <3>1 DEF ConfigIsCombination
  <2> QED BY <2>1, <2>2
          DEF Next, StaticInvalid, DynamicFails, UnknownType, Fail, Finish, vars
<1> QED BY <1>1, <1>2, MergeTypes, MergeInvHolds, PTL DEF Spec

-----------------------------------------------------------------------------
(* The beginning of a sequence.                                            *)
LEMMA Beginning ==
  ASSUME NEW K, NEW q \in Seq(K), NEW n \in Nat, n <= Len(q)
  PROVE  /\ SubSeq(q, 1, n) \in Seq(K)
         /\ Len(SubSeq(q, 1, n)) = n
         /\ \A i \in 1..n : SubSeq(q, 1, n)[i] = q[i]
<1>1. Len(q) \in Nat
  BY LenProperties
<1>2. \A i \in 1..n : i \in 1..Len(q)
  BY <1>1
<1>3. \A i \in 1..n : q[i] \in K
  BY <1>2, ElementOfSeq
<1>4. 1 \in Int /\ n \in Int
  OBVIOUS
<1>5. /\ SubSeq(q, 1, n) \in Seq(K)
      /\ Len(SubSeq(q, 1, n)) = IF 1 <= n THEN n - 1 + 1 ELSE 0
      /\ \A i \in 1..(n - 1 + 1) : SubSeq(q, 1, n)[i] = q[1 + i - 1]
  BY <1>3, <1>4, SubSeqProperties
<1>6. n - 1 + 1 = n /\ (~ (1 <= n) => n = 0) /\ \A i \in 1..n : 1 + i - 1 = i
  OBVIOUS
<1> QED BY <1>5, <1>6

(* Prefixes, place by place.                                               *)
LEMMA PrefixMeans ==
  ASSUME NEW K, NEW p \in Seq(K), NEW q \in Seq(K)
  PROVE  IsPrefix(p, q) <=> Len(p) <= Len(q) /\ \A i \in 1..Len(p) : p[i] = q[i]
<1>1. Len(p) \in Nat /\ Len(q) \in Nat
  BY LenProperties
<1>2. SubSeq(p, 1, Len(p)) = p
  BY SubSeqFull
<1>3. CASE Len(p) <= Len(q)
  <2> DEFINE s == SubSeq(q, 1, Len(p))
  <2>1. s \in Seq(K) /\ Len(s) = Len(p) /\ \A i \in 1..Len(p) : s[i] = q[i]
    BY <1>1, <1>3, Beginning
  <2>2. s = p <=> \A i \in 1..Len(p) : p[i] = q[i]
    <3> HIDE DEF s
    <3> QED BY <2>1, SeqEqual
  <2> QED BY <1>2, <1>3, <2>2 DEF IsPrefix
<1> QED BY <1>1, <1>3 DEF IsPrefix

LEMMA PrefixOrder ==
  ASSUME NEW K, NEW p \in Seq(K), NEW q \in Seq(K), NEW s \in Seq(K)
  PROVE  /\ IsPrefix(p, p) /\ IsPrefix(<<>>, p)
         /\ IsPrefix(p, q) /\ IsPrefix(q, s) => IsPrefix(p, s)
         /\ IsPrefix(p, s) /\ IsPrefix(q, s) /\ Len(p) <= Len(q) => IsPrefix(p, q)
         /\ IsPrefix(p, q) /\ Len(p) = Len(q) => p = q
<1>1. Len(p) \in Nat /\ Len(q) \in Nat /\ Len(s) \in Nat
  BY LenProperties
<1>2. <<>> \in Seq(K) /\ Len(<<>>) = 0
  BY EmptySeq
<1>3. IsPrefix(p, p) /\ IsPrefix(<<>>, p)
  <2>1. IsPrefix(p, p)
    <3>1. Len(p) <= Len(p) /\ \A i \in 1..Len(p) : p[i] = p[i]
      BY <1>1
    <3> QED BY <3>1, PrefixMeans
  <2> DEFINE e == <<>>
  <2>2. e \in Seq(K) /\ Len(e) = 0
    BY <1>2
  <2> HIDE DEF e
  <2>3. Len(e) <= Len(p) /\ \A i \in 1..Len(e) : e[i] = p[i]
    BY <1>1, <2>2
  <2>4. IsPrefix(e, p)
    BY <2>2, <2>3, PrefixMeans
  <2> QED BY <2>1, <2>4 DEF e
<1>4. IsPrefix(p, q) /\ IsPrefix(q, s) => IsPrefix(p, s)
  BY <1>1, PrefixMeans
<1>5. IsPrefix(p, s) /\ IsPrefix(q, s) /\ Len(p) <= Len(q) => IsPrefix(p, q)
  BY <1>1, PrefixMeans
<1>6. IsPrefix(p, q) /\ Len(p) = Len(q) => p = q
  BY <1>1, PrefixMeans, SeqEqual
<1> QED BY <1>3, <1>4, <1>5, <1>6

(* From a prefix of a path there is one next path on the way to it.        *)
LEMMA NextOnTheWay ==
  ASSUME NEW K, NEW p \in Seq(K), NEW q \in Seq(K), IsPrefix(p, q), p # q
  PROVE  LET c == SubSeq(q, 1, Len(p) + 1)
         IN c \in Seq(K) /\ Len(c) = Len(p) + 1 /\ IsPrefix(p, c) /\ IsPrefix(c, q)
<1> DEFINE n == Len(p) + 1
           c == SubSeq(q, 1, n)
<1>1. Len(p) \in Nat /\ Len(q) \in Nat /\ Len(p) <= Len(q)
  BY PrefixMeans, LenProperties
<1>2. Len(p) # Len(q)
  BY PrefixOrder
<1>3. n \in 1..Len(q) /\ n \in Nat
  BY <1>1, <1>2
<1>4. n \in Nat /\ n <= Len(q)
  BY <1>1, <1>3
<1>5. c \in Seq(K) /\ Len(c) = n /\ \A i \in 1..n : c[i] = q[i]
  <2> HIDE DEF n
  <2> QED BY <1>4, Beginning
<1> HIDE DEF c
<1>6. IsPrefix(c, q)
  <2> HIDE DEF n
  <2> QED BY <1>3, <1>5, PrefixMeans
<1>7. IsPrefix(p, c)
  BY <1>1, <1>5, <1>6, PrefixOrder
<1> QED BY <1>5, <1>6, <1>7 DEF c

LEMMA OnlyOneOnTheWay ==
  ASSUME NEW K, NEW p \in Seq(K), NEW c \in Seq(K), NEW q \in Seq(K),
         Len(c) = Len(p) + 1, IsPrefix(p, c), IsPrefix(c, q)
  PROVE  c = SubSeq(q, 1, Len(p) + 1) /\ IsPrefix(p, q) /\ q # p
<1> DEFINE d == SubSeq(q, 1, Len(p) + 1)
<1>1. Len(p) \in Nat /\ Len(c) <= Len(q) /\ Len(q) \in Nat /\ IsPrefix(p, q)
  BY PrefixMeans, PrefixOrder, LenProperties
<1>2. q # p
  BY <1>1
<1>3. d \in Seq(K) /\ Len(d) = Len(p) + 1 /\ IsPrefix(d, q)
  BY <1>1, <1>2, NextOnTheWay
<1> HIDE DEF d
<1>4. IsPrefix(c, d)
  BY <1>1, <1>3, PrefixOrder
<1>5. c = d
  BY <1>3, <1>4, PrefixOrder
<1> QED BY <1>1, <1>2, <1>5 DEF d

LEMMA AboveArePrefixes ==
  ASSUME NEW q \in Seq(Keys), NEW p \in Seq(Keys)
  PROVE  p \in Above(q) <=> IsPrefix(p, q) /\ p # q /\ p # <<>>
<1>1. Len(p) \in Nat /\ Len(q) \in Nat /\ Len(<<>>) = 0
  BY LenProperties, EmptySeq
<1>2. ASSUME NEW i \in 1..(Len(q) - 1)
      PROVE  LET s == SubSeq(q, 1, i)
             IN s \in Seq(Keys) /\ Len(s) = i /\ \A j \in 1..i : s[j] = q[j]
  <2>1. i \in Nat /\ i <= Len(q)
    BY <1>1
  <2> QED BY <2>1, Beginning
<1>3. ASSUME p \in Above(q) PROVE IsPrefix(p, q) /\ p # q /\ p # <<>>
  <2>1. PICK i \in 1..(Len(q) - 1) : p = SubSeq(q, 1, i)
    BY <1>3 DEF Above
  <2>2. Len(p) = i /\ \A j \in 1..i : p[j] = q[j]
    BY <1>2, <2>1
  <2>3. Len(p) < Len(q) /\ Len(p) # 0
    BY <1>1, <2>2
  <2>4. IsPrefix(p, q)
    BY <2>2, <2>3, PrefixMeans
  <2>5. p # q
    BY <2>3
  <2>6. p # <<>>
    BY <1>1, <2>3
  <2> QED BY <2>4, <2>5, <2>6
<1>4. ASSUME IsPrefix(p, q), p # q, p # <<>> PROVE p \in Above(q)
  <2>1. Len(p) # 0
    BY <1>1, <1>4, EmptySeq
  <2>2. Len(p) <= Len(q) /\ Len(p) # Len(q)
    BY <1>1, <1>4, PrefixMeans, PrefixOrder
  <2>3. Len(p) \in 1..(Len(q) - 1)
    BY <1>1, <2>1, <2>2
  <2> DEFINE s == SubSeq(q, 1, Len(p))
  <2>4. s \in Seq(Keys) /\ Len(s) = Len(p) /\ \A j \in 1..Len(p) : s[j] = q[j]
    BY <1>2, <2>3
  <2> HIDE DEF s
  <2>5. \A j \in 1..Len(s) : s[j] = p[j]
    BY <1>4, <2>4, PrefixMeans
  <2>6. s = p
    BY <2>4, <2>5, SeqEqual
  <2> QED BY <2>3, <2>6 DEF Above, s
<1> QED BY <1>3, <1>4

-----------------------------------------------------------------------------
(* Trees with their root.                                                  *)
RootedTree(t) ==
  /\ DOMAIN t \subseteq Seq(Keys)
  /\ <<>> \in DOMAIN t
  /\ \A q \in DOMAIN t, p \in Seq(Keys) :
       IsPrefix(p, q) /\ p # q => p \in DOMAIN t /\ t[p] = Mapping
  /\ t[<<>>] = Mapping

LEMMA RootedIsRootedTree ==
  ASSUME NEW t, DOMAIN t \subseteq Paths, IsTree(t)
  PROVE  RootedTree(Rooted(t))
<1> DEFINE R == Rooted(t)
<1>1. /\ DOMAIN R = DOMAIN t \cup {<<>>} /\ R[<<>>] = Mapping
      /\ \A p \in DOMAIN t : p # <<>> /\ R[p] = t[p] /\ p \in Seq(Keys)
  BY DEF Rooted, Paths
<1>2. <<>> \in Seq(Keys)
  BY EmptySeq
<1> HIDE DEF R
<1>3. ASSUME NEW q \in DOMAIN R, NEW p \in Seq(Keys), IsPrefix(p, q), p # q
      PROVE  p \in DOMAIN R /\ R[p] = Mapping
  <2>1. CASE q = <<>>
    <3>1. Len(p) <= Len(q) /\ Len(p) \in Nat /\ Len(q) = 0
      BY <1>3, <2>1, <1>2, EmptySeq, LenProperties DEF IsPrefix
    <3>2. p = q
      BY <1>2, <1>3, <2>1, <3>1, PrefixOrder
    <3> QED BY <1>3, <3>2
  <2>2. CASE q \in DOMAIN t
    <3>1. p # <<>> => p \in Above(q)
      BY <1>1, <1>3, <2>2, AboveArePrefixes
    <3>2. p # <<>> => p \in DOMAIN t /\ t[p] = Mapping
      BY <2>2, <3>1 DEF IsTree
    <3> QED BY <1>1, <3>2
  <2> QED BY <1>1, <2>1, <2>2
<1>4. DOMAIN R \subseteq Seq(Keys) /\ <<>> \in DOMAIN R /\ R[<<>>] = Mapping
  BY <1>1, <1>2
<1>5. RootedTree(R)
  BY <1>3, <1>4 DEF RootedTree
<1> QED BY <1>5 DEF R

(* Patch over Base: the paths of the patch, and those of the base that are *)
(* not below a leaf of the patch.                                          *)
LaidOver(Patch, Base, Leaf, M) ==
  /\ DOMAIN M = DOMAIN Patch \cup
       {q \in DOMAIN Base : \A s \in DOMAIN Patch : IsPrefix(s, q) => Patch[s] = Mapping}
  /\ \A q \in DOMAIN M :
       M[q] = IF q \notin DOMAIN Patch THEN Base[q]
              ELSE IF Patch[q] = Mapping THEN Mapping ELSE Leaf[q]

(* Both merges of trees are of this form.                                  *)
LEMMA MergeIsLaidOver ==
  ASSUME NEW base, NEW patch, NEW m, NEW Leaf,
         DOMAIN base \subseteq Paths, DOMAIN patch \subseteq Paths,
         m = [p \in Kept(base, patch) \cup DOMAIN patch |->
                IF p \in DOMAIN patch THEN Leaf[p] ELSE base[p]],
         \A p \in DOMAIN patch : patch[p] = Mapping => Leaf[p] = Mapping
  PROVE  LaidOver(Rooted(patch), Rooted(base), Leaf, Rooted(m))
<1> DEFINE P == Rooted(patch)
           B == Rooted(base)
           M == Rooted(m)
<1>1. /\ DOMAIN P = DOMAIN patch \cup {<<>>} /\ P[<<>>] = Mapping
      /\ \A p \in DOMAIN patch : P[p] = patch[p] /\ p # <<>> /\ p \in Seq(Keys)
  BY DEF Rooted, Paths
<1>2. /\ DOMAIN B = DOMAIN base \cup {<<>>} /\ B[<<>>] = Mapping
      /\ \A p \in DOMAIN base : B[p] = base[p] /\ p # <<>> /\ p \in Seq(Keys)
  BY DEF Rooted, Paths
<1>3. /\ DOMAIN m = Kept(base, patch) \cup DOMAIN patch
      /\ \A p \in DOMAIN m : m[p] = IF p \in DOMAIN patch THEN Leaf[p] ELSE base[p]
  OBVIOUS
<1>4. /\ DOMAIN M = DOMAIN m \cup {<<>>} /\ M[<<>>] = Mapping
      /\ \A p \in DOMAIN m : M[p] = m[p] /\ p # <<>>
  BY <1>1, <1>2, <1>3 DEF Rooted, Kept
<1> HIDE DEF P, B, M
<1>5. <<>> \in Seq(Keys)
  BY EmptySeq
<1>6. ASSUME NEW q \in DOMAIN base, q \notin DOMAIN patch
      PROVE  q \in Kept(base, patch)
               <=> \A s \in DOMAIN P : IsPrefix(s, q) => P[s] = Mapping
  <2>1. \A s \in DOMAIN patch : s \in Above(q) <=> IsPrefix(s, q)
    BY <1>1, <1>2, <1>6, AboveArePrefixes
  <2> QED BY <1>1, <1>6, <2>1 DEF Kept
<1>7. \A s \in DOMAIN P : IsPrefix(s, <<>>) => P[s] = Mapping
  <2> SUFFICES ASSUME NEW s \in DOMAIN P, IsPrefix(s, <<>>) PROVE s = <<>>
    BY <1>1
  <2>1. s \in Seq(Keys) /\ Len(s) \in Nat /\ Len(<<>>) = 0
    BY <1>1, <1>5, EmptySeq, LenProperties
  <2>2. Len(s) <= Len(<<>>)
    BY DEF IsPrefix
  <2>3. Len(s) = Len(<<>>)
    BY <2>1, <2>2
  <2> QED BY <1>5, <2>1, <2>3, PrefixOrder
<1>8. DOMAIN M = DOMAIN P \cup
        {q \in DOMAIN B : \A s \in DOMAIN P : IsPrefix(s, q) => P[s] = Mapping}
  <2> DEFINE Free == {q \in DOMAIN B : \A s \in DOMAIN P : IsPrefix(s, q) => P[s] = Mapping}
  <2>1. Kept(base, patch) \subseteq DOMAIN base \ DOMAIN patch
    BY DEF Kept
  <2>2. \A q \in DOMAIN base \ DOMAIN patch : q \in Kept(base, patch) <=> q \in Free
    BY <1>2, <1>6
  <2>3. <<>> \in DOMAIN P /\ Free \subseteq DOMAIN base \cup {<<>>}
    BY <1>1, <1>2
  <2> HIDE DEF Free
  <2>4. DOMAIN M = DOMAIN P \cup Free
    BY <1>1, <1>3, <1>4, <2>1, <2>2, <2>3
  <2> QED BY <2>4 DEF Free
<1>9. ASSUME NEW q \in DOMAIN M
      PROVE  M[q] = IF q \notin DOMAIN P THEN B[q]
                    ELSE IF P[q] = Mapping THEN Mapping ELSE Leaf[q]
  <2>1. CASE q = <<>>
    BY <1>1, <1>4, <2>1
  <2>2. CASE q \in DOMAIN patch
    BY <1>1, <1>3, <1>4, <2>2
  <2>3. CASE q \in Kept(base, patch)
    <3>1. q \in DOMAIN base /\ q \notin DOMAIN patch /\ q \in DOMAIN m
      BY <1>3, <2>3 DEF Kept
    <3> QED BY <1>1, <1>2, <1>3, <1>4, <3>1
  <2> QED BY <1>3, <1>4, <2>1, <2>2, <2>3
<1>10. LaidOver(P, B, Leaf, M)
  BY <1>8, <1>9 DEF LaidOver
<1> QED BY <1>10 DEF P, B, M

(* mergeValue's recursion, one call deep: what lies over a base from a     *)
(* path on is, if the patch has a mapping there, what lies over it from    *)
(* the entries of the two on, and else the patch's leaf.                   *)
LEMMA LaidOverMapping ==
  ASSUME NEW P, NEW B, NEW Leaf, NEW M, RootedTree(P), RootedTree(B),
         LaidOver(P, B, Leaf, M), NEW p \in DOMAIN P, P[p] = Mapping,
         NEW keys, keys = Entries(B, p) \cup Entries(P, p),
         NEW out,
         out = [c \in keys |-> IF c \in DOMAIN P THEN At(M, c) ELSE At(B, c)]
  PROVE  At(M, p) = MapAt(p, out)
<1> DEFINE Child(c) == IF c \in DOMAIN P THEN At(M, c) ELSE At(B, c)
           next(q) == SubSeq(q, 1, Len(p) + 1)
<1>1. /\ DOMAIN P \subseteq Seq(Keys) /\ DOMAIN B \subseteq Seq(Keys) /\ p \in Seq(Keys)
      /\ DOMAIN M \subseteq DOMAIN P \cup DOMAIN B /\ DOMAIN P \subseteq DOMAIN M
  BY DEF RootedTree, LaidOver
<1>2. /\ \A t, c, q : q \in DOMAIN At(t, c) <=> q \in DOMAIN t /\ IsPrefix(c, q)
      /\ \A t, c, q : q \in DOMAIN t /\ IsPrefix(c, q) => At(t, c)[q] = t[q]
  BY DEF At
<1>3. p \in DOMAIN M /\ IsPrefix(p, p)
  BY <1>1, PrefixOrder
<1>4. M[p] = Mapping
  BY <1>3 DEF LaidOver
<1>5. ASSUME NEW c \in keys
      PROVE  /\ c \in Seq(Keys) /\ Len(c) = Len(p) + 1 /\ IsPrefix(p, c)
             /\ Child(c) = At(M, c)
  <2>1. c \in Seq(Keys) /\ Len(c) = Len(p) + 1 /\ IsPrefix(p, c)
    BY <1>1, <1>5 DEF Entries
  <2>2. CASE c \in DOMAIN P
    BY <2>1, <2>2
  <2>3. CASE c \notin DOMAIN P
    <3>1. ASSUME NEW q \in Seq(Keys), IsPrefix(c, q)
          PROVE  q \notin DOMAIN P
      BY <2>1, <2>3, <3>1 DEF RootedTree
    <3>2. ASSUME NEW q \in DOMAIN B, IsPrefix(c, q), NEW s \in DOMAIN P, IsPrefix(s, q)
          PROVE  P[s] = Mapping
      <4>1. q \in Seq(Keys) /\ s \in Seq(Keys) /\ ~ IsPrefix(c, s)
        BY <1>1, <3>1, <3>2
      <4>2. IsPrefix(p, q)
        BY <1>1, <2>1, <3>2, <4>1, PrefixOrder
      <4>3. Len(p) \in Nat /\ Len(s) \in Nat /\ Len(c) \in Nat
        BY <1>1, <2>1, <4>1, LenProperties
      <4>4. ~ (Len(c) <= Len(s))
        BY <2>1, <3>2, <4>1, PrefixOrder
      <4>5. Len(s) <= Len(p)
        BY <2>1, <4>3, <4>4
      <4>6. IsPrefix(s, p)
        BY <1>1, <3>2, <4>1, <4>2, <4>5, PrefixOrder
      <4> QED BY <1>1, <4>1, <4>6 DEF RootedTree
    <3>3. \A q \in Seq(Keys) : IsPrefix(c, q) =>
            /\ q \in DOMAIN M <=> q \in DOMAIN B
            /\ q \in DOMAIN M => M[q] = B[q]
      BY <3>1, <3>2 DEF LaidOver
    <3>4. DOMAIN At(M, c) = DOMAIN At(B, c)
      BY <1>1, <1>2, <3>3
    <3>5. \A q \in DOMAIN At(M, c) : At(M, c)[q] = At(B, c)[q]
      BY <1>1, <1>2, <3>3, <3>4
    <3>6. At(M, c) = At(B, c)
      BY <3>4, <3>5 DEF At
    <3> QED BY <2>1, <2>3, <3>6
  <2> QED BY <2>1, <2>2, <2>3
<1>6. DOMAIN out = keys /\ \A c \in keys : out[c] = At(M, c)
  <2>1. out = [c \in keys |-> Child(c)]
    OBVIOUS
  <2> HIDE DEF Child
  <2> QED BY <1>5, <2>1
<1>7. ASSUME NEW q \in DOMAIN M, IsPrefix(p, q), q # p
      PROVE  next(q) \in keys /\ q \in DOMAIN out[next(q)]
  <2>1. q \in Seq(Keys)
    BY <1>1
  <2>2. next(q) \in Seq(Keys) /\ Len(next(q)) = Len(p) + 1 /\ IsPrefix(p, next(q))
           /\ IsPrefix(next(q), q)
    BY <1>1, <1>7, <2>1, NextOnTheWay
  <2> HIDE DEF next
  <2>3. q \in DOMAIN P \/ q \in DOMAIN B
    BY <1>1
  <2>4. next(q) \in DOMAIN P \/ next(q) \in DOMAIN B
    BY <2>2, <2>3 DEF RootedTree
  <2>5. next(q) \in keys
    BY <2>2, <2>4 DEF Entries
  <2> QED BY <1>2, <1>6, <2>2, <2>5
<1>8. ASSUME NEW c \in keys, NEW q \in DOMAIN out[c]
      PROVE  q \in DOMAIN M /\ IsPrefix(p, q) /\ q # p /\ next(q) = c
  <2>1. q \in DOMAIN M /\ IsPrefix(c, q) /\ q \in Seq(Keys)
    BY <1>1, <1>2, <1>6
  <2> QED BY <1>1, <1>5, <2>1, OnlyOneOnTheWay
<1> HIDE DEF next
<1> DEFINE D == {p} \cup UNION {DOMAIN out[c] : c \in DOMAIN out}
<1>9. DOMAIN At(M, p) = D
  <2>1. ASSUME NEW q \in DOMAIN At(M, p) PROVE q \in D
    <3>1. q \in DOMAIN M /\ IsPrefix(p, q)
      BY <1>2, <2>1
    <3>2. q # p => next(q) \in DOMAIN out /\ q \in DOMAIN out[next(q)]
      BY <1>6, <1>7, <3>1
    <3> QED BY <3>2
  <2>2. ASSUME NEW q \in D PROVE q \in DOMAIN At(M, p)
    <3>1. q = p \/ \E c \in keys : q \in DOMAIN out[c]
      BY <1>6, <2>2
    <3>2. q \in DOMAIN M /\ IsPrefix(p, q)
      BY <1>3, <1>8, <3>1
    <3> QED BY <1>2, <3>2
  <2> HIDE DEF D
  <2> QED BY <2>1, <2>2
<1>10. \A q \in D : At(M, p)[q] = IF q = p THEN Mapping ELSE out[next(q)][q]
  <2> SUFFICES ASSUME NEW q \in D
               PROVE  At(M, p)[q] = IF q = p THEN Mapping ELSE out[next(q)][q]
    OBVIOUS
  <2>1. q \in DOMAIN M /\ IsPrefix(p, q) /\ At(M, p)[q] = M[q]
    BY <1>2, <1>9
  <2>2. ASSUME q # p PROVE out[next(q)][q] = M[q]
    <3>1. next(q) \in keys /\ q \in DOMAIN out[next(q)]
      BY <1>7, <2>1, <2>2
    <3>2. out[next(q)] = At(M, next(q))
      BY <1>6, <3>1
    <3>3. q \in DOMAIN M /\ IsPrefix(next(q), q)
      BY <1>2, <3>1, <3>2
    <3> QED BY <1>2, <3>2, <3>3
  <2> QED BY <1>4, <2>1, <2>2
<1>11. At(M, p) = [q \in DOMAIN At(M, p) |-> At(M, p)[q]]
  BY DEF At
<1>12. MapAt(p, out) = [q \in D |-> IF q = p THEN Mapping ELSE out[next(q)][q]]
  BY DEF MapAt, next
<1> HIDE DEF D
<1> QED BY <1>9, <1>10, <1>11, <1>12

(* A leaf of the patch leaves nothing of the base below it.                *)
LEMMA LaidOverLeaf ==
  ASSUME NEW P, NEW B, NEW Leaf, NEW M, RootedTree(P), RootedTree(B),
         LaidOver(P, B, Leaf, M), NEW p \in DOMAIN P, P[p] # Mapping
  PROVE  At(M, p) = LeafAt(p, Leaf[p])
<1>1. /\ DOMAIN P \subseteq Seq(Keys) /\ DOMAIN B \subseteq Seq(Keys) /\ p \in Seq(Keys)
      /\ DOMAIN M \subseteq DOMAIN P \cup DOMAIN B /\ DOMAIN P \subseteq DOMAIN M
  BY DEF RootedTree, LaidOver
<1>2. /\ \A t, c, q : q \in DOMAIN At(t, c) <=> q \in DOMAIN t /\ IsPrefix(c, q)
      /\ \A t, c, q : q \in DOMAIN t /\ IsPrefix(c, q) => At(t, c)[q] = t[q]
  BY DEF At
<1>3. p \in DOMAIN M /\ IsPrefix(p, p)
  BY <1>1, PrefixOrder
<1>4. ASSUME NEW q \in DOMAIN M, IsPrefix(p, q) PROVE q = p
  <2>1. q \in Seq(Keys) /\ q \notin DOMAIN P => P[p] = Mapping
    BY <1>4 DEF LaidOver
  <2>2. q \in DOMAIN P
    BY <1>1, <2>1
  <2> QED BY <1>1, <1>4, <2>2 DEF RootedTree
<1>5. DOMAIN At(M, p) = {p}
  <2>1. \A q : q \in DOMAIN At(M, p) <=> q = p
    BY <1>2, <1>3, <1>4
  <2> QED BY <2>1
<1>6. M[p] = Leaf[p]
  BY <1>3 DEF LaidOver
<1>7. At(M, p)[p] = Leaf[p]
  BY <1>2, <1>5, <1>6
<1>8. At(M, p) = [q \in DOMAIN At(M, p) |-> At(M, p)[q]]
  BY DEF At
<1> QED BY <1>5, <1>7, <1>8 DEF LeafAt

(* Induction over a finite tree, from its leaves.                          *)
LEMMA TreeInduction ==
  ASSUME NEW P, RootedTree(P), IsFiniteSet(DOMAIN P), NEW Good,
         \A p \in DOMAIN P : (\A c \in Entries(P, p) : c \in Good) => p \in Good
  PROVE  DOMAIN P \subseteq Good
<1> DEFINE R == StrictSubsetOrdering(DOMAIN P)
           From(p) == {q \in DOMAIN P : IsPrefix(p, q)}
           D == {From(p) : p \in DOMAIN P \ Good}
<1>1. SUFFICES ASSUME DOMAIN P \ Good # {} PROVE FALSE
  OBVIOUS
<1>2. IsWellFoundedOn(R, FiniteSubsetsOf(DOMAIN P))
  BY FS_StrictSubsetOrderingWellFounded
<1>3. \A p : From(p) \in FiniteSubsetsOf(DOMAIN P)
  <2>1. \A p : From(p) \in SUBSET DOMAIN P
    OBVIOUS
  <2> QED BY <2>1, FS_Subset DEF FiniteSubsetsOf
<1>4. D \subseteq FiniteSubsetsOf(DOMAIN P) /\ D # {}
  <2> HIDE DEF From
  <2> QED BY <1>1, <1>3
<1>5. PICK d \in D : \A e \in D : ~ (<<e, d>> \in R)
  <2> HIDE DEF R, D
  <2> QED BY <1>2, <1>4, WFMin
<1>6. PICK p \in DOMAIN P \ Good : d = From(p)
  OBVIOUS
<1>7. PICK c \in Entries(P, p) : c \notin Good
  BY <1>6
<1>8. /\ DOMAIN P \subseteq Seq(Keys) /\ p \in Seq(Keys) /\ c \in Seq(Keys)
      /\ c \in DOMAIN P /\ Len(c) = Len(p) + 1 /\ IsPrefix(p, c)
  BY <1>7 DEF Entries, RootedTree
<1>9. From(c) \subseteq From(p)
  BY <1>8, PrefixOrder
<1>10. p \in From(p) /\ p \notin From(c)
  <2>1. Len(p) \in Nat /\ ~ (Len(c) <= Len(p))
    BY <1>8, LenProperties
  <2> QED BY <1>6, <1>8, <2>1, PrefixOrder DEF IsPrefix
<1>11. From(c) \in D /\ From(c) \in SUBSET DOMAIN P /\ From(p) \in SUBSET DOMAIN P
  BY <1>7, <1>8
<1>12. <<From(c), From(p)>> \in R
  <2> HIDE DEF From, D
  <2> QED BY <1>9, <1>10, <1>11 DEF StrictSubsetOrdering
<1> HIDE DEF From, D, R
<1> QED BY <1>5, <1>6, <1>11, <1>12

(* The recursion of mergeValue computes the merge of trees and of their    *)
(* explains: the merge of trees solves its equations, and over a finite    *)
(* patch they have one solution.                                           *)
LEMMA MergeValueIsMerge ==
  ASSUME NEW base, NEW ex, NEW patch, NEW n, NEW r,
         DOMAIN base \subseteq Paths, IsTree(base), DOMAIN ex = DOMAIN base, IsTree(ex),
         DOMAIN patch \subseteq Paths, IsTree(patch), IsFiniteSet(DOMAIN patch)
  PROVE  mergeValue(Rooted(base), Rooted(ex), Rooted(patch), Origin(n), r)
           = <<Rooted(MergeTree(base, patch, r)), Rooted(ExplainTree(ex, patch, n))>>
<1> DEFINE P == Rooted(patch)
           B == Rooted(base)
           E == Rooted(ex)
           M == Rooted(MergeTree(base, patch, r))
           X == Rooted(ExplainTree(ex, patch, n))
           LeafM == [p \in DOMAIN patch |-> Merged(base, patch, r, p)]
           LeafX == [p \in DOMAIN patch |-> IF patch[p] = Mapping THEN Mapping ELSE Origin(n)]
           Keys2(p) == Entries(B, p) \cup Entries(P, p)
           Out(f, p) == [c \in Keys2(p) |-> IF c \in DOMAIN P THEN f[c]
                                            ELSE <<At(B, c), At(E, c)>>]
           Step(f, p) ==
             CASE P[p] = Mapping ->
                    <<MapAt(p, [c \in Keys2(p) |-> Out(f, p)[c][1]]),
                      MapAt(p, [c \in Keys2(p) |-> Out(f, p)[c][2]])>>
               [] P[p].kind = "list" /\ MergeStrategyFor(r, p) = "union" ->
                    <<LeafAt(p, List(UnionLists(AsList(B, p), P[p].value))),
                      LeafAt(p, Origin(n))>>
               [] P[p].kind = "list" /\ MergeStrategyFor(r, p) = "append" ->
                    <<LeafAt(p, List(AsList(B, p) \o P[p].value)), LeafAt(p, Origin(n))>>
               [] OTHER -> <<LeafAt(p, P[p]), LeafAt(p, Origin(n))>>
           Body(f) == [p \in DOMAIN P |-> Step(f, p)]
           G == [p \in DOMAIN P |-> <<At(M, p), At(X, p)>>]
           f == CHOOSE g : g = Body(g)
<1>1. mergeValue(B, E, P, Origin(n), r) = f[<<>>]
  BY DEF mergeValue
<1>2. RootedTree(P) /\ RootedTree(B) /\ RootedTree(E)
  BY RootedIsRootedTree
<1>3. /\ DOMAIN P = DOMAIN patch \cup {<<>>} /\ P[<<>>] = Mapping
      /\ \A p \in DOMAIN patch : P[p] = patch[p] /\ p # <<>>
      /\ DOMAIN B = DOMAIN base \cup {<<>>} /\ DOMAIN E = DOMAIN B
      /\ \A p \in DOMAIN base : B[p] = base[p]
  BY DEF Rooted, Paths
<1>4. LaidOver(P, B, LeafM, M)
  <2> DEFINE m == MergeTree(base, patch, r)
  <2>1. m = [p \in Kept(base, patch) \cup DOMAIN patch |->
               IF p \in DOMAIN patch THEN LeafM[p] ELSE base[p]]
    BY DEF MergeTree
  <2>2. \A p \in DOMAIN patch : patch[p] = Mapping => LeafM[p] = Mapping
    BY MappingsOfThePatch
  <2> HIDE DEF m, LeafM
  <2>3. LaidOver(Rooted(patch), Rooted(base), LeafM, Rooted(m))
    BY <2>1, <2>2, MergeIsLaidOver
  <2> QED BY <2>3 DEF m
<1>5. LaidOver(P, E, LeafX, X)
  <2> DEFINE m == ExplainTree(ex, patch, n)
  <2>1. m = [p \in Kept(ex, patch) \cup DOMAIN patch |->
               IF p \in DOMAIN patch THEN LeafX[p] ELSE ex[p]]
    BY DEF ExplainTree
  <2>2. \A p \in DOMAIN patch : patch[p] = Mapping => LeafX[p] = Mapping
    OBVIOUS
  <2> HIDE DEF m, LeafX
  <2>3. LaidOver(Rooted(patch), Rooted(ex), LeafX, Rooted(m))
    BY <2>1, <2>2, MergeIsLaidOver
  <2> QED BY <2>3 DEF m
<1>6. ASSUME NEW p \in DOMAIN P PROVE Step(G, p) = <<At(M, p), At(X, p)>>
  <2>1. CASE P[p] = Mapping
    <3>1. /\ At(M, p) = MapAt(p, [c \in Keys2(p) |-> IF c \in DOMAIN P THEN At(M, c)
                                                       ELSE At(B, c)])
          /\ At(X, p) = MapAt(p, [c \in Keys2(p) |-> IF c \in DOMAIN P THEN At(X, c)
                                                       ELSE At(E, c)])
      <4> DEFINE keys == Keys2(p)
                 outM == [c \in keys |-> IF c \in DOMAIN P THEN At(M, c) ELSE At(B, c)]
                 outX == [c \in keys |-> IF c \in DOMAIN P THEN At(X, c) ELSE At(E, c)]
      <4>1. keys = Entries(B, p) \cup Entries(P, p)
        OBVIOUS
      <4>2. keys = Entries(E, p) \cup Entries(P, p)
        BY <1>3 DEF Entries
      <4> HIDE DEF keys, P, B, E, M, X, LeafM, LeafX
      <4>3. /\ outM = [c \in keys |-> IF c \in DOMAIN P THEN At(M, c) ELSE At(B, c)]
            /\ outX = [c \in keys |-> IF c \in DOMAIN P THEN At(X, c) ELSE At(E, c)]
        OBVIOUS
      <4> HIDE DEF outM, outX
      <4>4. At(M, p) = MapAt(p, outM)
        BY <1>2, <1>4, <2>1, <4>1, <4>3, LaidOverMapping
      <4>5. At(X, p) = MapAt(p, outX)
        BY <1>2, <1>5, <2>1, <4>2, <4>3, LaidOverMapping
      <4> QED BY <4>4, <4>5 DEF keys, outM, outX
    <3> HIDE DEF P, B, E, M, X
    <3>2. [c \in Keys2(p) |-> Out(G, p)[c][1]]
            = [c \in Keys2(p) |-> IF c \in DOMAIN P THEN At(M, c) ELSE At(B, c)]
      OBVIOUS
    <3>3. [c \in Keys2(p) |-> Out(G, p)[c][2]]
            = [c \in Keys2(p) |-> IF c \in DOMAIN P THEN At(X, c) ELSE At(E, c)]
      OBVIOUS
    <3>4. Step(G, p) = <<MapAt(p, [c \in Keys2(p) |-> Out(G, p)[c][1]]),
                         MapAt(p, [c \in Keys2(p) |-> Out(G, p)[c][2]])>>
      <4>1. P[p].kind # "list"
        BY <2>1 DEF Mapping
      <4> HIDE DEF Keys2, Out, G
      <4> QED BY <2>1, <4>1
    <3> QED BY <3>1, <3>2, <3>3, <3>4
  <2>2. CASE P[p] # Mapping
    <3>1. p \in DOMAIN patch /\ p # <<>> /\ P[p] = patch[p]
      BY <1>3, <2>2
    <3>2. At(M, p) = LeafAt(p, LeafM[p]) /\ At(X, p) = LeafAt(p, LeafX[p])
      <4> HIDE DEF P, B, E, M, X, LeafM, LeafX
      <4>1. At(M, p) = LeafAt(p, LeafM[p])
        BY <1>2, <1>4, <2>2, LaidOverLeaf
      <4>2. At(X, p) = LeafAt(p, LeafX[p])
        BY <1>2, <1>5, <2>2, LaidOverLeaf
      <4> QED BY <4>1, <4>2
    <3>3. LeafM[p] = Merged(base, patch, r, p) /\ LeafX[p] = Origin(n)
      BY <2>2, <3>1
    <3>4. AsList(B, p) = AsList(base, p)
      BY <1>3, <3>1 DEF AsList
    <3> HIDE DEF P, B, E, M, X, LeafM, LeafX, Keys2, Out, G
    <3>5. CASE patch[p].kind # "list"
      BY <2>2, <3>1, <3>2, <3>3, <3>5 DEF Merged
    <3>6. CASE patch[p].kind = "list"
      BY <2>2, <3>1, <3>2, <3>3, <3>4, <3>6 DEF Merged
    <3> QED BY <3>5, <3>6
  <2> QED BY <2>1, <2>2
<1>7. G = Body(G)
  <2> HIDE DEF Step, P, M, X
  <2> QED BY <1>6
<1>8. f = Body(f)
  <2> HIDE DEF G, Step
  <2> QED BY <1>7
<1> HIDE DEF f, LeafM, LeafX
<1>9. ASSUME NEW p \in DOMAIN P, \A c \in Entries(P, p) : f[c] = G[c]
      PROVE  f[p] = G[p]
  <2> HIDE DEF P, B, E, M, X, G
  <2>1. \A c \in Keys2(p) : c \in DOMAIN P => c \in Entries(P, p)
    BY DEF Entries
  <2>2. Out(f, p) = Out(G, p)
    <3> HIDE DEF Keys2
    <3> QED BY <1>9, <2>1
  <2> HIDE DEF Out
  <2>3. Step(f, p) = Step(G, p)
    BY <2>2
  <2> HIDE DEF Step
  <2>4. f[p] = Step(f, p) /\ G[p] = Step(G, p)
    BY <1>7, <1>8
  <2> QED BY <2>3, <2>4
<1>10. \A p \in DOMAIN P : f[p] = G[p]
  <2> DEFINE Good == {p \in DOMAIN P : f[p] = G[p]}
  <2>1. IsFiniteSet(DOMAIN P)
    <3> HIDE DEF P
    <3> QED BY <1>3, FS_AddElement
  <2> HIDE DEF P, G
  <2>2. \A p \in DOMAIN P : (\A c \in Entries(P, p) : c \in Good) => p \in Good
    BY <1>9
  <2>3. DOMAIN P \subseteq Good
    <3> HIDE DEF Good
    <3> QED BY <1>2, <2>1, <2>2, TreeInduction
  <2> QED BY <2>3
<1>11. At(M, <<>>) = M /\ At(X, <<>>) = X
  <2>1. ASSUME NEW t, DOMAIN t \subseteq Seq(Keys), t = [q \in DOMAIN t |-> t[q]]
        PROVE  At(t, <<>>) = t
    <3>1. \A q \in DOMAIN t : IsPrefix(<<>>, q)
      BY <2>1, PrefixOrder
    <3>2. {q \in DOMAIN t : IsPrefix(<<>>, q)} = DOMAIN t
      BY <3>1
    <3> QED BY <2>1, <3>2 DEF At
  <2>2. DOMAIN M \subseteq Seq(Keys) /\ DOMAIN X \subseteq Seq(Keys)
    <3> HIDE DEF P, B, E, M, X
    <3> QED BY <1>2, <1>4, <1>5 DEF RootedTree, LaidOver
  <2>3. M = [q \in DOMAIN M |-> M[q]] /\ X = [q \in DOMAIN X |-> X[q]]
    BY DEF Rooted
  <2> HIDE DEF M, X
  <2> QED BY <2>1, <2>2, <2>3
<1>12. f[<<>>] = <<M, X>>
  <2> HIDE DEF P, M, X
  <2> QED BY <1>3, <1>10, <1>11
<1> QED BY <1>1, <1>12

(* The recursion of mergeValue, from every config and explain that Resolve *)
(* reaches and for every layer, computes the merge of trees that the other *)
(* theorems are about.                                                     *)
THEOREM RecursionIsMerge == Spec => []MergeAgrees
<1>1. MergeInv => MergeAgrees
  <2> SUFFICES ASSUME MergeInv, NEW t \in Contents, NEW n \in LayerNames
               PROVE  mergeValue(Rooted(config), Rooted(explain), Rooted(t), Origin(n), policy)
                        = <<Rooted(MergeTree(config, t, policy)),
                            Rooted(ExplainTree(explain, t, n))>>
    BY DEF MergeAgrees
  <2>1. /\ DOMAIN config \subseteq Paths /\ IsTree(config) /\ IsTree(explain)
        /\ DOMAIN explain = DOMAIN config
    BY DEF MergeInv, Trees, ExplainMirrors
  <2>2. DOMAIN t \subseteq Paths /\ IsTree(t) /\ IsFiniteSet(DOMAIN t)
    BY FiniteAssumption DEF Paths
  <2> QED BY <2>1, <2>2, MergeValueIsMerge
<1> QED BY <1>1, MergeInvHolds, PTL
=============================================================================

------------------------- MODULE ConsultationProofs -------------------------
(***************************************************************************)
(* What TLAPS proves of consulting a resolved Recipe, for any layers,      *)
(* contents and policies: every view of a result attributes a value to the *)
(* layer that set it last, and portable values print alike locally and     *)
(* remotely, but for the order of the keys of a source.  The proofs start from what MergeProofs has of the engine.    *)
(***************************************************************************)
EXTENDS Consultation, MergeProofs

USE KeysAssumption, ContentsAssumption, NobodyAssumption

(* What the engine guarantees of its result.                               *)
EngineInv == TypeOK /\ MergeInv /\ ExplainNamesLastSetter

LEMMA EngineInvHolds == Spec => []EngineInv
BY MergeTypes, MergeInvHolds, ExplainIsTrue, PTL DEF EngineInv

-----------------------------------------------------------------------------
(* Paths and keys.                                                         *)

(* A path and the path of a key below it.                                  *)
LEMMA OneKeyDeeper ==
  ASSUME NEW S, NEW p \in Seq(S) \ {<<>>}, NEW k
  PROVE  /\ p \in Above(Append(p, k))
         /\ Front(Append(p, k)) = p
         /\ IsPrefix(p, p) /\ IsPrefix(p, Append(p, k))
<1> DEFINE T == S \cup {k}
           n == Len(p)
           q == Append(p, k)
<1>1. p \in Seq(T) /\ k \in T
  BY SeqMonotonic
<1>2. n \in Nat /\ n # 0 /\ p = [i \in 1..n |-> p[i]]
  BY <1>1, LenProperties, EmptySeq
<1>3. q \in Seq(T) /\ Len(q) = n + 1 /\ \A i \in 1..n : q[i] = p[i]
  BY <1>1, AppendProperties
<1>4. SubSeq(p, 1, n) = p
  BY <1>1, <1>2
<1>5. SubSeq(q, 1, n) = p
  <2> HIDE DEF q, T, n
  <2>1. SubSeq(q, 1, n) = [i \in 1..n |-> q[i]]
    BY <1>2, <1>3
  <2> QED BY <1>2, <1>3, <2>1
<1>6. n \in 1..(Len(q) - 1) /\ Len(q) - 1 = n
  BY <1>2, <1>3
<1> HIDE DEF q, n
<1> QED BY <1>2, <1>3, <1>4, <1>5, <1>6 DEF Above, Front, IsPrefix, q, n

(* The words of a path whose keys have no dots, one for each key.          *)
WordsOf(p) == [i \in 1..Len(p) |-> p[i][1]]
OneWord == {k \in Seq(Words) : Len(k) = 1}

LEMMA KeyOfOneWord ==
  ASSUME NEW k \in OneWord
  PROVE  k \in Seq(Words) /\ k[1] \in Words /\ k = <<k[1]>>
<1>1. k \in Seq(Words) /\ Len(k) = 1
  BY DEF OneWord
<1>2. k \in [1..1 -> Words]
  BY <1>1, LenProperties
<1>3. 1..1 = {1}
  OBVIOUS
<1>4. k[1] \in Words
  BY <1>2, <1>3
<1>5. <<k[1]>> \in [1..1 -> Words] /\ <<k[1]>>[1] = k[1]
  BY <1>4
<1>6. \A i \in 1..1 : k[i] = <<k[1]>>[i]
  BY <1>3, <1>5
<1>7. k = <<k[1]>>
  <2> DEFINE l == <<k[1]>>
  <2>1. l \in [1..1 -> Words] /\ \A i \in 1..1 : k[i] = l[i]
    BY <1>5, <1>6
  <2> HIDE DEF l
  <2>2. k = l
    BY <1>2, <2>1
  <2> QED BY <2>2 DEF l
<1> QED BY <1>1, <1>4, <1>7

LEMMA DottedPlain ==
  ASSUME NEW p \in Seq(OneWord)
  PROVE  Dotted(p) = WordsOf(p) /\ Dotted(p) \in Seq(Words)
<1> DEFINE P == {s \in Seq(OneWord) : Dotted(s) = WordsOf(s) /\ WordsOf(s) \in Seq(Words)}
<1>1. <<>> \in P
  <2>1. <<>> \in Seq(OneWord) /\ Len(<<>>) = 0 /\ <<>> \in Seq(Words)
    BY EmptySeq
  <2>2. WordsOf(<<>>) = <<>>
    BY <2>1 DEF WordsOf
  <2> QED BY <2>1, <2>2 DEF Dotted, FlattenSeq
<1>2. ASSUME NEW s \in Seq(OneWord), NEW x \in OneWord, s \in P
      PROVE  Append(s, x) \in P
  <2> DEFINE n == Len(s)
             t == Append(s, x)
             w == WordsOf(s)
  <2>1. t \in Seq(OneWord) /\ Len(t) = n + 1 /\ t[n + 1] = x /\ n \in Nat
        /\ \A i \in 1..n : t[i] = s[i]
    BY AppendProperties, LenProperties
  <2>2. x \in Seq(Words) /\ x = <<x[1]>> /\ x[1] \in Words
    BY KeyOfOneWord
  <2>3. Dotted(t) = Dotted(s) \o x
    <3>1. OneWord \subseteq Seq(Words)
      BY DEF OneWord
    <3>2. s \in Seq(Seq(Words))
      BY <3>1, SeqMonotonic
    <3> QED BY <2>2, <3>2, FlattenAppend DEF Dotted
  <2>4. w \in Seq(Words) /\ Dotted(s) = w /\ Len(w) = n
    BY <1>2, <2>1 DEF WordsOf
  <2>5. w \o <<x[1]>> = Append(w, x[1])
    BY <2>2, <2>4, AppendIsConcat
  <2>6. Append(w, x[1]) = WordsOf(t)
    <3> DEFINE u == Append(w, x[1])
    <3>1. /\ u \in Seq(Words) /\ Len(u) = n + 1 /\ u[n + 1] = x[1]
          /\ \A i \in 1..n : u[i] = w[i]
      BY <2>2, <2>4, AppendProperties
    <3>2. \A i \in 1..n : w[i] = s[i][1]
      BY DEF WordsOf
    <3>3. \A i \in 1..(n + 1) : i \in 1..n \/ i = n + 1
      BY <2>1
    <3>4. u = [i \in 1..(n + 1) |-> u[i]]
      <4> HIDE DEF u
      <4> QED BY <3>1, LenProperties
    <3> HIDE DEF u, t, n, w
    <3>5. \A i \in 1..(n + 1) : u[i] = t[i][1]
      BY <2>1, <3>1, <3>2, <3>3
    <3>6. u = WordsOf(t)
      BY <2>1, <3>4, <3>5 DEF WordsOf
    <3> QED BY <3>6 DEF u
  <2>7. Append(w, x[1]) \in Seq(Words)
    BY <2>2, <2>4, AppendProperties
  <2> HIDE DEF w, t
  <2> QED BY <2>1, <2>2, <2>3, <2>4, <2>5, <2>6, <2>7 DEF t
<1>3. \A s \in Seq(OneWord) : s \in P
  <2> HIDE DEF P
  <2> QED BY <1>1, <1>2, SequenceInduction
<1> QED BY <1>3

(* A plain path asked for by its words is found: what is looked up is the  *)
(* tree at and below it.                                                   *)
AtAndBelow(t, p) == [q \in {q \in DOMAIN t : IsPrefix(p, q)} |-> t[q]]

LEMMA LookupPlain ==
  ASSUME NEW p \in Seq(Keys), Plain(p), NEW t
  PROVE  LookupPath(t, Dotted(p)) = AtAndBelow(t, p)
<1> DEFINE n == Len(p)
<1>1. p \in Seq(Keys) /\ n \in Nat /\ DOMAIN p = 1..n /\ p = [i \in 1..n |-> p[i]]
  BY LenProperties
<1>2. \A i \in 1..n : p[i] \in OneWord
  BY <1>1 DEF Plain, OneWord
<1>3. p \in Seq(OneWord)
  <2> HIDE DEF n
  <2>1. p \in [1..n -> OneWord]
    BY <1>1, <1>2
  <2>2. p \in UNION {[1..k -> OneWord] : k \in Nat}
    BY <1>1, <2>1
  <2>3. Seq(OneWord) = UNION {[1..k -> OneWord] : k \in Nat}
    BY SeqDef
  <2> QED BY <2>2, <2>3
<1>4. \A i \in 1..n : p[i] = <<p[i][1]>>
  BY <1>2, KeyOfOneWord
<1>5. Dotted(p) = WordsOf(p) /\ DOMAIN WordsOf(p) = 1..n
  BY <1>3, DottedPlain DEF WordsOf
<1>6. [i \in DOMAIN Dotted(p) |-> <<Dotted(p)[i]>>] = p
  <2>1. \A i \in 1..n : <<WordsOf(p)[i]>> = p[i]
    BY <1>4 DEF WordsOf
  <2> HIDE DEF n
  <2> QED BY <1>1, <1>5, <2>1
<1> QED BY <1>6 DEF LookupPath, AtAndBelow

-----------------------------------------------------------------------------
(* Conversions keep the shape of a tree.                                   *)
LEMMA SameLeaves ==
  ASSUME TypeOK
  PROVE  /\ Leaves(As(config, Native)) = Leaves(config)
         /\ Leaves(As(config, Received)) = Leaves(config)
<1>1. Mapping.kind = "map" /\ \A x : Scalar(x).kind = "scalar" /\ List(x).kind = "list"
  BY DEF Mapping, Scalar, List
<1>2. \A p \in DOMAIN config : \/ config[p] = Mapping
                               \/ config[p].kind = "scalar" \/ config[p].kind = "list"
  BY DEF TypeOK, IsNode
<1>3. \A p \in DOMAIN config :
        /\ As(config, Native)[p] = Mapping <=> config[p] = Mapping
        /\ As(config, Received)[p] = Mapping <=> config[p] = Mapping
  BY <1>1, <1>2 DEF As
<1> QED BY <1>3 DEF Leaves, As

(* The provenance of a leaf is below it, and nothing else is.              *)
LEMMA ProvenanceKeys ==
  ASSUME EngineInv, NEW q \in Leaves(explain), NEW k \in {LayerKey, SourceKey}
  PROVE  /\ Append(q, k) \notin DOMAIN explain
         /\ Front(Append(q, k)) = q /\ Last(Append(q, k)) = k
         /\ IsPrefix(q, q) /\ IsPrefix(q, Append(q, k))
<1>1. q \in Seq(Keys) \ {<<>>} /\ q \in DOMAIN explain /\ explain[q] # Mapping
  BY DEF EngineInv, MergeInv, Trees, Paths, ExplainMirrors, Leaves
<1>2. /\ q \in Above(Append(q, k)) /\ Front(Append(q, k)) = q
      /\ IsPrefix(q, q) /\ IsPrefix(q, Append(q, k))
  BY <1>1, OneKeyDeeper
<1>3. Append(q, k) \notin DOMAIN explain
  BY <1>1, <1>2 DEF EngineInv, TypeOK, IsTree
<1>4. Last(Append(q, k)) = k
  <2> DEFINE T == Keys \cup {k}
  <2>1. q \in Seq(T) /\ k \in T
    BY <1>1, SeqMonotonic
  <2>2. Len(Append(q, k)) = Len(q) + 1 /\ Append(q, k)[Len(q) + 1] = k
    BY <2>1, AppendProperties
  <2> QED BY <2>2 DEF Last
<1> QED BY <1>2, <1>3, <1>4

LEMMA ProvenanceOf ==
  ASSUME EngineInv, NEW q \in Leaves(explain), NEW keys
  PROVE  /\ Append(q, LayerKey) \in DOMAIN Provenances(explain, keys)
         /\ Append(q, SourceKey) \in DOMAIN Provenances(explain, keys)
         /\ Provenances(explain, keys)[Append(q, LayerKey)] =
              Scalar([type |-> "string", of |-> explain[q].value])
         /\ Provenances(explain, keys)[Append(q, SourceKey)] =
              Source(explain[q].value, keys)
<1>1. LayerKey # SourceKey
  BY DEF LayerKey, SourceKey
<1>2. ASSUME NEW k \in {LayerKey, SourceKey}
      PROVE  /\ Append(q, k) \in DOMAIN Provenances(explain, keys)
             /\ Append(q, k) \notin DOMAIN explain
             /\ Front(Append(q, k)) = q /\ Last(Append(q, k)) = k
  BY ProvenanceKeys DEF Provenances
<1> QED BY <1>1, <1>2 DEF Provenances

(* A leaf of the explain has its layer in either form of it, there and in  *)
(* what is looked up by the leaf's own path.                               *)
LEMMA LeafProvenance ==
  ASSUME EngineInv, NEW p \in Leaves(config),
         NEW e \in {explain, Provenances(explain, Sorted)}
  PROVE  /\ AsProvenance(e, p) = By(LastSetter(p))
         /\ AsProvenance(AtAndBelow(e, p), p) = By(LastSetter(p))
<1> DEFINE n == LastSetter(p)
           layer == Append(p, LayerKey)
           source == Append(p, SourceKey)
           below == AtAndBelow(e, p)
<1>1. p \in Leaves(explain) /\ p \in DOMAIN explain
  BY DEF EngineInv, MergeInv, ExplainMirrors, Leaves
<1>2. explain[p] = Origin(n)
  BY DEF EngineInv, ExplainNamesLastSetter, LastSetter
<1>3. IsPrefix(p, p) /\ IsPrefix(p, layer) /\ IsPrefix(p, source)
  BY <1>1, ProvenanceKeys
<1>4. /\ Mapping.kind = "map" /\ Origin(n).kind = "layer" /\ Origin(n).value = n
      /\ \A x : Scalar(x).kind = "scalar" /\ Scalar(x).value = x
      /\ Source(n, Sorted).kind = "source" /\ Source(n, Sorted).value = n
  BY DEF Mapping, Origin, Scalar, Source
<1>5. \A q \in DOMAIN e : IsPrefix(p, q) => q \in DOMAIN below /\ below[q] = e[q]
  BY DEF AtAndBelow
<1>6. CASE e = explain
  <2>1. p \in DOMAIN below /\ below[p] = e[p]
    BY <1>1, <1>3, <1>5, <1>6
  <2> QED BY <1>1, <1>2, <1>4, <1>6, <2>1 DEF AsProvenance
<1>7. CASE e = Provenances(explain, Sorted)
  <2>1. /\ layer \in DOMAIN e /\ source \in DOMAIN e /\ p \in DOMAIN e
        /\ e[layer] = Scalar([type |-> "string", of |-> n])
        /\ e[source] = Source(n, Sorted)
        /\ e[p] = Mapping
    <3>1. p \in DOMAIN e /\ e[p] = Mapping
      BY <1>1, <1>7 DEF Provenances
    <3> QED BY <1>1, <1>2, <1>4, <1>7, <3>1, ProvenanceOf
  <2>2. /\ layer \in DOMAIN below /\ below[layer] = e[layer]
        /\ source \in DOMAIN below /\ below[source] = e[source]
        /\ p \in DOMAIN below /\ below[p] = e[p]
    BY <1>3, <1>5, <2>1
  <2>3. ASSUME NEW t \in {e, below}
        PROVE  AsProvenance(t, p) = By(n)
    <3>1. /\ t[p].kind # "layer"
          /\ layer \in DOMAIN t /\ t[layer].kind = "scalar" /\ t[layer].value.of = n
          /\ source \in DOMAIN t /\ t[source].kind = "source" /\ t[source].value = n
      <4> HIDE DEF n, layer, source, below
      <4> QED BY <1>4, <2>1, <2>2
    <3> QED BY <3>1 DEF AsProvenance, By
  <2> QED BY <2>3
<1> QED BY <1>6, <1>7

(* Whichever way a Recipe is consulted, locally or remotely, annotated or  *)
(* by a key without dots, a value is attributed to the layer that set it   *)
(* last, and to the source of that layer.                                  *)
THEOREM ViewsNameLastSetter == Spec => []EveryViewNamesLastSetter
<1>1. EngineInv => EveryViewNamesLastSetter
  <2> SUFFICES ASSUME EngineInv, NEW r \in Results, NEW p \in Leaves(config)
               PROVE  /\ FormatAnnotated(r)[p].by = By(LastSetter(p))
                      /\ Plain(p) => AsProvenance(LookupPath(r.explain, Dotted(p)), p)
                                       = By(LastSetter(p))
    BY DEF EveryViewNamesLastSetter
  <2>1. r \in {LocalResult, RemoteResult}
    BY DEF Results
  <2>2. p \in Leaves(r.config) /\ r.explain \in {explain, Provenances(explain, Sorted)}
    BY <2>1, SameLeaves DEF LocalResult, RemoteResult, EngineInv
  <2>3. FormatAnnotated(r)[p].by = By(LastSetter(p))
    BY <2>2, LeafProvenance DEF FormatAnnotated
  <2>4. p \in Seq(Keys)
    BY DEF EngineInv, MergeInv, Trees, Paths, Leaves
  <2>5. ASSUME Plain(p)
        PROVE  AsProvenance(LookupPath(r.explain, Dotted(p)), p) = By(LastSetter(p))
    BY <2>2, <2>4, <2>5, LookupPlain, LeafProvenance
  <2> QED BY <2>3, <2>5
<1> QED BY <1>1, EngineInvHolds, PTL

-----------------------------------------------------------------------------
(* What JSON does to a portable value does not show when it is printed.    *)
LEMMA PortablePrints ==
  ASSUME ValuesAssumption, NEW x \in Scalars \cup Items, Portable(x)
  PROVE  Printed(Native(x)) = Printed(Received(x))
<1>1. TypeOf[x] \in {"int", "float", "string", "other"} /\ x \notin Large
  BY DEF ValuesAssumption, Portable
<1> QED BY <1>1 DEF Printed, Native, Received

LEMMA PortableConfigPrints ==
  ASSUME ValuesAssumption, TypeOK, AllPortable
  PROVE  Yaml(As(config, Native)) = Yaml(As(config, Received))
<1> DEFINE c == As(config, Native)
           d == As(config, Received)
<1>1. Mapping.kind = "map" /\ \A x : /\ Scalar(x).kind = "scalar" /\ Scalar(x).value = x
                                    /\ List(x).kind = "list" /\ List(x).value = x
  BY DEF Mapping, Scalar, List
<1>2. ASSUME NEW p \in DOMAIN config
      PROVE  Yaml(c)[p] = Yaml(d)[p]
  <2> DEFINE v == config[p]
  <2>1. CASE v.kind = "scalar"
    <3>1. v.value \in Scalars /\ Portable(v.value)
      BY <1>1, <2>1 DEF TypeOK, IsNode, AllPortable, HasAnyOf
    <3>2. c[p] = Scalar(Native(v.value)) /\ d[p] = Scalar(Received(v.value))
      BY <2>1 DEF As
    <3>3. /\ Yaml(c)[p] = Scalar(Printed(Native(v.value)))
          /\ Yaml(d)[p] = Scalar(Printed(Received(v.value)))
      BY <1>1, <3>2 DEF Yaml, As
    <3> QED BY <3>1, <3>3, PortablePrints
  <2>2. CASE v.kind = "list"
    <3> DEFINE s == v.value
               a == [i \in DOMAIN s |-> Native(s[i])]
               b == [i \in DOMAIN s |-> Received(s[i])]
    <3>1. s \in Seq(Items) /\ \A x \in Range(s) : Portable(x)
      <4>1. s \in Seq(Items)
        BY <1>1, <2>2 DEF TypeOK, IsNode
      <4>2. Range(s) \subseteq Items
        BY <4>1 DEF Range
      <4> QED BY <2>2, <4>1, <4>2 DEF AllPortable, HasAnyOf
    <3>2. c[p] = List(a) /\ d[p] = List(b)
      BY <2>2 DEF As
    <3>3. /\ Yaml(c)[p] = List([i \in DOMAIN a |-> Printed(a[i])])
          /\ Yaml(d)[p] = List([i \in DOMAIN b |-> Printed(b[i])])
      <4>1. /\ p \in DOMAIN c /\ c[p].kind = "list" /\ c[p].value = a
            /\ p \in DOMAIN d /\ d[p].kind = "list" /\ d[p].value = b
        <5>1. p \in DOMAIN c /\ p \in DOMAIN d
          BY DEF As
        <5> HIDE DEF a, b, c, d
        <5> QED BY <1>1, <3>2, <5>1
      <4> HIDE DEF a, b, c, d
      <4>2. /\ Yaml(c)[p] = List([i \in DOMAIN c[p].value |-> Printed(c[p].value[i])])
            /\ Yaml(d)[p] = List([i \in DOMAIN d[p].value |-> Printed(d[p].value[i])])
        BY <4>1 DEF Yaml, As
      <4> QED BY <4>1, <4>2
    <3>4. \A i \in DOMAIN s : s[i] \in Items /\ Portable(s[i])
      BY <3>1 DEF Range
    <3>5. \A i \in DOMAIN s : Printed(a[i]) = Printed(b[i])
      BY <3>4, PortablePrints
    <3>6. DOMAIN a = DOMAIN s /\ DOMAIN b = DOMAIN s
      OBVIOUS
    <3> HIDE DEF a, b, s, c, d
    <3> QED BY <3>3, <3>5, <3>6
  <2>3. CASE v.kind # "scalar" /\ v.kind # "list"
    <3>1. v = Mapping
      BY <2>3 DEF TypeOK, IsNode
    <3>2. c[p] = Mapping /\ d[p] = Mapping
      BY <2>3, <3>1 DEF As
    <3> QED BY <1>1, <3>2 DEF Yaml, As
  <2> QED BY <2>1, <2>2, <2>3
<1>3. /\ Yaml(c) = [p \in DOMAIN config |-> Yaml(c)[p]]
      /\ Yaml(d) = [p \in DOMAIN config |-> Yaml(d)[p]]
  BY DEF Yaml, As
<1> HIDE DEF c, d
<1>4. Yaml(c) = Yaml(d)
  BY <1>2, <1>3
<1> QED BY <1>4 DEF c, d

-----------------------------------------------------------------------------
(* A path that the tree has is not below one of its leaves: of the layers  *)
(* that the provenances of a tree name, those at and below the path are    *)
(* the provenances of what is at and below it.                             *)
LEMMA NoPathBelowLeaf ==
  ASSUME EngineInv, NEW p \in DOMAIN explain \cup {<<>>},
         NEW q \in Leaves(explain), NEW k \in {LayerKey, SourceKey}
  PROVE  IsPrefix(p, Append(q, k)) <=> IsPrefix(p, q)
<1> DEFINE T == Keys \cup {k}
           n == Len(q)
           m == Len(p)
           r == Append(q, k)
<1>1. p \in Seq(Keys) /\ q \in Seq(Keys)
  <2>1. \A x \in DOMAIN explain : x \in Seq(Keys)
    BY DEF EngineInv, MergeInv, Trees, Paths, ExplainMirrors
  <2>2. <<>> \in Seq(Keys)
    BY EmptySeq
  <2> QED BY <2>1, <2>2 DEF Leaves
<1>2. q \in Seq(T) /\ p \in Seq(T) /\ k \in T /\ n \in Nat /\ m \in Nat
  BY <1>1, SeqMonotonic, LenProperties
<1>3. r \in Seq(T) /\ Len(r) = n + 1 /\ \A i \in 1..n : r[i] = q[i]
  BY <1>2, AppendProperties
<1>4. CASE m <= n
  <2>1. SubSeq(r, 1, m) = SubSeq(q, 1, m)
    <3>1. /\ SubSeq(r, 1, m) = [i \in 1..m |-> r[i]]
          /\ SubSeq(q, 1, m) = [i \in 1..m |-> q[i]]
      BY <1>2, <1>3, <1>4
    <3>2. \A i \in 1..m : i \in 1..n
      BY <1>2, <1>4
    <3> QED BY <1>3, <3>1, <3>2
  <2> QED BY <1>2, <1>3, <1>4, <2>1 DEF IsPrefix
<1>5. CASE m = n + 1
  <2>1. SubSeq(r, 1, m) = r /\ SubSeq(p, 1, m) = p
    <3> HIDE DEF T, r
    <3> QED BY <1>2, <1>3, <1>5
  <2>2. p # r
    <3>1. p # <<>>
      <4>1. Len(<<>>) = 0
        BY EmptySeq
      <4> QED BY <1>2, <1>5, <4>1
    <3> QED BY <3>1, ProvenanceKeys
  <2>3. ~IsPrefix(p, r)
    BY <2>1, <2>2 DEF IsPrefix
  <2>4. ~IsPrefix(p, q)
    BY <1>2, <1>5 DEF IsPrefix
  <2> QED BY <2>3, <2>4
<1>6. CASE m > n + 1
  BY <1>2, <1>3, <1>6 DEF IsPrefix
<1> QED BY <1>2, <1>4, <1>5, <1>6

LEMMA ProvenancesBelow ==
  ASSUME EngineInv, NEW p \in DOMAIN explain \cup {<<>>}, NEW keys
  PROVE  AtAndBelow(Provenances(explain, keys), p)
           = Provenances(AtAndBelow(explain, p), keys)
<1> DEFINE e == explain
           b == AtAndBelow(e, p)
           all == Provenances(e, keys)
           some == Provenances(b, keys)
           K == {LayerKey, SourceKey}
<1>1. /\ DOMAIN b = {q \in DOMAIN e : IsPrefix(p, q)}
      /\ \A q \in DOMAIN b : b[q] = e[q]
      /\ Leaves(b) = {q \in Leaves(e) : IsPrefix(p, q)}
  BY DEF AtAndBelow, Leaves
<1>2. \A q \in Leaves(e) : \A k \in K :
        /\ Append(q, k) \notin DOMAIN e /\ Front(Append(q, k)) = q
        /\ IsPrefix(p, Append(q, k)) <=> IsPrefix(p, q)
  BY ProvenanceKeys, NoPathBelowLeaf
<1>3. DOMAIN AtAndBelow(all, p) = DOMAIN some
  <2>1. ASSUME NEW x
        PROVE  x \in DOMAIN AtAndBelow(all, p) <=>
                 /\ x \in DOMAIN e \/ \E l \in Leaves(e), k \in K : x = Append(l, k)
                 /\ IsPrefix(p, x)
    BY DEF AtAndBelow, Provenances
  <2>2. ASSUME NEW x
        PROVE  x \in DOMAIN some <=>
                 x \in DOMAIN b \/ \E l \in Leaves(b), k \in K : x = Append(l, k)
    BY DEF Provenances
  <2> HIDE DEF K, b, e, all, some
  <2>3. ASSUME NEW x
        PROVE  x \in DOMAIN AtAndBelow(all, p) <=> x \in DOMAIN some
    <3>1. \A l \in Leaves(e) : l \in Leaves(b) <=> IsPrefix(p, l)
      BY <1>1
    <3>2. \A l \in Leaves(b) : l \in Leaves(e)
      BY <1>1
    <3>3. (\E l \in Leaves(e), k \in K : x = Append(l, k)) /\ IsPrefix(p, x)
            <=> \E l \in Leaves(b), k \in K : x = Append(l, k)
      <4>1. ASSUME NEW l \in Leaves(e), NEW k \in K, x = Append(l, k), IsPrefix(p, x)
            PROVE  l \in Leaves(b)
        BY <1>2, <3>1, <4>1
      <4>2. ASSUME NEW l \in Leaves(b), NEW k \in K, x = Append(l, k)
            PROVE  l \in Leaves(e) /\ IsPrefix(p, x)
        <5>1. l \in Leaves(e) /\ IsPrefix(p, l)
          BY <3>1, <3>2
        <5> QED BY <1>2, <4>2, <5>1
      <4> QED BY <4>1, <4>2, Zenon
    <3>4. x \in DOMAIN e /\ IsPrefix(p, x) <=> x \in DOMAIN b
      BY <1>1
    <3> QED BY <2>1, <2>2, <3>3, <3>4, Zenon
  <2> QED BY <2>3
<1>4. ASSUME NEW q \in DOMAIN some
      PROVE  AtAndBelow(all, p)[q] = some[q]
  <2>1. q \in DOMAIN all /\ AtAndBelow(all, p)[q] = all[q]
    BY <1>3 DEF AtAndBelow
  <2>2. CASE q \in DOMAIN b
    BY <1>1, <2>1, <2>2 DEF Provenances
  <2>3. CASE q \notin DOMAIN b
    <3>1. PICK l \in Leaves(b), k \in K : q = Append(l, k)
      BY <2>3 DEF Provenances
    <3>2. l \in Leaves(e) /\ Front(q) = l /\ q \notin DOMAIN e /\ b[l] = e[l]
      BY <1>1, <1>2, <3>1 DEF Leaves
    <3> QED BY <2>1, <2>3, <3>2 DEF Provenances
  <2> QED BY <2>2, <2>3
<1>5. ASSUME NEW t
      PROVE  Provenances(t, keys) = [q \in DOMAIN Provenances(t, keys) |-> Provenances(t, keys)[q]]
  BY DEF Provenances
<1>6. ASSUME NEW t
      PROVE  AtAndBelow(t, p) = [q \in DOMAIN AtAndBelow(t, p) |-> AtAndBelow(t, p)[q]]
  BY DEF AtAndBelow
<1>7. /\ some = [q \in DOMAIN some |-> some[q]]
      /\ AtAndBelow(all, p) = [q \in DOMAIN AtAndBelow(all, p) |-> AtAndBelow(all, p)[q]]
  <2>1. some = [q \in DOMAIN some |-> some[q]]
    <3> HIDE DEF b
    <3> QED BY <1>5
  <2>2. AtAndBelow(all, p) = [q \in DOMAIN AtAndBelow(all, p) |-> AtAndBelow(all, p)[q]]
    <3> HIDE DEF all
    <3> QED BY <1>6
  <2> QED BY <2>1, <2>2
<1>8. AtAndBelow(all, p) = some
  <2> HIDE DEF all, some
  <2> QED BY <1>3, <1>4, <1>7
<1> QED BY <1>8

(* Without leaves there are no provenances.                                *)
LEMMA NoLeaves ==
  ASSUME NEW e, Leaves(e) = {}, NEW keys
  PROVE  Provenances(e, keys) = [q \in DOMAIN e |-> Mapping]
<1> DEFINE K == {Append(q, k) : q \in Leaves(e), k \in {LayerKey, SourceKey}}
<1>1. K = {}
  OBVIOUS
<1>2. DOMAIN e \cup K = DOMAIN e
  <2> HIDE DEF K
  <2> QED BY <1>1
<1> QED BY <1>2 DEF Provenances

(* What the tree e, a part of an explain, looks like in YAML: locally, and *)
(* after it was JSON.                                                      *)
LEMMA ExplainYamlIsProvenances ==
  ASSUME NEW e, e = [q \in DOMAIN e |-> e[q]], \A q \in DOMAIN e : e[q] \in Origins
  PROVE  /\ ExplainYaml(e) = Provenances(e, Declared)
         /\ ExplainYaml(Provenances(e, Sorted)) = Provenances(e, Sorted)
<1>1. /\ Mapping.kind = "map"
      /\ \A x, keys : /\ Scalar(x).kind = "scalar" /\ Origin(x).kind = "layer"
                      /\ Source(x, keys).kind = "source"
  BY DEF Mapping, Scalar, Origin, Source
<1>2. ASSUME \E q \in DOMAIN e : e[q].kind = "layer"
      PROVE  ExplainYaml(e) = Provenances(e, Declared)
  BY <1>2 DEF ExplainYaml
<1>3. ASSUME ~ \E q \in DOMAIN e : e[q].kind = "layer"
      PROVE  ExplainYaml(e) = Provenances(e, Declared)
  <2>1. \A q \in DOMAIN e : e[q] = Mapping
    BY <1>1, <1>3 DEF Origins
  <2>2. Leaves(e) = {}
    BY <2>1 DEF Leaves
  <2>3. Provenances(e, Declared) = [q \in DOMAIN e |-> Mapping]
    BY <2>2, NoLeaves
  <2>4. Provenances(e, Declared) = e
    BY <2>1, <2>3
  <2> QED BY <1>3, <2>4 DEF ExplainYaml
<1>4. \A q \in DOMAIN Provenances(e, Sorted) : Provenances(e, Sorted)[q].kind # "layer"
  BY <1>1 DEF Provenances
<1> QED BY <1>2, <1>3, <1>4 DEF ExplainYaml

(* But for the order of the keys of a source, provenances are the same.    *)
LEMMA SameUnordered ==
  ASSUME NEW e
  PROVE  Unordered(Provenances(e, Declared)) = Unordered(Provenances(e, Sorted))
<1> DEFINE d == Provenances(e, Declared)
           s == Provenances(e, Sorted)
<1>1. Range(Declared) = Range(Sorted)
  BY DEF Range, Declared, Sorted
<1>2. /\ Mapping.kind = "map"
      /\ \A x, keys : /\ Scalar(x).kind = "scalar"
                      /\ Source(x, keys).kind = "source"
                      /\ Source(x, keys).value = x /\ Source(x, keys).keys = keys
  BY DEF Mapping, Scalar, Source
<1>3. DOMAIN d = DOMAIN s
  BY DEF Provenances
<1>4. ASSUME NEW p \in DOMAIN d
      PROVE  Unordered(d)[p] = Unordered(s)[p]
  <2>1. \/ d[p] = s[p] /\ d[p].kind # "source"
        \/ \E x : d[p] = Source(x, Declared) /\ s[p] = Source(x, Sorted)
    BY <1>2, <1>3 DEF Provenances
  <2>2. Unordered(d)[p] = (IF d[p].kind = "source"
                           THEN Source(d[p].value, Range(d[p].keys)) ELSE d[p])
    BY DEF Unordered
  <2>3. Unordered(s)[p] = (IF s[p].kind = "source"
                           THEN Source(s[p].value, Range(s[p].keys)) ELSE s[p])
    BY <1>3 DEF Unordered
  <2> HIDE DEF d, s
  <2> QED BY <1>1, <1>2, <2>1, <2>2, <2>3
<1>5. /\ Unordered(d) = [p \in DOMAIN d |-> Unordered(d)[p]]
      /\ Unordered(s) = [p \in DOMAIN s |-> Unordered(s)[p]]
  BY DEF Unordered
<1> HIDE DEF d, s
<1>6. Unordered(d) = Unordered(s)
  BY <1>3, <1>4, <1>5
<1> QED BY <1>6 DEF d, s

(* A config of portable values is printed alike from both sides.  So is    *)
(* its explain, whole or by any key without dots that the config has, but  *)
(* for the order of the keys of a source: as text the two differ exactly   *)
(* if what is asked for has a leaf.                                        *)
THEOREM PortableIsSameYaml == Spec => []SameYamlIfPortable
<1>1. EngineInv => SameYamlIfPortable
  <2> DEFINE here(p) == ExplainYaml(LookupPath(LocalResult.explain, Dotted(p)))
             there(p) == ExplainYaml(LookupPath(RemoteResult.explain, Dotted(p)))
  <2> SUFFICES ASSUME EngineInv, AllPortable
               PROVE  /\ RemoteResult \in Results
                      /\ Yaml(LocalResult.config) = Yaml(RemoteResult.config)
                      /\ \A p \in DOMAIN config \cup {<<>>} :
                           Plain(p) =>
                             /\ Unordered(here(p)) = Unordered(there(p))
                             /\ here(p) = there(p)
                                  <=> ~ \E q \in Leaves(config) : IsPrefix(p, q)
    BY DEF SameYamlIfPortable
  <2>1. RemoteResult \in Results
    <3>1. ASSUME NEW p \in DOMAIN config
          PROVE  /\ config[p].kind = "scalar" => config[p].value \in Scalars
                 /\ config[p].kind = "list" => Range(config[p].value) \subseteq Items
      <4>1. Mapping.kind = "map"
        BY DEF Mapping
      <4>2. \A s \in Seq(Items) : Range(s) \subseteq Items
        BY DEF Range
      <4> QED BY <4>1, <4>2 DEF EngineInv, TypeOK, IsNode
    <3> QED BY <3>1 DEF Results, Encodable, AllPortable, HasAnyOf, Portable
  <2>2. Yaml(LocalResult.config) = Yaml(RemoteResult.config)
    BY ValuesAssumption, PortableConfigPrints DEF EngineInv, LocalResult, RemoteResult
  <2>3. ASSUME NEW p \in DOMAIN config \cup {<<>>}, Plain(p)
        PROVE  /\ Unordered(here(p)) = Unordered(there(p))
               /\ here(p) = there(p) <=> ~ \E q \in Leaves(config) : IsPrefix(p, q)
    <3> DEFINE b == AtAndBelow(explain, p)
    <3>1. p \in Seq(Keys) /\ p \in DOMAIN explain \cup {<<>>} /\ Leaves(config) = Leaves(explain)
      BY EmptySeq DEF EngineInv, MergeInv, Trees, ExplainMirrors, Paths
    <3>2. /\ LookupPath(LocalResult.explain, Dotted(p)) = b
          /\ LookupPath(RemoteResult.explain, Dotted(p))
               = AtAndBelow(Provenances(explain, Sorted), p)
      BY <2>3, <3>1, LookupPlain DEF LocalResult, RemoteResult
    <3>3. /\ b = [q \in DOMAIN b |-> b[q]]
          /\ \A q \in DOMAIN b : b[q] \in Origins
      BY DEF AtAndBelow, EngineInv, TypeOK
    <3>4. here(p) = Provenances(b, Declared) /\ there(p) = Provenances(b, Sorted)
      <4>1. AtAndBelow(Provenances(explain, Sorted), p) = Provenances(b, Sorted)
        BY <3>1, ProvenancesBelow
      <4>2. ExplainYaml(b) = Provenances(b, Declared)
            /\ ExplainYaml(Provenances(b, Sorted)) = Provenances(b, Sorted)
        <5> HIDE DEF b
        <5> QED BY <3>3, ExplainYamlIsProvenances
      <4> QED BY <3>2, <4>1, <4>2
    <3>5. Unordered(here(p)) = Unordered(there(p))
      <4> HIDE DEF b, here, there
      <4> QED BY <3>4, SameUnordered
    <3>6. ASSUME NEW q \in Leaves(explain), IsPrefix(p, q)
          PROVE  here(p) # there(p)
      <4> DEFINE r == Append(q, SourceKey)
                 all(keys) == Provenances(explain, keys)
      <4>1. \A keys : /\ r \in DOMAIN all(keys)
                      /\ all(keys)[r] = Source(explain[q].value, keys)
        BY ProvenanceOf
      <4>2. IsPrefix(p, r)
        BY <3>1, <3>6, NoPathBelowLeaf
      <4>3. \A keys : AtAndBelow(all(keys), p)[r] = all(keys)[r]
        BY <4>1, <4>2 DEF AtAndBelow
      <4>4. \A keys : AtAndBelow(all(keys), p) = Provenances(b, keys)
        BY <3>1, ProvenancesBelow
      <4>5. \A keys : Provenances(b, keys)[r] = Source(explain[q].value, keys)
        <5> HIDE DEF b, r, all
        <5> QED BY <4>1, <4>3, <4>4
      <4>6. Source(explain[q].value, Declared) # Source(explain[q].value, Sorted)
        BY DEF Source, Declared, Sorted
      <4> HIDE DEF b, here, there, r
      <4> QED BY <3>4, <4>5, <4>6
    <3>7. ASSUME ~ \E q \in Leaves(explain) : IsPrefix(p, q)
          PROVE  here(p) = there(p)
      <4>1. Leaves(b) = {}
        BY <3>7 DEF AtAndBelow, Leaves
      <4> HIDE DEF b, here, there
      <4> QED BY <3>4, <4>1, NoLeaves
    <3> HIDE DEF here, there
    <3> QED BY <3>1, <3>5, <3>6, <3>7
  <2> HIDE DEF here, there
  <2> QED BY <2>1, <2>2, <2>3
<1> QED BY <1>1, EngineInvHolds, PTL
=============================================================================

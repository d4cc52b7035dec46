--------------------------- MODULE InductionBySets ---------------------------
(***************************************************************************)
(* Induction and recursion over the natural numbers, stated with sets in   *)
(* place of predicates and functions in place of operators, so that they   *)
(* can be instantiated by any prover; and from them what FlattenSeq of     *)
(* the community modules computes.                                         *)
(***************************************************************************)
EXTENDS Integers, SequencesExt, FiniteSetTheorems, SequenceTheorems, TLAPS

(* A nonempty set of natural numbers has a least element: the intervals    *)
(* below its elements are finite sets, ordered by inclusion.               *)
LEMMA LeastElement ==
  ASSUME NEW T, T \subseteq Nat, T # {}
  PROVE  \E x \in T : \A y \in T : x <= y
<1> DEFINE R == StrictSubsetOrdering(Nat)
           Down(x) == 0..x
           D == {Down(x) : x \in T}
<1>1. IsWellFoundedOn(R, FiniteSubsetsOf(Nat))
  BY FS_StrictSubsetOrderingWellFounded
<1>2. \A x \in Nat : Down(x) \in FiniteSubsetsOf(Nat)
  BY FS_Interval DEF FiniteSubsetsOf
<1>3. D \subseteq FiniteSubsetsOf(Nat) /\ D # {}
  BY <1>2
<1> HIDE DEF R, D
<1>4. PICK d \in D : \A e \in D : ~ (<<e, d>> \in R)
  BY <1>1, <1>3, WFMin
<1>5. PICK x \in T : d = Down(x)
  BY DEF D
<1>6. ASSUME NEW y \in T, y < x PROVE FALSE
  <2>1. Down(y) \in D /\ Down(y) \subseteq Nat /\ d \subseteq Nat
    BY <1>5 DEF D
  <2>2. Down(y) \subseteq d /\ x \in d /\ x \notin Down(y)
    BY <1>5, <1>6
  <2>3. <<Down(y), d>> \in R
    BY <2>1, <2>2 DEF R, StrictSubsetOrdering
  <2> QED BY <1>4, <2>1, <2>3
<1> QED BY <1>6

(* Induction: a set with 0 and with the successors of its elements has all *)
(* of the natural numbers.                                                 *)
THEOREM SetInduction ==
  ASSUME NEW P, 0 \in P, \A n \in Nat : n \in P => n + 1 \in P
  PROVE  \A n \in Nat : n \in P
<1>1. SUFFICES ASSUME Nat \ P # {} PROVE FALSE
  OBVIOUS
<1>2. PICK x \in Nat \ P : \A y \in Nat \ P : x <= y
  BY <1>1, LeastElement
<1>3. x - 1 \in Nat /\ x - 1 \in P
  BY <1>2
<1> QED BY <1>2, <1>3

(* A nonempty set of indices has a greatest one.                           *)
LEMMA GreatestElement ==
  ASSUME NEW n \in Nat, NEW T, T \subseteq 1..n, T # {}
  PROVE  Max(T) \in T /\ \A j \in T : j <= Max(T)
<1> DEFINE U == {k \in Nat : k <= n /\ n - k \in T}
<1>1. PICK i \in T : TRUE
  OBVIOUS
<1>2. n - i \in U /\ U \subseteq Nat
  BY <1>1
<1>3. PICK k \in U : \A j \in U : k <= j
  <2> HIDE DEF U
  <2> QED BY <1>2, LeastElement
<1>4. n - k \in T
  OBVIOUS
<1>5. ASSUME NEW j \in T PROVE n - k >= j
  <2>1. n - j \in U
    OBVIOUS
  <2> QED BY <1>3, <2>1
<1>6. \E x \in T : \A j \in T : x >= j
  BY <1>4, <1>5
<1>7. Max(T) \in T /\ \A j \in T : Max(T) >= j
  BY <1>6 DEF Max
<1> QED BY <1>7

(* Induction on sequences, from their ends.                                *)
LEMMA SequenceInduction ==
  ASSUME NEW S, NEW P, <<>> \in P,
         \A s \in Seq(S), x \in S : s \in P => Append(s, x) \in P
  PROVE  \A s \in Seq(S) : s \in P
<1> DEFINE Q == {n \in Nat : \A s \in Seq(S) : Len(s) = n => s \in P}
<1>1. 0 \in Q
  BY EmptySeq
<1>2. ASSUME NEW n \in Nat, n \in Q PROVE n + 1 \in Q
  <2> SUFFICES ASSUME NEW s \in Seq(S), Len(s) = n + 1 PROVE s \in P
    OBVIOUS
  <2>1. s # <<>>
    BY EmptySeq
  <2>2. PICK t \in Seq(S), x \in S : s = Append(t, x)
    BY <2>1, SequenceEmptyOrAppend
  <2>3. Len(t) = n
    BY <2>2, AppendProperties, LenProperties
  <2> QED BY <1>2, <2>2, <2>3
<1>3. \A n \in Nat : n \in Q
  <2> HIDE DEF Q
  <2> QED BY <1>1, <1>2, SetInduction
<1> QED BY <1>3, LenProperties

(* f is the sequence of values that G yields, step by step, from v0.       *)
Iterates(f, N, V, v0, G) ==
  /\ f \in [0..N -> V]
  /\ f[0] = v0
  /\ \A n \in 1..N : f[n] = G[n][f[n - 1]]

(* Recursion: there is such a function.                                    *)
LEMMA IteratesExist ==
  ASSUME NEW N \in Nat, NEW V, NEW v0 \in V, NEW G \in [1..N -> [V -> V]]
  PROVE  \E f : Iterates(f, N, V, v0, G)
<1> DEFINE P == {k \in Nat : k <= N => \E f : Iterates(f, k, V, v0, G)}
<1>1. 0 \in P
  <2>1. Iterates([n \in 0..0 |-> v0], 0, V, v0, G)
    BY DEF Iterates
  <2> QED BY <2>1
<1>2. ASSUME NEW k \in Nat, k \in P PROVE k + 1 \in P
  <2> SUFFICES ASSUME k + 1 <= N PROVE \E f : Iterates(f, k + 1, V, v0, G)
    OBVIOUS
  <2>1. PICK f : Iterates(f, k, V, v0, G)
    BY <1>2
  <2> DEFINE g == [n \in 0..(k + 1) |-> IF n = k + 1 THEN G[k + 1][f[k]] ELSE f[n]]
  <2>2. f[k] \in V /\ G[k + 1] \in [V -> V]
    BY <2>1 DEF Iterates
  <2>3. g \in [0..(k + 1) -> V]
    BY <2>1, <2>2 DEF Iterates
  <2>4. g[0] = v0
    BY <2>1 DEF Iterates
  <2>5. ASSUME NEW n \in 1..(k + 1) PROVE g[n] = G[n][g[n - 1]]
    BY <2>1 DEF Iterates
  <2> HIDE DEF g
  <2> QED BY <2>3, <2>4, <2>5 DEF Iterates
<1> HIDE DEF P
<1>3. N \in P
  BY <1>1, <1>2, SetInduction
<1> QED BY <1>3 DEF P

(* Two such functions agree as far as both go.                             *)
LEMMA IteratesAgree ==
  ASSUME NEW N \in Nat, NEW M \in Nat, N <= M, NEW V, NEW v0, NEW G, NEW H, NEW f, NEW g,
         Iterates(f, N, V, v0, G), Iterates(g, M, V, v0, H),
         \A n \in 1..N : G[n] = H[n]
  PROVE  \A n \in 0..N : f[n] = g[n]
<1> DEFINE P == {n \in Nat : n <= N => f[n] = g[n]}
<1>1. 0 \in P
  BY DEF Iterates
<1>2. ASSUME NEW n \in Nat, n \in P PROVE n + 1 \in P
  <2> SUFFICES ASSUME n + 1 <= N PROVE f[n + 1] = g[n + 1]
    OBVIOUS
  <2>1. n + 1 \in 1..N /\ n + 1 \in 1..M /\ (n + 1) - 1 = n
    OBVIOUS
  <2>2. f[n + 1] = G[n + 1][f[n]] /\ g[n + 1] = H[n + 1][g[n]]
    BY <2>1 DEF Iterates
  <2> QED BY <1>2, <2>1, <2>2
<1>3. \A n \in Nat : n \in P
  <2> HIDE DEF P
  <2> QED BY <1>1, <1>2, SetInduction
<1> QED BY <1>3

-----------------------------------------------------------------------------
(* FlattenSeq, step by step: the concatenation of the first n sequences.   *)
Flattening(ss, S, f) ==
  /\ f \in [0..Len(ss) -> Seq(S)]
  /\ f[0] = <<>>
  /\ \A n \in 1..Len(ss) : f[n] = f[n - 1] \o ss[n]

Concats(ss, S) == [n \in 1..Len(ss) |-> [v \in Seq(S) |-> v \o ss[n]]]

LEMMA FlatteningIterates ==
  ASSUME NEW S, NEW ss \in Seq(Seq(S))
  PROVE  /\ Len(ss) \in Nat
         /\ \A n \in 1..Len(ss) : ss[n] \in Seq(S)
         /\ Concats(ss, S) \in [1..Len(ss) -> [Seq(S) -> Seq(S)]]
         /\ \A f : Flattening(ss, S, f) <=> Iterates(f, Len(ss), Seq(S), <<>>, Concats(ss, S))
<1> DEFINE N == Len(ss)
           T == Seq(S)
<1>1. N \in Nat /\ \A n \in 1..N : ss[n] \in T
  BY LenProperties, ElementOfSeq
<1>2. \A n \in 1..N : \A v \in T : v \o ss[n] \in T
  BY <1>1, ConcatProperties
<1>3. Concats(ss, S) \in [1..N -> [T -> T]]
  <2> HIDE DEF N, T
  <2> QED BY <1>2 DEF Concats, N, T
<1>4. ASSUME NEW f, f \in [0..N -> T]
      PROVE  \A n \in 1..N : Concats(ss, S)[n][f[n - 1]] = f[n - 1] \o ss[n]
  <2>1. \A n \in 1..N : f[n - 1] \in T
    <3> HIDE DEF N, T
    <3> QED BY <1>1, <1>4
  <2> QED BY <2>1 DEF Concats
<1> QED BY <1>1, <1>3, <1>4 DEF Flattening, Iterates

LEMMA FlattenSeqIterates ==
  ASSUME NEW S, NEW ss \in Seq(Seq(S))
  PROVE  \E f : Flattening(ss, S, f) /\ FlattenSeq(ss) = f[Len(ss)]
<1> DEFINE N == Len(ss)
           T == Seq(S)
<1>1. N \in Nat /\ \A n \in 1..N : ss[n] \in T
  BY FlatteningIterates
<1>2. \A n \in 1..N : <<>> \o ss[n] = ss[n]
  BY <1>1, ConcatEmptySeq
<1>3. PICK f : Flattening(ss, S, f)
  <2>1. <<>> \in T
    BY EmptySeq
  <2>2. \E f : Iterates(f, N, T, <<>>, Concats(ss, S))
    BY <1>1, <2>1, FlatteningIterates, IteratesExist
  <2> QED BY <2>2, FlatteningIterates
<1>4. CASE N = 0
  <2>1. ss = <<>>
    BY <1>4, EmptySeq
  <2>2. FlattenSeq(ss) = f[N]
    BY <1>3, <1>4, <2>1 DEF FlattenSeq, Flattening
  <2> QED BY <1>3, <2>2
<1>5. CASE N # 0
  <2> DEFINE Step(g) == [i \in 1..N |-> IF i = 1 THEN ss[i] ELSE g[i - 1] \o ss[i]]
             h == CHOOSE g : g = Step(g)
             e == [i \in 1..N |-> f[i]]
  <2>1. f[0] = <<>> /\ \A i \in 1..N : f[i] = f[i - 1] \o ss[i]
    BY <1>3 DEF Flattening
  <2>2. f[1] = ss[1]
    <3>1. 1 \in 1..N /\ 1 - 1 = 0
      BY <1>1, <1>5
    <3>2. f[1] = f[1 - 1] \o ss[1]
      BY <2>1, <3>1
    <3> QED BY <1>2, <2>1, <3>1, <3>2
  <2>3. e = Step(e)
    <3>1. \A i \in 1..N : i # 1 => i - 1 \in 1..N
      BY <1>1
    <3>2. \A i \in 1..N : e[i] = IF i = 1 THEN ss[i] ELSE e[i - 1] \o ss[i]
      BY <2>1, <2>2, <3>1
    <3> QED BY <3>2
  <2>4. h = Step(h)
    BY <2>3
  <2>5. FlattenSeq(ss) = h[N]
    BY <1>5 DEF FlattenSeq
  <2> HIDE DEF h
  <2>6. \A i \in 1..N : h[i] = IF i = 1 THEN ss[i] ELSE h[i - 1] \o ss[i]
    BY <2>4
  <2> DEFINE P == {i \in Nat : i \in 1..N => h[i] = f[i]}
  <2>7. 0 \in P
    OBVIOUS
  <2>8. ASSUME NEW i \in Nat, i \in P PROVE i + 1 \in P
    <3> SUFFICES ASSUME i + 1 \in 1..N PROVE h[i + 1] = f[i + 1]
      OBVIOUS
    <3>1. f[i + 1] = f[i] \o ss[i + 1]
      <4>1. (i + 1) - 1 = i
        OBVIOUS
      <4>2. f[i + 1] = f[(i + 1) - 1] \o ss[i + 1]
        BY <2>1
      <4> QED BY <4>1, <4>2
    <3>2. CASE i = 0
      BY <2>2, <2>6, <3>2
    <3>3. CASE i # 0
      <4>1. i \in 1..N /\ (i + 1) - 1 = i /\ i + 1 # 1
        BY <1>1, <3>3
      <4>2. h[i] = f[i]
        BY <2>8, <4>1
      <4>3. h[i + 1] = h[(i + 1) - 1] \o ss[i + 1]
        BY <2>6, <4>1
      <4> QED BY <3>1, <4>1, <4>2, <4>3
    <3> QED BY <3>2, <3>3
  <2>9. N \in P
    <3> HIDE DEF P
    <3> QED BY <1>1, <2>7, <2>8, SetInduction
  <2>10. FlattenSeq(ss) = f[N]
    BY <1>1, <1>5, <2>5, <2>9
  <2> QED BY <1>3, <2>10
<1> QED BY <1>4, <1>5

(* Flattening with one more sequence at the end appends that one.          *)
LEMMA FlattenAppend ==
  ASSUME NEW S, NEW ss \in Seq(Seq(S)), NEW s \in Seq(S)
  PROVE  /\ FlattenSeq(ss) \in Seq(S)
         /\ FlattenSeq(<<>>) = <<>>
         /\ FlattenSeq(Append(ss, s)) = FlattenSeq(ss) \o s
<1> DEFINE N == Len(ss)
           tt == Append(ss, s)
<1>0. N \in Nat
  BY LenProperties
<1>1. /\ tt \in Seq(Seq(S)) /\ Len(tt) = N + 1 /\ tt[N + 1] = s
      /\ \A n \in 1..N : tt[n] = ss[n]
  BY AppendProperties
<1> HIDE DEF tt
<1>2. PICK f : Flattening(ss, S, f) /\ FlattenSeq(ss) = f[N]
  BY FlattenSeqIterates
<1>3. PICK g : Flattening(tt, S, g) /\ FlattenSeq(tt) = g[N + 1]
  BY <1>1, FlattenSeqIterates
<1> DEFINE G == Concats(ss, S)
           H == Concats(tt, S)
<1>4. Iterates(f, N, Seq(S), <<>>, G) /\ Iterates(g, N + 1, Seq(S), <<>>, H)
  BY <1>1, <1>2, <1>3, FlatteningIterates
<1>5. \A n \in 1..N : G[n] = H[n]
  <2>1. \A n \in 1..N : n \in 1..(N + 1)
    BY <1>0
  <2> QED BY <1>1, <2>1 DEF Concats
<1> HIDE DEF G, H, N
<1>6. f[N] = g[N]
  BY <1>0, <1>4, <1>5, IteratesAgree
<1>7. g[N + 1] = g[N] \o s
  <2>1. N + 1 \in 1..(N + 1) /\ (N + 1) - 1 = N
    BY <1>0
  <2> QED BY <1>1, <1>3, <2>1 DEF Flattening
<1>8. f[N] \in Seq(S)
  BY <1>0, <1>2 DEF Flattening, N
<1>9. FlattenSeq(<<>>) = <<>>
  BY DEF FlattenSeq
<1> QED BY <1>2, <1>3, <1>6, <1>7, <1>8, <1>9 DEF tt
=============================================================================

---------------------------- MODULE FetcherProofs ----------------------------
(***************************************************************************)
(* What TLAPS proves of the fetcher for any number of repositories,        *)
(* branches, commits and concurrent calls: its type invariant, its safety  *)
(* invariants and that its clones only advance.                            *)
(*                                                                         *)
(* The argument: what a call has seen of the remote is as new as what its  *)
(* clone holds when it looks (everything stored was seen before), nobody   *)
(* else stores between its look and its store (the mutex), and a branch    *)
(* that is pushed to moves to a commit that nobody has seen.               *)
(***************************************************************************)
EXTENDS Fetcher, TLAPS

USE ReposAssumption, DefaultAssumption, MaxCommitsAssumption, RefsAssumption,
    CredsAssumption, FreeAssumption

(* A branch that is there is at one of its commits, and every commit has   *)
(* been made; the default branch is always there.                          *)
RemotesSound ==
  \A u \in Repos :
    /\ tip[u][Default] # 0
    /\ \A b \in Branches :
         /\ line[u][b] \subseteq 1..made[u]
         /\ tip[u][b] \in line[u][b] \cup {0}

(* A clone is whole or not there, and not ahead of its remote.             *)
ClonesBehind ==
  \A u \in Repos :
    /\ Cached(u) \/ clones[u] = NoClone
    /\ \A b \in Branches :
         /\ clones[u].tracking[b] <= made[u]
         /\ tip[u][b] # 0 => clones[u].tracking[b] <= tip[u][b]

(* What a call is about to store is not ahead of the remote, and not       *)
(* behind the clone.                                                       *)
SeenFits(c, u, b) ==
  LET t == seen[c].tips[b] IN
  /\ t <= made[u]
  /\ tip[u][b] # 0 => t <= tip[u][b]
  /\ t # 0 => clones[u].tracking[b] <= t

SeenSound ==
  \A c \in Calls :
    pc[c] = "storing" =>
      /\ seen[c].tips[Default] # 0
      /\ \A b \in Branches : SeenFits(c, src[c].repo, b)

(* At each place, a call that asks for a branch has at least what the      *)
(* branch was at when it began.                                            *)
BeganFits(c, u, b) ==
  /\ began[c] <= tip[u][b]
  /\ pc[c] = "storing" => began[c] <= seen[c].tips[b]
  /\ pc[c] = "resolving" => began[c] <= clones[u].tracking[b]
  /\ pc[c] \in {"loading", "done"} => began[c] <= hash[c]

BeganBehind ==
  \A c \in Calls :
    src[c].ref \in Branches => BeganFits(c, src[c].repo, src[c].ref)

(* The inductive invariant.                                                *)
FetcherInv ==
  /\ FetcherTypeOK
  /\ MutexHeldInRepo
  /\ RemotesSound
  /\ ClonesBehind
  /\ SeenSound
  /\ BeganBehind

-----------------------------------------------------------------------------
LEMMA InitFetcherInv == FetcherInit => FetcherInv
<1> SUFFICES ASSUME FetcherInit PROVE FetcherInv
  OBVIOUS
<1> USE DEF FetcherInit
<1>1. FetcherTypeOK
  BY DEF FetcherTypeOK, Clones, NoClone, Offers, NoOffer, NoSource, Sources,
         Refs, Commits
<1>2. MutexHeldInRepo
  BY DEF MutexHeldInRepo
<1>3. RemotesSound /\ ClonesBehind
  BY DEF RemotesSound, ClonesBehind, Cached, NoClone
<1>4. SeenSound
  BY DEF SeenSound
<1>5. BeganBehind
  BY DEF BeganBehind, NoSource
<1> QED BY <1>1, <1>2, <1>3, <1>4, <1>5 DEF FetcherInv

-----------------------------------------------------------------------------
(* The remotes.                                                            *)
LEMMA PushFetcherInv ==
  ASSUME FetcherInv, NEW u \in Repos, NEW b \in Branches, Push(u, b)
  PROVE  FetcherInv'
<1> DEFINE n == made[u] + 1
<1>1. /\ made' = [made EXCEPT ![u] = n]
      /\ tip' = [tip EXCEPT ![u][b] = n]
      /\ \/ line' = [line EXCEPT ![u][b] = @ \cup {n}]
         \/ line' = [line EXCEPT ![u][b] = {n}]
      /\ n \in Commits
      /\ UNCHANGED <<process, clones, mutex, calls, began>>
  BY DEF Push, FetcherInv, FetcherTypeOK, Commits
<1>2. \A v \in Repos : \A a \in Branches :
        IF v = u /\ a = b
        THEN /\ tip'[v][a] = n
             /\ line'[v][a] \in {line[v][a] \cup {n}, {n}}
        ELSE /\ tip'[v][a] = tip[v][a]
             /\ line'[v][a] = line[v][a]
  BY <1>1 DEF FetcherInv, FetcherTypeOK
<1>3. \A v \in Repos : made'[v] = IF v = u THEN n ELSE made[v]
  BY <1>1 DEF FetcherInv, FetcherTypeOK
<1>4. FetcherTypeOK'
  <2>1. tip' \in [Repos -> [Branches -> Commits \cup {0}]]
    BY <1>1 DEF FetcherInv, FetcherTypeOK
  <2>2. line' \in [Repos -> [Branches -> SUBSET Commits]]
    <3>1. line[u][b] \cup {n} \in SUBSET Commits /\ {n} \in SUBSET Commits
      BY <1>1 DEF FetcherInv, FetcherTypeOK
    <3>2. ASSUME NEW x \in SUBSET Commits, line' = [line EXCEPT ![u][b] = x]
          PROVE  line' \in [Repos -> [Branches -> SUBSET Commits]]
      BY <3>2 DEF FetcherInv, FetcherTypeOK
    <3>3. \/ line' = [line EXCEPT ![u][b] = line[u][b] \cup {n}]
          \/ line' = [line EXCEPT ![u][b] = {n}]
      BY <1>1 DEF FetcherInv, FetcherTypeOK
    <3> QED BY <3>1, <3>2, <3>3
  <2> QED BY <2>1, <2>2, <1>1 DEF FetcherInv, FetcherTypeOK, calls
<1>5. MutexHeldInRepo'
  BY <1>1 DEF FetcherInv, MutexHeldInRepo, Cached, calls
<1>6. n = made[u] + 1 /\ made \in [Repos -> Nat] /\ n \in Nat
  BY DEF FetcherInv, FetcherTypeOK, Commits
<1> HIDE DEF n
<1>7. RemotesSound'
  BY <1>2, <1>3, <1>6 DEF FetcherInv, RemotesSound
<1>8. ASSUME NEW v \in Repos, NEW a \in Branches
      PROVE  /\ tip[v][a] \in Nat /\ tip[v][a] <= made[v]
             /\ tip[v][a] <= tip'[v][a]
             /\ clones[v].tracking[a] \in Nat
             /\ made'[v] >= made[v]
  BY <1>2, <1>3, <1>6
  DEF FetcherInv, FetcherTypeOK, RemotesSound, Clones, Commits
<1>9. ClonesBehind'
  BY <1>1, <1>2, <1>3, <1>6, <1>8 DEF FetcherInv, ClonesBehind, Cached
<1>10. ASSUME NEW c \in Calls
       PROVE  src[c].repo \in Repos /\ \A a \in Branches : seen[c].tips[a] \in Nat
  BY DEF FetcherInv, FetcherTypeOK, Sources, Offers, Commits
<1>11. SeenSound'
  BY <1>1, <1>2, <1>3, <1>6, <1>8, <1>10 DEF FetcherInv, SeenSound, SeenFits, calls
<1>12. BeganBehind'
  <2>1. \A c \in Calls : began[c] \in Nat
    BY DEF FetcherInv, FetcherTypeOK, Commits
  <2>2. \A v \in Repos : \A a \in Branches :
          tip[v][a] \in Nat /\ tip'[v][a] \in Nat /\ tip[v][a] <= tip'[v][a]
    BY <1>2, <1>6, <1>8
  <2> QED BY <2>1, <2>2, <1>1, <1>10 DEF FetcherInv, BeganBehind, BeganFits, calls
<1> QED BY <1>4, <1>5, <1>7, <1>9, <1>11, <1>12 DEF FetcherInv

LEMMA DeleteBranchFetcherInv ==
  ASSUME FetcherInv, NEW u \in Repos, NEW b \in Branches, DeleteBranch(u, b)
  PROVE  FetcherInv'
<1> USE DEF FetcherInv, DeleteBranch
<1>1. \A v \in Repos : \A a \in Branches :
        \/ v = u /\ a = b /\ tip'[v][a] = 0 /\ line'[v][a] = {}
        \/ /\ <<v, a>> # <<u, b>>
           /\ tip'[v][a] = tip[v][a]
           /\ line'[v][a] = line[v][a]
  BY DEF FetcherTypeOK
<1>2. FetcherTypeOK'
  BY DEF FetcherTypeOK, calls
<1>3. MutexHeldInRepo'
  BY DEF MutexHeldInRepo, Cached, calls
<1>4. RemotesSound'
  BY <1>1 DEF RemotesSound
<1>5. ClonesBehind'
  BY <1>1 DEF ClonesBehind, Cached
<1>6. SeenSound'
  BY <1>1 DEF FetcherTypeOK, SeenSound, SeenFits, Sources, calls
<1>7. ASSUME NEW c \in Calls, src[c].ref \in Branches
      PROVE  BeganFits(c, src[c].repo, src[c].ref)'
  <2>1. src[c] = [repo |-> src[c].repo, ref |-> src[c].ref] /\ src[c].repo \in Repos
    BY DEF FetcherTypeOK, Sources
  <2>2. CASE src[c].repo = u /\ src[c].ref = b
    <3>1. began'[c] = 0
      BY <2>1, <2>2
    <3>2. /\ tip'[u][b] = 0
          /\ clones[u].tracking[b] \in Nat
          /\ seen[c].tips[b] \in Nat
          /\ hash[c] \in Nat
      BY <1>1 DEF FetcherTypeOK, Clones, Offers, Commits
    <3> QED BY <3>1, <3>2, <2>2 DEF BeganFits, calls
  <2>3. CASE ~(src[c].repo = u /\ src[c].ref = b)
    <3>1. began'[c] = began[c]
      BY <2>1, <2>3
    <3> QED BY <3>1, <2>3, <1>1, <1>7, <2>1 DEF BeganBehind, BeganFits, calls
  <2> QED BY <2>2, <2>3
<1>8. BeganBehind'
  BY <1>7 DEF BeganBehind, calls
<1> QED BY <1>2, <1>3, <1>4, <1>5, <1>6, <1>8

-----------------------------------------------------------------------------
(* The steps of a call outside of Store change nothing but the call.       *)
LEMMA CallFetcherInv ==
  ASSUME FetcherInv, NEW c \in Calls, NEW s \in Sources, Call(c, s)
  PROVE  FetcherInv'
<1> USE DEF FetcherInv, Call
<1>1. TipOf(s) \in Commits \cup {0}
  BY DEF TipOf, FetcherTypeOK, Sources
<1>2. FetcherTypeOK'
  BY <1>1 DEF FetcherTypeOK, remotes
<1>3. MutexHeldInRepo'
  BY DEF FetcherTypeOK, MutexHeldInRepo, Cached
<1>4. RemotesSound' /\ ClonesBehind'
  BY DEF RemotesSound, ClonesBehind, Cached, remotes
<1>5. SeenSound'
  BY DEF FetcherTypeOK, SeenSound, SeenFits, remotes
<1>6. BeganBehind'
  <2> SUFFICES ASSUME NEW d \in Calls, src'[d].ref \in Branches
               PROVE  BeganFits(d, src[d].repo, src[d].ref)'
    BY DEF BeganBehind
  <2>1. CASE d = c
    <3>1. /\ src'[c] = s /\ began'[c] = tip[s.repo][s.ref]
          /\ pc'[c] \in {"waiting", "failed"}
          /\ tip[s.repo][s.ref] \in Nat
      BY <2>1 DEF FetcherTypeOK, TipOf, Sources, Commits
    <3> QED BY <2>1, <3>1 DEF BeganFits, remotes
  <2>2. CASE d # c
    <3>1. src'[d] = src[d] /\ began'[d] = began[d] /\ pc'[d] = pc[d]
      BY <2>2 DEF FetcherTypeOK
    <3> QED BY <3>1 DEF BeganBehind, BeganFits, remotes
  <2> QED BY <2>1, <2>2
<1> QED BY <1>2, <1>3, <1>4, <1>5, <1>6

LEMMA LockFetcherInv ==
  ASSUME FetcherInv, NEW c \in Calls, Lock(c)
  PROVE  FetcherInv'
<1> USE DEF FetcherInv, Lock
<1>1. FetcherTypeOK'
  BY DEF FetcherTypeOK, remotes
<1>2. MutexHeldInRepo'
  BY DEF FetcherTypeOK, MutexHeldInRepo
<1>3. RemotesSound' /\ ClonesBehind'
  BY DEF RemotesSound, ClonesBehind, Cached, remotes
<1>4. SeenSound'
  BY DEF FetcherTypeOK, SeenSound, SeenFits, remotes
<1>5. BeganBehind'
  BY DEF FetcherTypeOK, BeganBehind, BeganFits, remotes
<1> QED BY <1>1, <1>2, <1>3, <1>4, <1>5

LEMMA FailLockedFetcherInv ==
  ASSUME FetcherInv, NEW c \in Calls, FailLocked(c),
         pc[c] \in {"authenticating", "connecting", "storing"}
  PROVE  FetcherInv'
<1> USE DEF FetcherInv, FailLocked, ForgetLocals
<1>1. FetcherTypeOK'
  BY DEF FetcherTypeOK, remotes, Offers, NoOffer
<1>2. MutexHeldInRepo'
  BY DEF FetcherTypeOK, MutexHeldInRepo
<1>3. RemotesSound' /\ ClonesBehind'
  BY DEF RemotesSound, ClonesBehind, Cached, remotes
<1>4. SeenSound'
  BY DEF FetcherTypeOK, SeenSound, SeenFits, remotes
<1>5. BeganBehind'
  BY DEF FetcherTypeOK, BeganBehind, BeganFits, remotes
<1> QED BY <1>1, <1>2, <1>3, <1>4, <1>5

LEMMA LookupAuthFetcherInv ==
  ASSUME FetcherInv, NEW c \in Calls, NEW a \in Creds \cup {BadCred}, LookupAuth(c, a)
  PROVE  FetcherInv'
<1>1. CASE a = BadCred
  BY <1>1, FailLockedFetcherInv DEF LookupAuth
<1>2. CASE a # BadCred
  <2> USE DEF FetcherInv
  <2>0. /\ a \in Creds /\ pc[c] = "authenticating"
        /\ cred' = [cred EXCEPT ![c] = a]
        /\ pc' = [pc EXCEPT ![c] = "connecting"]
        /\ UNCHANGED <<remotes, process, clones, mutex, src, seen, hash, began>>
    BY <1>2 DEF LookupAuth
  <2> USE <2>0
  <2>1. FetcherTypeOK'
    BY DEF FetcherTypeOK, remotes
  <2>2. MutexHeldInRepo'
    BY DEF FetcherTypeOK, MutexHeldInRepo
  <2>3. RemotesSound' /\ ClonesBehind'
    BY DEF RemotesSound, ClonesBehind, Cached, remotes
  <2>4. SeenSound'
    BY DEF FetcherTypeOK, SeenSound, SeenFits, remotes
  <2>5. BeganBehind'
    BY DEF FetcherTypeOK, BeganBehind, BeganFits, remotes
  <2> QED BY <2>1, <2>2, <2>3, <2>4, <2>5
<1> QED BY <1>1, <1>2

LEMMA AdvertiseFetcherInv ==
  ASSUME FetcherInv, NEW c \in Calls, Advertise(c)
  PROVE  FetcherInv'
<1> DEFINE u == src[c].repo
           o == UNION {line[u][b] : b \in Branches}
<1> USE DEF FetcherInv
<1>1. /\ u \in Repos /\ pc[c] = "connecting"
      /\ seen' = [seen EXCEPT ![c] = [tips |-> tip[u], objects |-> o]]
      /\ pc' = [pc EXCEPT ![c] = "storing"]
      /\ UNCHANGED <<remotes, process, clones, mutex, src, cred, hash, began>>
  BY DEF Advertise, FetcherTypeOK, Sources
<1>2. o \in SUBSET Commits
  BY <1>1 DEF FetcherTypeOK
<1> HIDE DEF o, u
<1>4. FetcherTypeOK'
  <2>1. [tips |-> tip[u], objects |-> o] \in Offers
    BY <1>1, <1>2 DEF FetcherTypeOK, Offers
  <2> QED BY <1>1, <2>1 DEF FetcherTypeOK, remotes
<1>5. MutexHeldInRepo'
  BY <1>1 DEF FetcherTypeOK, MutexHeldInRepo
<1>6. RemotesSound' /\ ClonesBehind'
  BY <1>1 DEF RemotesSound, ClonesBehind, Cached, remotes
<1>7. /\ seen'[c].tips = tip[u] /\ seen'[c].objects = o /\ pc'[c] = "storing"
      /\ u = src'[c].repo
      /\ \A d \in Calls \ {c} : seen'[d] = seen[d] /\ pc'[d] = pc[d]
  BY <1>1 DEF FetcherTypeOK, u
<1>8. SeenSound'
  <2> SUFFICES ASSUME NEW d \in Calls, pc'[d] = "storing"
               PROVE  /\ seen'[d].tips[Default] # 0
                      /\ \A b \in Branches : SeenFits(d, src[d].repo, b)'
    BY DEF SeenSound
  <2>1. CASE d = c
    <3>1. tip[u][Default] # 0
      BY <1>1 DEF RemotesSound
    <3>2. ASSUME NEW b \in Branches
          PROVE  /\ tip[u][b] <= made[u]
                 /\ tip[u][b] <= tip[u][b]
                 /\ tip[u][b] # 0 => clones[u].tracking[b] <= tip[u][b]
      BY <1>1 DEF FetcherTypeOK, RemotesSound, ClonesBehind, Commits
    <3> QED BY <2>1, <3>1, <3>2, <1>1, <1>7 DEF SeenFits, remotes
  <2>2. CASE d # c
    BY <2>2, <1>1, <1>7 DEF SeenSound, SeenFits, remotes
  <2> QED BY <2>1, <2>2
<1>9. BeganBehind'
  <2> SUFFICES ASSUME NEW d \in Calls, src'[d].ref \in Branches
               PROVE  BeganFits(d, src[d].repo, src[d].ref)'
    BY DEF BeganBehind
  <2>1. BeganFits(d, src[d].repo, src[d].ref)
    BY <1>1 DEF BeganBehind
  <2>2. CASE d = c
    BY <2>1, <2>2, <1>1, <1>7 DEF BeganFits, remotes
  <2>3. CASE d # c
    BY <2>1, <2>3, <1>1, <1>7 DEF BeganFits, remotes
  <2> QED BY <2>2, <2>3
<1> QED BY <1>4, <1>5, <1>6, <1>8, <1>9

LEMMA NumbersOfAClone ==
  ASSUME NEW cl \in Clones, NEW b \in Branches
  PROVE  cl.tracking[b] \in Nat
BY DEF Clones, Commits

LEMMA NumbersOfAnOffer ==
  ASSUME NEW o \in Offers, NEW b \in Branches
  PROVE  o.tips[b] \in Nat
BY DEF Offers, Commits

(* What a store does to the clone: what was offered is in it, and nothing  *)
(* that it had goes back.                                                  *)
LEMMA StoreEffect ==
  ASSUME FetcherInv, NEW c \in Calls, Store(c), NEW u \in Repos, u = src[c].repo
  PROVE  /\ clones' \in [Repos -> Clones]
         /\ \A v \in Repos \ {u} : clones'[v] = clones[v]
         /\ clones'[u].head = IF Cached(u) THEN clones[u].head
                              ELSE seen[c].tips[Default]
         /\ clones[u].objects \cup seen[c].objects \subseteq clones'[u].objects
         /\ \A b \in Branches :
              /\ clones'[u].tracking[b] \in {seen[c].tips[b], clones[u].tracking[b]}
              /\ clones'[u].tracking[b] >= clones[u].tracking[b]
              /\ clones'[u].tracking[b] >= seen[c].tips[b]
<1> DEFINE o == seen[c]
           x == IF Cached(u) THEN Fetched(clones[u], o) ELSE FreshClone(o)
<1>1. /\ clones' = [clones EXCEPT ![u] = x]
      /\ pc[c] = "storing"
      /\ clones \in [Repos -> Clones]
      /\ clones[u] \in Clones /\ o \in Offers
  BY DEF Store, FetcherInv, FetcherTypeOK
<1>2. \A b \in Branches : SeenFits(c, u, b)
  BY <1>1 DEF FetcherInv, SeenSound
<1>3. CASE Cached(u)
  <2>1. x = Fetched(clones[u], o)
    BY <1>3
  <2>2. x \in Clones
    <3>1. [b \in Branches |-> IF o.tips[b] # 0 THEN o.tips[b] ELSE clones[u].tracking[b]]
            \in [Branches -> Commits \cup {0}]
      BY <1>1 DEF Clones, Offers
    <3>2. /\ clones[u].head \in Commits \cup {0}
          /\ clones[u].objects \cup o.objects \in SUBSET Commits
      BY <1>1 DEF Clones, Offers
    <3> QED BY <2>1, <3>1, <3>2 DEF Fetched, Clones
  <2>3. /\ x.head = clones[u].head
        /\ x.objects = clones[u].objects \cup o.objects
        /\ \A b \in Branches :
             x.tracking[b] = IF o.tips[b] # 0 THEN o.tips[b] ELSE clones[u].tracking[b]
    BY <2>1 DEF Fetched
  <2>4. \A b \in Branches : o.tips[b] \in Nat /\ clones[u].tracking[b] \in Nat
    BY <1>1, NumbersOfAnOffer, NumbersOfAClone
  <2> HIDE DEF x
  <2> QED BY <2>2, <2>3, <2>4, <1>1, <1>2, <1>3 DEF SeenFits
<1>4. CASE ~Cached(u)
  <2>1. x = FreshClone(o)
    BY <1>4
  <2>2. x \in Clones
    BY <2>1, <1>1 DEF FreshClone, Clones, Offers
  <2>3. /\ x.head = o.tips[Default] /\ x.objects = o.objects /\ x.tracking = o.tips
    BY <2>1 DEF FreshClone
  <2>4. clones[u] = NoClone
    BY <1>4 DEF FetcherInv, ClonesBehind
  <2>5. \A b \in Branches : o.tips[b] \in Nat /\ clones[u].tracking[b] = 0
    BY <1>1, <2>4, NumbersOfAnOffer DEF NoClone
  <2>6. clones[u].objects = {}
    BY <2>4 DEF NoClone
  <2> HIDE DEF x
  <2> QED BY <2>2, <2>3, <2>5, <2>6, <1>1, <1>2, <1>4 DEF SeenFits
<1> QED BY <1>3, <1>4

LEMMA StoreFetcherInv ==
  ASSUME FetcherInv, NEW c \in Calls, Store(c)
  PROVE  FetcherInv'
<1> DEFINE u == src[c].repo
<1> USE DEF FetcherInv
<1>1. /\ u \in Repos /\ pc[c] = "storing" /\ mutex' = Free
      /\ pc' = [pc EXCEPT ![c] = "resolving"]
      /\ cred' = [cred EXCEPT ![c] = NoCred]
      /\ seen' = [seen EXCEPT ![c] = NoOffer]
      /\ UNCHANGED <<remotes, process, src, hash, began>>
  BY DEF Store, ForgetLocals, FetcherTypeOK, Sources
<1>2. /\ clones' \in [Repos -> Clones]
      /\ \A v \in Repos \ {u} : clones'[v] = clones[v]
      /\ clones'[u].head = IF Cached(u) THEN clones[u].head ELSE seen[c].tips[Default]
      /\ clones[u].objects \cup seen[c].objects \subseteq clones'[u].objects
      /\ \A b \in Branches :
           /\ clones'[u].tracking[b] \in {seen[c].tips[b], clones[u].tracking[b]}
           /\ clones'[u].tracking[b] >= clones[u].tracking[b]
           /\ clones'[u].tracking[b] >= seen[c].tips[b]
  BY <1>1, StoreEffect
<1>3. seen[c].tips[Default] # 0 /\ \A b \in Branches : SeenFits(c, u, b)
  BY <1>1 DEF SeenSound
<1>4. \A d \in Calls \ {c} :
        /\ pc[d] # "storing" /\ pc'[d] = pc[d] /\ seen'[d] = seen[d]
  BY <1>1 DEF FetcherTypeOK, MutexHeldInRepo
<1>5. FetcherTypeOK'
  BY <1>1, <1>2 DEF FetcherTypeOK, remotes, Offers, NoOffer
<1>6. MutexHeldInRepo'
  BY <1>1 DEF FetcherTypeOK, MutexHeldInRepo
<1>8. RemotesSound'
  BY <1>1 DEF RemotesSound, remotes
<1>9. ClonesBehind'
  <2> SUFFICES ASSUME NEW v \in Repos
               PROVE  /\ Cached(v)' \/ clones'[v] = NoClone
                      /\ \A b \in Branches :
                           /\ clones'[v].tracking[b] <= made[v]
                           /\ tip[v][b] # 0 => clones'[v].tracking[b] <= tip[v][b]
    BY <1>1 DEF ClonesBehind, remotes
  <2>1. CASE v = u
    <3>1. Cached(v)'
      BY <2>1, <1>2, <1>3 DEF Cached
    <3> QED BY <2>1, <3>1, <1>2, <1>3 DEF ClonesBehind, SeenFits
  <2>2. CASE v # u
    BY <2>2, <1>2 DEF ClonesBehind, Cached
  <2> QED BY <2>1, <2>2
<1>10. SeenSound'
  BY <1>1, <1>4 DEF SeenSound, FetcherTypeOK
<1>11. BeganBehind'
  <2> SUFFICES ASSUME NEW d \in Calls, src[d].ref \in Branches
               PROVE  BeganFits(d, src[d].repo, src[d].ref)'
    BY <1>1 DEF BeganBehind
  <2> DEFINE v == src[d].repo
             b == src[d].ref
  <2>1. BeganFits(d, v, b) /\ v \in Repos
    BY DEF BeganBehind, FetcherTypeOK, Sources
  <2>2. CASE d = c
    <3>1. began[c] <= seen[c].tips[b] /\ clones'[u].tracking[b] >= seen[c].tips[b]
      BY <2>1, <2>2, <1>1, <1>2 DEF BeganFits
    <3>3. /\ began[c] \in Nat /\ seen[c].tips[b] \in Nat
          /\ clones'[u].tracking[b] \in Nat
      BY <1>1, <1>2, <2>2, NumbersOfAClone, NumbersOfAnOffer DEF FetcherTypeOK, Commits
    <3>2. pc'[c] = "resolving"
      BY <1>1 DEF FetcherTypeOK
    <3> QED BY <2>1, <2>2, <3>1, <3>2, <3>3, <1>1 DEF BeganFits, remotes
  <2>3. CASE d # c
    <3>0. /\ began[d] \in Nat /\ clones'[v].tracking[b] \in Nat
          /\ clones[v].tracking[b] \in Nat
      BY <2>1, <1>2, NumbersOfAClone DEF FetcherTypeOK, Commits
    <3>1. clones'[v].tracking[b] >= clones[v].tracking[b]
      BY <2>1, <3>0, <1>2
    <3> QED BY <2>1, <2>3, <3>0, <3>1, <1>1, <1>4 DEF BeganFits, remotes
  <2> QED BY <2>2, <2>3
<1> QED BY <1>5, <1>6, <1>8, <1>9, <1>10, <1>11

(* What a revision resolves to, if to anything, is a commit; a branch that *)
(* the clone tracks resolves to what it tracks.                            *)
LEMMA RevisionIsCommit ==
  ASSUME NEW cl \in Clones, NEW ref
  PROVE  /\ Revision(cl, ref) \in Commits \cup {0}
         /\ ref \in Branches => Revision(cl, ref) >= cl.tracking[ref]
<1>1. /\ cl.head \in Commits \cup {0} /\ cl.objects \subseteq Commits
      /\ \A b \in Branches : cl.tracking[b] \in Commits \cup {0}
  BY DEF Clones
<1>2. Revision(cl, ref) \in Commits \cup {0}
  BY <1>1 DEF Revision
<1>3. CASE ref \in Branches /\ cl.tracking[ref] # 0
  <2>1. Revision(cl, ref) = cl.tracking[ref]
    BY <1>3 DEF Revision
  <2> QED BY <2>1, <1>1, <1>2, <1>3 DEF Commits
<1>4. CASE ref \in Branches => cl.tracking[ref] = 0
  BY <1>2, <1>4 DEF Commits
<1> QED BY <1>3, <1>4

LEMMA ResolveRevisionFetcherInv ==
  ASSUME FetcherInv, NEW c \in Calls, ResolveRevision(c)
  PROVE  FetcherInv'
<1> USE DEF FetcherInv
<1> DEFINE h == Revision(clones[src[c].repo], src[c].ref)
<1>1. /\ pc[c] = "resolving"
      /\ hash' = [hash EXCEPT ![c] = h]
      /\ pc' = [pc EXCEPT ![c] = IF h = 0 THEN "failed" ELSE "loading"]
      /\ UNCHANGED <<remotes, process, clones, mutex, src, cred, seen, began>>
  BY DEF ResolveRevision
<1>2. /\ h \in Commits \cup {0}
      /\ src[c].ref \in Branches => h >= clones[src[c].repo].tracking[src[c].ref]
  BY RevisionIsCommit DEF FetcherTypeOK, Sources
<1> HIDE DEF h
<1>3. FetcherTypeOK'
  BY <1>1, <1>2 DEF FetcherTypeOK, remotes
<1>4. MutexHeldInRepo'
  BY <1>1 DEF FetcherTypeOK, MutexHeldInRepo
<1>5. RemotesSound' /\ ClonesBehind'
  BY <1>1 DEF RemotesSound, ClonesBehind, Cached, remotes
<1>6. SeenSound'
  BY <1>1 DEF FetcherTypeOK, SeenSound, SeenFits, remotes
<1>7. BeganBehind'
  <2> SUFFICES ASSUME NEW d \in Calls, src[d].ref \in Branches
               PROVE  BeganFits(d, src[d].repo, src[d].ref)'
    BY <1>1 DEF BeganBehind
  <2>1. BeganFits(d, src[d].repo, src[d].ref)
    BY DEF BeganBehind
  <2>2. CASE d = c
    <3>0. /\ clones[src[c].repo].tracking[src[c].ref] \in Nat
          /\ began[c] \in Nat /\ h \in Nat
      BY <1>2, <2>2, NumbersOfAClone DEF FetcherTypeOK, Sources, Commits
    <3>1. hash'[c] = h /\ pc'[c] \in {"failed", "loading"}
      BY <1>1, <1>2 DEF FetcherTypeOK
    <3> QED BY <2>1, <2>2, <3>0, <3>1, <1>1, <1>2 DEF BeganFits, remotes
  <2>3. CASE d # c
    BY <2>1, <2>3, <1>1 DEF FetcherTypeOK, BeganFits, remotes
  <2> QED BY <2>2, <2>3
<1> QED BY <1>3, <1>4, <1>5, <1>6, <1>7

LEMMA LoadFetcherInv ==
  ASSUME FetcherInv, NEW c \in Calls, Load(c)
  PROVE  FetcherInv'
<1> USE DEF FetcherInv
<1>1. /\ pc[c] = "loading"
      /\ \E p \in {"done", "failed"} : pc' = [pc EXCEPT ![c] = p]
      /\ UNCHANGED <<remotes, process, clones, mutex, src, cred, seen, hash, began>>
  BY DEF Load
<1>2. FetcherTypeOK'
  BY <1>1 DEF FetcherTypeOK, remotes
<1>3. MutexHeldInRepo'
  BY <1>1 DEF FetcherTypeOK, MutexHeldInRepo
<1>4. RemotesSound' /\ ClonesBehind'
  BY <1>1 DEF RemotesSound, ClonesBehind, Cached, remotes
<1>5. SeenSound'
  BY <1>1 DEF FetcherTypeOK, SeenSound, SeenFits, remotes
<1>6. BeganBehind'
  BY <1>1 DEF FetcherTypeOK, BeganBehind, BeganFits, remotes
<1> QED BY <1>2, <1>3, <1>4, <1>5, <1>6

LEMMA ReturnFetcherInv ==
  ASSUME FetcherInv, NEW c \in Calls, Return(c)
  PROVE  FetcherInv'
<1> USE DEF FetcherInv, Return
<1>1. NoSource \in Sources /\ NoSource.ref \notin Branches
  BY DEF NoSource, Sources, Refs
<1>2. FetcherTypeOK'
  BY <1>1 DEF FetcherTypeOK, remotes
<1>3. MutexHeldInRepo'
  BY DEF FetcherTypeOK, MutexHeldInRepo
<1>4. RemotesSound' /\ ClonesBehind'
  BY DEF RemotesSound, ClonesBehind, Cached, remotes
<1>5. SeenSound'
  BY DEF FetcherTypeOK, SeenSound, SeenFits, remotes
<1>6. BeganBehind'
  BY <1>1 DEF FetcherTypeOK, BeganBehind, BeganFits, remotes
<1> QED BY <1>2, <1>3, <1>4, <1>5, <1>6

-----------------------------------------------------------------------------
(* The process.                                                            *)
LEMMA LoseMemoryFetcherInv ==
  ASSUME FetcherInv, LoseMemory, process' \in {"stopped", "fatal"}
  PROVE  FetcherInv'
<1> USE DEF FetcherInv, LoseMemory
<1>1. NoSource \in Sources /\ NoSource.ref \notin Branches
  BY DEF NoSource, Sources, Refs
<1>2. FetcherTypeOK'
  BY <1>1 DEF FetcherTypeOK, remotes, Clones, NoClone, Offers, NoOffer
<1>3. MutexHeldInRepo'
  BY DEF MutexHeldInRepo
<1>5. RemotesSound'
  BY DEF RemotesSound, remotes
<1>6. ClonesBehind'
  BY DEF FetcherTypeOK, ClonesBehind, NoClone, remotes, Commits
<1>7. SeenSound' /\ BeganBehind'
  BY <1>1 DEF SeenSound, BeganBehind
<1> QED BY <1>2, <1>3, <1>5, <1>6, <1>7

LEMMA ProcessFetcherInv ==
  ASSUME FetcherInv, ProcessStep
  PROVE  FetcherInv'
<1>1. CASE Stop \/ RaceDetected
  BY <1>1, LoseMemoryFetcherInv DEF Stop, RaceDetected
<1>2. CASE Restart
  BY <1>2 DEF Restart, FetcherInv, FetcherTypeOK, MutexHeldInRepo,
              RemotesSound, ClonesBehind, SeenSound, SeenFits, BeganBehind, BeganFits,
              Cached, remotes, calls
<1> QED BY <1>1, <1>2 DEF ProcessStep

LEMMA NextFetcherInv == FetcherInv /\ [FetcherNext]_fetcherVars => FetcherInv'
<1> SUFFICES ASSUME FetcherInv, [FetcherNext]_fetcherVars PROVE FetcherInv'
  OBVIOUS
<1>1. CASE RemoteStep
  BY <1>1, PushFetcherInv, DeleteBranchFetcherInv DEF RemoteStep
<1>2. CASE ProcessStep
  BY <1>2, ProcessFetcherInv
<1>3. ASSUME NEW c \in Calls, NEW s \in Sources, Call(c, s) PROVE FetcherInv'
  BY <1>3, CallFetcherInv
<1>4. ASSUME NEW c \in Calls, Lock(c) \/ Return(c) PROVE FetcherInv'
  BY <1>4, LockFetcherInv, ReturnFetcherInv
<1>5. ASSUME NEW c \in Calls, Progress(c, Creds \cup {BadCred}) PROVE FetcherInv'
  <2>1. ASSUME NetworkFail(c) PROVE FetcherInv'
    BY <2>1, FailLockedFetcherInv DEF NetworkFail
  <2> QED BY <1>5, <2>1, LookupAuthFetcherInv, AdvertiseFetcherInv, StoreFetcherInv, ResolveRevisionFetcherInv,
             LoadFetcherInv DEF Progress
<1>6. CASE UNCHANGED fetcherVars
  BY <1>6 DEF fetcherVars, FetcherInv, FetcherTypeOK, MutexHeldInRepo,
              RemotesSound, ClonesBehind, SeenSound, SeenFits, BeganBehind, BeganFits,
              Cached
<1> QED BY <1>1, <1>2, <1>3, <1>4, <1>5, <1>6 DEF FetcherNext

LEMMA Invariance == FetcherSpec => []FetcherInv
BY InitFetcherInv, NextFetcherInv, PTL DEF FetcherSpec

-----------------------------------------------------------------------------
(* Types: in particular a commit that is pushed, offered, stored, resolved *)
(* to is one that was made.                                                *)
THEOREM TypeCorrect == FetcherSpec => []FetcherTypeOK
<1>1. FetcherInv => FetcherTypeOK
  BY DEF FetcherInv
<1> QED BY <1>1, Invariance, PTL

(* The mutex of Fetcher.repo is held exactly by the call that is in it, on *)
(* each of its returns, and never by two.                                  *)
THEOREM MutexIsHeldInRepo == FetcherSpec => []MutexHeldInRepo
<1>1. FetcherInv => MutexHeldInRepo
  BY DEF FetcherInv
<1> QED BY <1>1, Invariance, PTL

(* A branch is never served older than it was when the call began.         *)
THEOREM BranchesAreFresh == FetcherSpec => []FreshBranches
<1>1. FetcherInv => FreshBranches
  <2> SUFFICES ASSUME FetcherInv, NEW c \in Calls, pc[c] = "done", src[c].ref \in Branches
               PROVE  hash[c] >= began[c]
    BY DEF FreshBranches
  <2>1. began[c] <= hash[c]
    BY DEF FetcherInv, BeganBehind, BeganFits
  <2>2. began[c] \in Nat /\ hash[c] \in Nat
    BY DEF FetcherInv, FetcherTypeOK, Commits
  <2> QED BY <2>1, <2>2
<1> QED BY <1>1, Invariance, PTL

(* While the process runs, no clone goes back, whichever calls store into  *)
(* it and in whatever order they looked at the remote.                     *)
LEMMA StepAdvances == FetcherInv /\ [FetcherNext]_fetcherVars => [ClonesAdvance]_fetcherVars
<1> SUFFICES ASSUME FetcherInv, [FetcherNext]_fetcherVars, process' = "up",
                    NEW u \in Repos, Cached(u)
             PROVE  /\ clones'[u].head = clones[u].head
                    /\ clones[u].objects \subseteq clones'[u].objects
                    /\ \A b \in Branches :
                         clones'[u].tracking[b] >= clones[u].tracking[b]
  BY DEF ClonesAdvance
<1>1. CASE clones'[u] = clones[u]
  <2>1. \A b \in Branches : clones[u].tracking[b] \in Nat
    BY NumbersOfAClone DEF FetcherInv, FetcherTypeOK
  <2> QED BY <1>1, <2>1
<1>2. ASSUME NEW c \in Calls, Store(c), clones'[u] # clones[u]
      PROVE  /\ clones'[u].head = clones[u].head
             /\ clones[u].objects \subseteq clones'[u].objects
             /\ \A b \in Branches : clones'[u].tracking[b] >= clones[u].tracking[b]
  <2>1. src[c].repo \in Repos
    BY DEF FetcherInv, FetcherTypeOK, Sources
  <2>2. u = src[c].repo
    BY <1>2, <2>1, StoreEffect
  <2> QED BY <1>2, <2>2, StoreEffect
<1>3. clones' = clones \/ \E c \in Calls : Store(c)
  BY DEF FetcherNext, fetcherVars, RemoteStep, Push, DeleteBranch, ProcessStep, Stop,
         RaceDetected, Restart, Call, Lock, Progress, LookupAuth, FailLocked, Advertise,
         NetworkFail, ResolveRevision, Load, Return
<1> QED BY <1>1, <1>2, <1>3

THEOREM ClonesOnlyAdvance == FetcherSpec => TrackingNeverRegresses
BY StepAdvances, Invariance, PTL DEF FetcherSpec, TrackingNeverRegresses

-----------------------------------------------------------------------------
(* Branches are kept apart: a commit that is known under the name of a     *)
(* branch, to a clone or to a call, is of no other branch of the remote,   *)
(* nor will it be: commits still to be made have higher numbers.           *)
OfBranch(u, b, n) ==
  /\ n \in 0..made[u]
  /\ \A a \in Branches \ {b} : n \notin line[u][a]

LinesApart ==
  \A u \in Repos : \A a, b \in Branches : a # b => line[u][a] \cap line[u][b] = {}

ClonesNameBranches ==
  \A u \in Repos :
    /\ OfBranch(u, Default, clones[u].head)
    /\ \A b \in Branches : OfBranch(u, b, clones[u].tracking[b])

SeenNamesBranches ==
  \A c \in Calls :
    pc[c] = "storing" => \A b \in Branches : OfBranch(src[c].repo, b, seen[c].tips[b])

AnswerFits(c) ==
  IF src[c].ref \in Commits THEN hash[c] = src[c].ref
  ELSE OfBranch(src[c].repo, BranchOf(src[c].ref), hash[c])

AnswersNameBranches ==
  \A c \in Calls : pc[c] \in {"loading", "done"} => AnswerFits(c)

BranchInv ==
  /\ LinesApart
  /\ ClonesNameBranches
  /\ SeenNamesBranches
  /\ AnswersNameBranches

LEMMA InitBranchInv == FetcherInit => BranchInv
BY DEF FetcherInit, BranchInv, LinesApart, ClonesNameBranches, SeenNamesBranches,
       AnswersNameBranches, OfBranch, NoClone

(* The remotes: a commit stays of its branch, or of none.                  *)
LEMMA RemotesKeepBranches ==
  ASSUME FetcherInv, LinesApart, RemoteStep
  PROVE  /\ LinesApart'
         /\ \A u \in Repos : \A b, n : OfBranch(u, b, n) => OfBranch(u, b, n)'
<1>1. made \in [Repos -> Nat] /\ line \in [Repos -> [Branches -> SUBSET Nat]]
  BY DEF FetcherInv, FetcherTypeOK, Commits
<1>2. \A u \in Repos : \A b \in Branches : line[u][b] \subseteq 1..made[u]
  BY DEF FetcherInv, RemotesSound
<1>3. ASSUME NEW v \in Repos, NEW d \in Branches, Push(v, d) \/ DeleteBranch(v, d)
      PROVE  /\ LinesApart'
             /\ \A u \in Repos : \A b, n : OfBranch(u, b, n) => OfBranch(u, b, n)'
  <2>1. \A u \in Repos : \A b \in Branches :
          /\ made'[u] \in {made[u], made[u] + 1}
          /\ line'[u][b] \subseteq line[u][b] \cup {made[u] + 1}
          /\ <<u, b>> # <<v, d>> => line'[u][b] = line[u][b]
    <3>1. CASE Push(v, d)
      <4>1. PICK x \in {line[v][d] \cup {made[v] + 1}, {made[v] + 1}} :
              line' = [line EXCEPT ![v][d] = x]
        BY <3>1, <1>1 DEF Push
      <4> QED BY <3>1, <4>1, <1>1 DEF Push
    <3>2. CASE DeleteBranch(v, d)
      BY <3>2, <1>1 DEF DeleteBranch
    <3> QED BY <1>3, <3>1, <3>2
  <2>2. LinesApart'
    <3> SUFFICES ASSUME NEW u \in Repos, NEW a \in Branches, NEW b \in Branches, a # b,
                        NEW n, n \in line'[u][a], n \in line'[u][b]
                 PROVE  FALSE
      BY DEF LinesApart
    <3>1. line'[u][a] = line[u][a] \/ line'[u][b] = line[u][b]
      BY <2>1
    <3>2. /\ n \in line[u][a] \cup {made[u] + 1}
          /\ n \in line[u][b] \cup {made[u] + 1}
      BY <2>1
    <3>3. made[u] + 1 \notin line[u][a] /\ made[u] + 1 \notin line[u][b]
      BY <1>1, <1>2
    <3>4. n \in line[u][a] /\ n \in line[u][b]
      BY <3>1, <3>2, <3>3
    <3> QED BY <3>4 DEF LinesApart
  <2>3. ASSUME NEW u \in Repos, NEW b, NEW n, OfBranch(u, b, n)
        PROVE  OfBranch(u, b, n)'
    <3>1. n \in 0..made[u] /\ made[u] \in Nat
      BY <2>3, <1>1 DEF OfBranch
    <3>2. n \in 0..made'[u] /\ n # made[u] + 1
      BY <3>1, <2>1
    <3>3. ASSUME NEW a \in Branches \ {b}
          PROVE  n \notin line'[u][a]
      BY <2>3, <3>2, <2>1 DEF OfBranch
    <3> QED BY <3>2, <3>3 DEF OfBranch
  <2> QED BY <2>2, <2>3
<1> QED BY <1>3 DEF RemoteStep

LEMMA TipsAreOfBranches ==
  ASSUME FetcherInv, LinesApart, NEW u \in Repos, NEW b \in Branches
  PROVE  OfBranch(u, b, tip[u][b])
<1>1. tip[u][b] \in line[u][b] \cup {0} /\ \A a \in Branches : line[u][a] \subseteq 1..made[u]
  BY DEF FetcherInv, RemotesSound
<1>2. made[u] \in Nat
  BY DEF FetcherInv, FetcherTypeOK, Commits
<1>3. tip[u][b] \in 0..made[u]
  BY <1>1, <1>2
<1>4. ASSUME NEW a \in Branches \ {b}
      PROVE  tip[u][b] \notin line[u][a]
  BY <1>1, <1>2 DEF LinesApart
<1> QED BY <1>3, <1>4 DEF OfBranch

LEMMA NextBranchInv ==
  FetcherInv /\ BranchInv /\ [FetcherNext]_fetcherVars => BranchInv'
<1> SUFFICES ASSUME FetcherInv, BranchInv, [FetcherNext]_fetcherVars PROVE BranchInv'
  OBVIOUS
<1>1. ASSUME NEW c \in Calls
      PROVE  src[c].repo \in Repos /\ src[c].ref \in Refs \cup {NoRef}
  BY DEF FetcherInv, FetcherTypeOK, Sources
<1>2. CASE RemoteStep
  <2>1. /\ LinesApart'
        /\ \A u \in Repos : \A b, n : OfBranch(u, b, n) => OfBranch(u, b, n)'
    BY <1>2, RemotesKeepBranches DEF BranchInv
  <2>2. UNCHANGED <<clones, pc, src, seen, hash>>
    BY <1>2 DEF RemoteStep, Push, DeleteBranch, calls
  <2>3. ClonesNameBranches'
    BY <2>1, <2>2 DEF BranchInv, ClonesNameBranches
  <2>4. SeenNamesBranches'
    BY <1>1, <2>1, <2>2 DEF BranchInv, SeenNamesBranches
  <2>5. AnswersNameBranches'
    BY <1>1, <2>1, <2>2 DEF BranchInv, AnswersNameBranches, AnswerFits
  <2> QED BY <2>1, <2>3, <2>4, <2>5 DEF BranchInv
<1> DEFINE Same == UNCHANGED remotes
<1>3. ASSUME Same
      PROVE  /\ LinesApart'
             /\ \A u, b, n : OfBranch(u, b, n)' <=> OfBranch(u, b, n)
  BY <1>3 DEF remotes, BranchInv, LinesApart, OfBranch
<1>4. ASSUME NEW c \in Calls, Same, UNCHANGED <<clones, src, hash>>,
             \A d \in Calls \ {c} : pc'[d] = pc[d] /\ seen'[d] = seen[d],
             pc'[c] # "storing",
             pc'[c] \in {"loading", "done"} => pc[c] \in {"loading", "done"}
      PROVE  BranchInv'
  <2>1. ClonesNameBranches'
    BY <1>3, <1>4 DEF BranchInv, ClonesNameBranches
  <2>2. SeenNamesBranches'
    BY <1>3, <1>4 DEF BranchInv, SeenNamesBranches
  <2>3. AnswersNameBranches'
    BY <1>3, <1>4 DEF BranchInv, AnswersNameBranches, AnswerFits
  <2> QED BY <1>3, <1>4, <2>1, <2>2, <2>3 DEF BranchInv
<1>5. ASSUME NEW c \in Calls, NEW s \in Sources, Call(c, s) PROVE BranchInv'
  <2>1. /\ Same /\ UNCHANGED <<clones, seen, hash>>
        /\ \A d \in Calls \ {c} : pc'[d] = pc[d] /\ src'[d] = src[d]
        /\ pc'[c] \in {"waiting", "failed"}
    BY <1>5 DEF Call, FetcherInv, FetcherTypeOK
  <2> QED BY <1>3, <2>1 DEF BranchInv, ClonesNameBranches, SeenNamesBranches,
                            AnswersNameBranches, AnswerFits
<1>6. ASSUME NEW c \in Calls, Return(c) PROVE BranchInv'
  <2>1. /\ Same /\ UNCHANGED <<clones, seen>> /\ pc'[c] = "idle"
        /\ \A d \in Calls \ {c} : pc'[d] = pc[d] /\ src'[d] = src[d] /\ hash'[d] = hash[d]
    BY <1>6 DEF Return, FetcherInv, FetcherTypeOK
  <2> QED BY <1>3, <2>1 DEF BranchInv, ClonesNameBranches, SeenNamesBranches,
                            AnswersNameBranches, AnswerFits
<1>7. ASSUME NEW c \in Calls,
             \/ Lock(c) \/ Load(c) \/ NetworkFail(c)
             \/ \E a \in Creds \cup {BadCred} : LookupAuth(c, a)
      PROVE  BranchInv'
  BY <1>4, <1>7 DEF Lock, Load, NetworkFail, LookupAuth, FailLocked, ForgetLocals,
                    FetcherInv, FetcherTypeOK
<1>8. ASSUME NEW c \in Calls, Advertise(c) PROVE BranchInv'
  <2>1. /\ Same /\ UNCHANGED <<clones, src, hash>> /\ pc'[c] = "storing"
        /\ seen'[c].tips = tip[src[c].repo]
        /\ \A d \in Calls \ {c} : pc'[d] = pc[d] /\ seen'[d] = seen[d]
    BY <1>8 DEF Advertise, FetcherInv, FetcherTypeOK
  <2>2. \A b \in Branches : OfBranch(src[c].repo, b, tip[src[c].repo][b])
    BY <1>1, TipsAreOfBranches DEF BranchInv
  <2>3. SeenNamesBranches'
    BY <1>3, <2>1, <2>2 DEF BranchInv, SeenNamesBranches
  <2> QED BY <1>3, <2>1, <2>3 DEF BranchInv, ClonesNameBranches, AnswersNameBranches, AnswerFits
<1>9. ASSUME NEW c \in Calls, Store(c) PROVE BranchInv'
  <2> DEFINE u == src[c].repo
  <2>1. /\ Same /\ UNCHANGED <<src, hash>> /\ pc[c] = "storing" /\ pc'[c] = "resolving"
        /\ \A d \in Calls \ {c} : pc'[d] = pc[d] /\ seen'[d] = seen[d]
    BY <1>9 DEF Store, ForgetLocals, FetcherInv, FetcherTypeOK
  <2>2. /\ \A v \in Repos \ {u} : clones'[v] = clones[v]
        /\ clones'[u].head \in {clones[u].head, seen[c].tips[Default]}
        /\ \A b \in Branches :
             clones'[u].tracking[b] \in {seen[c].tips[b], clones[u].tracking[b]}
    BY <1>1, <1>9, StoreEffect
  <2>3. \A b \in Branches : OfBranch(u, b, seen[c].tips[b])
    BY <2>1 DEF BranchInv, SeenNamesBranches
  <2>4. /\ OfBranch(u, Default, clones[u].head)
        /\ \A b \in Branches : OfBranch(u, b, clones[u].tracking[b])
    BY <1>1 DEF BranchInv, ClonesNameBranches
  <2>5. OfBranch(u, Default, clones'[u].head)
    BY <2>2, <2>3, <2>4
  <2>6. \A b \in Branches : OfBranch(u, b, clones'[u].tracking[b])
    BY <2>2, <2>3, <2>4
  <2>7. ASSUME NEW v \in Repos
        PROVE  /\ OfBranch(v, Default, clones'[v].head)
               /\ \A b \in Branches : OfBranch(v, b, clones'[v].tracking[b])
    <3>1. CASE v = u
      BY <3>1, <2>5, <2>6
    <3>2. CASE v # u
      BY <3>2, <2>2 DEF BranchInv, ClonesNameBranches
    <3> QED BY <3>1, <3>2
  <2>8. ClonesNameBranches'
    BY <1>3, <2>1, <2>7 DEF ClonesNameBranches
  <2> QED BY <1>3, <2>1, <2>8 DEF BranchInv, SeenNamesBranches, AnswersNameBranches, AnswerFits
<1>10. ASSUME NEW c \in Calls, ResolveRevision(c) PROVE BranchInv'
  <2> DEFINE u == src[c].repo
             r == src[c].ref
             h == Revision(clones[u], r)
  <2>1. /\ Same /\ UNCHANGED <<clones, src, seen>>
        /\ hash'[c] = h /\ pc'[c] = IF h = 0 THEN "failed" ELSE "loading"
        /\ \A d \in Calls \ {c} : pc'[d] = pc[d] /\ hash'[d] = hash[d]
    BY <1>10 DEF ResolveRevision, FetcherInv, FetcherTypeOK
  <2>2. /\ OfBranch(u, Default, clones[u].head)
        /\ \A b \in Branches : OfBranch(u, b, clones[u].tracking[b])
    BY <1>1 DEF BranchInv, ClonesNameBranches
  <2>3. ASSUME h # 0
        PROVE  IF r \in Commits THEN h = r ELSE OfBranch(u, BranchOf(r), h)
    <3>0. clones[u].objects \subseteq Commits
      BY <1>1 DEF FetcherInv, FetcherTypeOK, Clones
    <3>1. CASE r \in Branches
      BY <2>2, <2>3, <3>0, <3>1 DEF Revision, BranchOf
    <3>2. CASE r = HeadRef
      BY <2>2, <3>2 DEF Revision, BranchOf
    <3>3. CASE r \in Commits
      BY <2>3, <3>3 DEF Revision
    <3>4. CASE r = NoRef
      BY <2>3, <3>0, <3>4 DEF Revision
    <3> QED BY <1>1, <3>1, <3>2, <3>3, <3>4 DEF Refs
  <2> HIDE DEF h
  <2>4. AnswersNameBranches'
    BY <1>3, <2>1, <2>3 DEF BranchInv, AnswersNameBranches, AnswerFits
  <2> QED BY <1>3, <2>1, <2>4 DEF BranchInv, ClonesNameBranches, SeenNamesBranches
<1>11. CASE ProcessStep
  <2>1. Same
    BY <1>11 DEF ProcessStep, Stop, RaceDetected, Restart, LoseMemory
  <2>2. CASE Restart
    BY <1>3, <2>1, <2>2 DEF Restart, calls, BranchInv, ClonesNameBranches,
         SeenNamesBranches, AnswersNameBranches, AnswerFits
  <2>3. CASE LoseMemory
    <3>1. /\ \A c \in Calls : pc'[c] = "idle"
          /\ \A u \in Repos : clones'[u] = NoClone
      BY <2>3 DEF LoseMemory
    <3>2. \A u \in Repos : \A b : OfBranch(u, b, 0)
      BY DEF OfBranch, FetcherInv, FetcherTypeOK, RemotesSound, Commits
    <3> QED BY <1>3, <2>1, <3>1, <3>2 DEF NoClone, BranchInv, ClonesNameBranches,
              SeenNamesBranches, AnswersNameBranches
  <2> QED BY <1>11, <2>2, <2>3 DEF ProcessStep, Stop, RaceDetected
<1>12. CASE UNCHANGED fetcherVars
  BY <1>12, <1>3 DEF fetcherVars, remotes, BranchInv, ClonesNameBranches,
       SeenNamesBranches, AnswersNameBranches, AnswerFits
<1> QED BY <1>2, <1>5, <1>6, <1>7, <1>8, <1>9, <1>10, <1>11, <1>12 DEF FetcherNext, Progress

(* An answer is of the branch that was asked for and of no other, whatever *)
(* refs the clone kept or never had; a pinned commit is itself.            *)
THEOREM NoImplicitBranch == FetcherSpec => []NeverAnotherBranch
<1>1. BranchInv => NeverAnotherBranch
  BY DEF BranchInv, AnswersNameBranches, AnswerFits, OfBranch, NeverAnotherBranch
<1>2. FetcherSpec => []BranchInv
  BY InitBranchInv, NextBranchInv, Invariance, PTL DEF FetcherSpec
<1> QED BY <1>1, <1>2, PTL
=============================================================================

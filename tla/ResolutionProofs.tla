--------------------------- MODULE ResolutionProofs ---------------------------
(***************************************************************************)
(* What TLAPS proves of requests to resolve, for any Recipes, sources,     *)
(* remotes and number of concurrent requests: the types, and that answers  *)
(* have what their layers ask for, fresh and in order, fetched with        *)
(* credentials of the right repository.                                    *)
(***************************************************************************)
EXTENDS Resolution, FetcherProofs

USE ReposAssumption, DefaultAssumption, MaxCommitsAssumption, RefsAssumption,
    CredsAssumption, FreeAssumption, EntriesAssumption, RecipesAssumption

Gotten == [repo : Repos, commit : Commits]

RequestTypes ==
  /\ registry \in [SourceNames -> Entries \cup {NoEntry}]
  /\ recipe \in Recipes \cup {NoRecipe}
  /\ stage \in [Calls -> {"idle", "materializing", "resolved", "failed"}]
  /\ job \in [Calls -> Recipes \cup {<<>>}]
  /\ got \in [Calls -> Seq(Gotten)]
  /\ \A c \in Calls : Len(got[c]) <= Len(job[c])
  /\ start \in [Calls -> [Repos -> [Branches -> Commits \cup {0}]]]
  /\ own \in [Calls -> Creds \cup {BadCred}]

(* A call of Content is that of the layer whose turn it is.                *)
CallIsOfLayer ==
  \A c \in Calls :
    /\ pc[c] # "idle" =>
         /\ process = "up"
         /\ stage[c] = "materializing"
         /\ Turn(c) <= Len(job[c])
         /\ src[c].ref = Layer(c).ref
    /\ stage[c] = "idle" => got[c] = <<>>
    /\ stage[c] = "resolved" => Len(got[c]) = Len(job[c])

(* Every clone tracks the default branch.                                  *)
DefaultTracked ==
  \A u \in Repos : Cached(u) => clones[u].tracking[Default] # 0

(* What a call has resolved its ref to: the commit it is pinned to, or one *)
(* that is no newer than what the clone tracks, and no older than what the *)
(* request already has of that branch.                                     *)
HashFits(c) ==
  LET u == src[c].repo
      b == src[c].ref
  IN
  pc[c] \in {"loading", "done"} =>
    /\ hash[c] # 0
    /\ b \in Commits => hash[c] = b
    /\ b \in Branches => hash[c] <= clones[u].tracking[b]
    /\ b \in Branches =>
         \A i \in DOMAIN got[c] :
           job[c][i].ref = b /\ got[c][i].repo = u => got[c][i].commit <= hash[c]

(* What a request has of its layers.                                       *)
GotFits(c, i) ==
  LET u == got[c][i].repo
      b == job[c][i].ref
  IN
  /\ b \in Commits => got[c][i].commit = b
  /\ b \in Branches =>
       /\ start[c][u][b] <= got[c][i].commit
       /\ got[c][i].commit <= clones[u].tracking[b]

(* The tips when a request began are not ahead of what they are now, nor   *)
(* of what they were when its call began.                                  *)
StartBehind(c) ==
  /\ \A u \in Repos, b \in Branches : start[c][u][b] <= tip[u][b]
  /\ pc[c] # "idle" /\ src[c].ref \in Branches =>
       start[c][src[c].repo][src[c].ref] <= began[c]

ResolutionInv ==
  /\ FetcherInv
  /\ RequestTypes
  /\ CallIsOfLayer
  /\ DefaultTracked
  /\ \A c \in Calls : HashFits(c)
  /\ \A c \in Calls : \A i \in DOMAIN got[c] : GotFits(c, i)
  /\ \A c \in Calls : StartBehind(c)
  /\ LayersAdvance
  /\ CredentialsMatchRepo

-----------------------------------------------------------------------------
LEMMA AuthIsOfRepo ==
  ASSUME RequestTypes, NEW u \in Repos, NEW a \in AuthFor(u)
  PROVE  /\ a \in Creds \cup {BadCred}
         /\ a \in {NoCred} \cup {e.auth : e \in {f \in Entries : f.repo = u}}
<1>1. CASE a = NoCred
  BY <1>1
<1>2. CASE a # NoCred
  <2>1. PICK n \in Owners(u) : a = registry[n].auth
    BY <1>2 DEF AuthFor, LookupByRepo
  <2>2. registry[n] \in Entries /\ registry[n].repo = u
    BY <2>1 DEF Owners, RequestTypes
  <2> QED BY <2>1, <2>2
<1> QED BY <1>1, <1>2

(* A request's layers are layers.                                          *)
LEMMA JobsAreLayers ==
  ASSUME RequestTypes, NEW c \in Calls
  PROVE  /\ job[c] \in Seq(Layers)
         /\ Len(job[c]) \in Nat
         /\ \A i \in 1..Len(job[c]) : job[c][i].ref \in Refs \cup {NoRef}
<1>1. job[c] \in Seq(Layers)
  BY DEF RequestTypes
<1>2. \A i \in 1..Len(job[c]) : job[c][i] \in Layers
  BY <1>1
<1> QED BY <1>1, <1>2 DEF Layers

LEMMA GotsAreGotten ==
  ASSUME RequestTypes, NEW c \in Calls
  PROVE  /\ Len(got[c]) \in Nat /\ DOMAIN got[c] = 1..Len(got[c])
         /\ Len(got[c]) <= Len(job[c])
         /\ \A i \in DOMAIN got[c] :
              got[c][i].repo \in Repos /\ got[c][i].commit \in Commits
<1>1. got[c] \in Seq(Gotten) /\ Len(got[c]) <= Len(job[c])
  BY DEF RequestTypes
<1>2. \A i \in 1..Len(got[c]) : got[c][i] \in Gotten
  BY <1>1
<1> QED BY <1>1, <1>2 DEF Gotten

LEMMA NumbersAreNat ==
  ASSUME FetcherTypeOK, RequestTypes
  PROVE  /\ \A u \in Repos, b \in Branches :
              tip[u][b] \in Nat /\ clones[u].tracking[b] \in Nat
         /\ \A c \in Calls : began[c] \in Nat /\ hash[c] \in Nat /\ src[c] \in Sources
         /\ \A c \in Calls, u \in Repos, b \in Branches : start[c][u][b] \in Nat
BY NumbersOfAClone DEF FetcherTypeOK, RequestTypes, Commits

-----------------------------------------------------------------------------
LEMMA InitResolutionInv == Init => ResolutionInv
<1> SUFFICES ASSUME Init PROVE ResolutionInv
  OBVIOUS
<1>1. FetcherInv
  BY InitFetcherInv DEF Init
<1>2. /\ pc = [c \in Calls |-> "idle"]
      /\ \A u \in Repos : clones[u].head = 0
  BY DEF Init, FetcherInit, NoClone
<1>3. RequestTypes
  <2>1. <<>> \in Seq(Gotten) /\ Len(<<>>) = 0
    OBVIOUS
  <2> QED BY <2>1 DEF Init, RequestTypes, NoTips
<1>4. CallIsOfLayer /\ DefaultTracked
  BY <1>2 DEF Init, CallIsOfLayer, DefaultTracked, Cached
<1>5. ASSUME NEW c \in Calls PROVE HashFits(c) /\ DOMAIN got[c] = {} /\ StartBehind(c)
  <2>1. \A u \in Repos, b \in Branches : tip[u][b] \in Nat
    BY <1>1, <1>3, NumbersAreNat DEF FetcherInv
  <2> QED BY <1>2, <2>1 DEF Init, HashFits, StartBehind, NoTips
<1>6. LayersAdvance
  BY <1>5 DEF LayersAdvance
<1>7. CredentialsMatchRepo
  BY <1>2 DEF CredentialsMatchRepo
<1> QED BY <1>1, <1>3, <1>4, <1>5, <1>6, <1>7 DEF ResolutionInv

-----------------------------------------------------------------------------
(* Steps that leave the fetcher alone.                                     *)
LEMMA SameFetcher ==
  ASSUME ResolutionInv, UNCHANGED fetcherVars
  PROVE  FetcherInv' /\ DefaultTracked' /\ CredentialsMatchRepo'
<1>1. FetcherInv'
  BY NextFetcherInv DEF ResolutionInv
<1> QED BY <1>1 DEF ResolutionInv, fetcherVars, DefaultTracked, Cached, CredentialsMatchRepo

LEMMA EditInv ==
  ASSUME ResolutionInv, UNCHANGED <<fetcherVars, requestVars>>,
         registry' \in [SourceNames -> Entries \cup {NoEntry}],
         recipe' \in Recipes \cup {NoRecipe}
  PROVE  ResolutionInv'
<1>1. FetcherInv' /\ DefaultTracked' /\ CredentialsMatchRepo'
  BY SameFetcher
<1>2. RequestTypes' /\ CallIsOfLayer' /\ LayersAdvance'
  BY DEF ResolutionInv, RequestTypes, CallIsOfLayer, LayersAdvance, Turn, Layer,
         fetcherVars, requestVars
<1>3. ASSUME NEW c \in Calls PROVE HashFits(c)' /\ StartBehind(c)'
  BY DEF ResolutionInv, HashFits, StartBehind, fetcherVars, requestVars
<1>4. ASSUME NEW c \in Calls, NEW i \in DOMAIN got[c] PROVE GotFits(c, i)'
  BY DEF ResolutionInv, GotFits, fetcherVars, requestVars
<1> QED BY <1>1, <1>2, <1>3, <1>4 DEF ResolutionInv, requestVars

(* A step of request c that leaves the fetcher, the registry and the other *)
(* requests alone, and c without a call under way.                         *)
LEMMA StageInv ==
  ASSUME ResolutionInv, UNCHANGED <<fetcherVars, registry, recipe>>, NEW c \in Calls,
         RequestTypes',
         pc[c] = "idle",
         stage'[c] = "idle" => got'[c] = <<>>,
         stage'[c] = "resolved" => Len(got'[c]) = Len(job'[c]),
         got'[c] = <<>> \/ (got'[c] = got[c] /\ job'[c] = job[c] /\ start'[c] = start[c]),
         start'[c] \in {start[c], tip, NoTips},
         \A d \in Calls \ {c} : /\ stage'[d] = stage[d] /\ job'[d] = job[d]
                               /\ got'[d] = got[d] /\ start'[d] = start[d]
  PROVE  ResolutionInv'
<1>1. FetcherInv' /\ DefaultTracked' /\ CredentialsMatchRepo'
  BY SameFetcher
<1>2. \A u \in Repos, b \in Branches : tip[u][b] \in Nat
  BY NumbersAreNat DEF ResolutionInv, FetcherInv
<1>3. DOMAIN <<>> = {}
  OBVIOUS
<1>4. CallIsOfLayer'
  BY DEF ResolutionInv, CallIsOfLayer, Turn, Layer, fetcherVars
<1>5. ASSUME NEW d \in Calls PROVE HashFits(d)' /\ StartBehind(d)'
  <2>1. CASE d = c
    <3>1. \A u \in Repos, b \in Branches : start'[c][u][b] <= tip[u][b]
      <4>1. CASE start'[c] = start[c]
        BY <4>1 DEF ResolutionInv, StartBehind
      <4>2. CASE start'[c] = tip
        BY <4>2, <1>2
      <4>3. CASE start'[c] = NoTips
        BY <4>3, <1>2 DEF NoTips
      <4> QED BY <4>1, <4>2, <4>3
    <3> QED BY <2>1, <3>1 DEF HashFits, StartBehind, fetcherVars
  <2>2. CASE d # c
    BY <2>2 DEF ResolutionInv, HashFits, StartBehind, fetcherVars
  <2> QED BY <2>1, <2>2
<1>6. ASSUME NEW d \in Calls, NEW i \in DOMAIN got'[d] PROVE GotFits(d, i)'
  BY <1>3 DEF ResolutionInv, GotFits, fetcherVars
<1>7. LayersAdvance'
  BY <1>3 DEF ResolutionInv, LayersAdvance
<1> QED BY <1>1, <1>4, <1>5, <1>6, <1>7 DEF ResolutionInv

LEMMA BeginInv ==
  ASSUME ResolutionInv, NEW c \in Calls, Begin(c)
  PROVE  ResolutionInv'
<1>1. pc[c] = "idle" /\ got[c] = <<>>
  BY DEF Begin, ResolutionInv, CallIsOfLayer
<1>2. RequestTypes'
  <2>1. tip \in [Repos -> [Branches -> Commits \cup {0}]]
    BY DEF ResolutionInv, FetcherInv, FetcherTypeOK
  <2>2. Len(got[c]) = 0
    BY <1>1
  <2>3. \A d \in Calls : Len(got[d]) <= Len(job'[d])
    <3>1. ASSUME NEW d \in Calls \ {c} PROVE job'[d] = job[d]
      BY DEF Begin, ResolutionInv, RequestTypes
    <3>2. \A d \in Calls : Len(got[d]) <= Len(job[d])
      BY DEF ResolutionInv, RequestTypes
    <3>3. \A r \in Recipes \cup {<<>>} : Len(r) \in Nat
      OBVIOUS
    <3>4. job'[c] \in Recipes \cup {<<>>}
      BY DEF Begin, ResolutionInv, RequestTypes
    <3>5. Len(got[c]) <= Len(job'[c])
      BY <2>2, <3>3, <3>4
    <3> QED BY <3>1, <3>2, <3>5
  <2>4. job' \in [Calls -> Recipes \cup {<<>>}]
    BY DEF Begin, ResolutionInv, RequestTypes
  <2>5. /\ stage' \in [Calls -> {"idle", "materializing", "resolved", "failed"}]
        /\ start' \in [Calls -> [Repos -> [Branches -> Commits \cup {0}]]]
    BY <2>1 DEF Begin, ResolutionInv, RequestTypes
  <2> QED BY <2>3, <2>4, <2>5 DEF Begin, ResolutionInv, RequestTypes
<1>3. /\ stage'[c] \in {"failed", "materializing"}
      /\ got' = got /\ start'[c] = tip
      /\ \A d \in Calls \ {c} : /\ stage'[d] = stage[d] /\ job'[d] = job[d]
                                /\ got'[d] = got[d] /\ start'[d] = start[d]
      /\ UNCHANGED <<fetcherVars, registry, recipe>>
  BY DEF Begin, ResolutionInv, RequestTypes
<1> QED BY <1>1, <1>2, <1>3, StageInv

LEMMA SourceMissingInv ==
  ASSUME ResolutionInv, NEW c \in Calls, SourceMissing(c)
  PROVE  ResolutionInv'
<1>1. RequestTypes'
  BY DEF SourceMissing, ResolutionInv, RequestTypes
<1> QED BY <1>1, StageInv DEF SourceMissing, ResolutionInv, RequestTypes

LEMMA MergeInv ==
  ASSUME ResolutionInv, NEW c \in Calls, Merge(c)
  PROVE  ResolutionInv'
<1>1. RequestTypes'
  BY DEF Merge, ResolutionInv, RequestTypes
<1>2. Len(got[c]) = Len(job[c])
  BY JobsAreLayers, GotsAreGotten DEF Merge, Turn, ResolutionInv
<1> QED BY <1>1, <1>2, StageInv DEF Merge, ResolutionInv, RequestTypes

LEMMA AnswerInv ==
  ASSUME ResolutionInv, NEW c \in Calls, Answer(c)
  PROVE  ResolutionInv'
<1>1. NoTips \in [Repos -> [Branches -> Commits \cup {0}]] /\ <<>> \in Seq(Gotten)
  BY DEF NoTips
<1>2. RequestTypes'
  BY <1>1 DEF Answer, ResolutionInv, RequestTypes
<1>3. pc[c] = "idle"
  BY DEF Answer, ResolutionInv, CallIsOfLayer
<1>4. /\ stage'[c] = "idle" /\ got'[c] = <<>> /\ start'[c] = NoTips
      /\ \A d \in Calls \ {c} : /\ stage'[d] = stage[d] /\ job'[d] = job[d]
                                /\ got'[d] = got[d] /\ start'[d] = start[d]
      /\ UNCHANGED <<fetcherVars, registry, recipe>>
  BY DEF Answer, ResolutionInv, RequestTypes
<1> QED BY <1>2, <1>3, <1>4, StageInv

-----------------------------------------------------------------------------
(* The steps of a call.                                                    *)
LEMMA NextLayerInv ==
  ASSUME ResolutionInv, NEW c \in Calls, NextLayer(c)
  PROVE  ResolutionInv'
<1> DEFINE e == registry[Layer(c).source]
           s == [repo |-> e.repo, ref |-> Layer(c).ref]
<1>1. RequestTypes /\ FetcherTypeOK
  BY DEF ResolutionInv, FetcherInv
<1>2. e \in Entries /\ s \in Sources
  <2>1. Turn(c) \in 1..Len(job[c]) /\ Layer(c) = job[c][Turn(c)] /\ job[c] \in Seq(Layers)
    BY <1>1, JobsAreLayers, GotsAreGotten DEF NextLayer, Turn, Layer
  <2>2. Layer(c) \in Layers
    BY <2>1
  <2>3. e \in Entries
    BY <2>2, <1>1 DEF NextLayer, Layers, RequestTypes
  <2> QED BY <2>2, <2>3 DEF Layers, Sources
<1>3. FetcherInv'
  BY <1>2, CallFetcherInv DEF NextLayer, ResolutionInv
<1> HIDE DEF s
<1>4. /\ process = "up" /\ stage[c] = "materializing" /\ pc[c] = "idle"
      /\ Turn(c) <= Len(job[c])
      /\ pc'[c] \in {"failed", "waiting"} /\ src'[c] = s /\ began'[c] = TipOf(s)
      /\ s.ref = Layer(c).ref
      /\ \A d \in Calls \ {c} : /\ pc'[d] = pc[d] /\ src'[d] = src[d]
                                /\ began'[d] = began[d]
      /\ UNCHANGED <<remotes, process, clones, cred, hash, registry, recipe, stage, job,
                     got, start>>
  BY <1>1 DEF NextLayer, Call, FetcherTypeOK, s
<1>5. RequestTypes'
  BY <1>1, <1>2, <1>4 DEF RequestTypes, NextLayer
<1>6. CallIsOfLayer'
  BY <1>4 DEF ResolutionInv, CallIsOfLayer, Turn, Layer
<1>7. DefaultTracked' /\ CredentialsMatchRepo' /\ LayersAdvance'
  BY <1>4 DEF ResolutionInv, DefaultTracked, Cached, CredentialsMatchRepo, LayersAdvance
<1>8. ASSUME NEW d \in Calls PROVE HashFits(d)'
  BY <1>4 DEF ResolutionInv, HashFits
<1>9. ASSUME NEW d \in Calls, NEW i \in DOMAIN got[d] PROVE GotFits(d, i)'
  BY <1>4 DEF ResolutionInv, GotFits
<1>10. ASSUME NEW d \in Calls PROVE StartBehind(d)'
  <2>1. CASE d = c
    <3>1. s.ref \in Branches => began'[c] = tip[s.repo][s.ref] /\ s.repo \in Repos
      BY <1>2, <1>4 DEF TipOf, Sources
    <3> QED BY <2>1, <3>1, <1>4 DEF ResolutionInv, StartBehind, remotes
  <2>2. CASE d # c
    BY <2>2, <1>4 DEF ResolutionInv, StartBehind, remotes
  <2> QED BY <2>1, <2>2
<1> QED BY <1>3, <1>4, <1>5, <1>6, <1>7, <1>8, <1>9, <1>10 DEF ResolutionInv

(* What the fetcher's clones and the other calls are after a step of c.    *)
LEMMA FetchEffect ==
  ASSUME ResolutionInv, NEW c \in Calls, Fetch(c)
  PROVE  /\ FetcherInv'
         /\ UNCHANGED <<remotes, process, src, began, registry, recipe, requestVars>>
         /\ pc[c] # "idle" /\ pc'[c] # "idle"
         /\ \A d \in Calls \ {c} : /\ pc'[d] = pc[d] /\ cred'[d] = cred[d]
                                   /\ hash'[d] = hash[d]
         /\ \A u \in Repos, b \in Branches :
              clones'[u].tracking[b] >= clones[u].tracking[b]
         /\ DefaultTracked'
         /\ HashFits(c)'
         /\ pc'[c] = "connecting" => cred'[c] \in AuthFor(src[c].repo)
<1> DEFINE u == src[c].repo
           b == src[c].ref
<1>1. /\ FetcherInv /\ FetcherTypeOK /\ RequestTypes /\ DefaultTracked /\ HashFits(c)
      /\ u \in Repos
      /\ UNCHANGED <<registry, recipe, requestVars>>
  BY DEF ResolutionInv, FetcherInv, FetcherTypeOK, Sources, Fetch
<1>2. \A v \in Repos, a \in Branches : clones[v].tracking[a] \in Nat
  BY <1>1, NumbersAreNat
<1>3. CASE Lock(c) \/ NetworkFail(c) \/ Load(c)
  <2>1. FetcherInv'
    BY <1>1, <1>3, LockFetcherInv, FailLockedFetcherInv, LoadFetcherInv DEF NetworkFail
  <2>2. /\ pc[c] # "idle" /\ pc'[c] \notin {"idle", "connecting"}
        /\ pc'[c] \in {"loading", "done"} => pc[c] = "loading"
        /\ UNCHANGED <<remotes, process, src, began, clones, hash>>
        /\ \A d \in Calls \ {c} : pc'[d] = pc[d] /\ cred'[d] = cred[d]
    BY <1>1, <1>3 DEF FetcherTypeOK, Lock, NetworkFail, FailLocked, ForgetLocals, Load
  <2> QED BY <2>1, <2>2, <1>1, <1>2 DEF DefaultTracked, Cached, HashFits, requestVars
<1>4. CASE \E a \in AuthFor(u) : LookupAuth(c, a)
  <2>1. PICK a \in AuthFor(u) : LookupAuth(c, a)
    BY <1>4
  <2>2. FetcherInv'
    BY <1>1, <2>1, AuthIsOfRepo, LookupAuthFetcherInv
  <2>3. /\ pc[c] # "idle" /\ pc'[c] \in {"connecting", "failed"}
        /\ pc'[c] = "connecting" => cred'[c] = a
        /\ UNCHANGED <<remotes, process, src, began, clones, hash>>
        /\ \A d \in Calls \ {c} : pc'[d] = pc[d] /\ cred'[d] = cred[d]
    BY <1>1, <2>1 DEF FetcherTypeOK, LookupAuth, FailLocked, ForgetLocals
  <2> QED BY <2>2, <2>3, <1>1, <1>2 DEF DefaultTracked, Cached, HashFits
<1>5. CASE Advertise(c)
  <2>1. FetcherInv'
    BY <1>1, <1>5, AdvertiseFetcherInv
  <2>2. /\ pc[c] # "idle" /\ pc'[c] = "storing"
        /\ UNCHANGED <<remotes, process, src, began, clones, hash, cred>>
        /\ \A d \in Calls \ {c} : pc'[d] = pc[d]
    BY <1>1, <1>5 DEF FetcherTypeOK, Advertise
  <2> QED BY <2>1, <2>2, <1>1, <1>2 DEF DefaultTracked, Cached, HashFits
<1>6. CASE Store(c)
  <2>1. FetcherInv'
    BY <1>1, <1>6, StoreFetcherInv
  <2>2. /\ pc[c] = "storing" /\ pc'[c] = "resolving"
        /\ UNCHANGED <<remotes, process, src, began, hash>>
        /\ \A d \in Calls \ {c} : pc'[d] = pc[d] /\ cred'[d] = cred[d]
    BY <1>1, <1>6 DEF FetcherTypeOK, Store, ForgetLocals
  <2>3. /\ \A v \in Repos \ {u} : clones'[v] = clones[v]
        /\ \A a \in Branches : /\ clones'[u].tracking[a] >= clones[u].tracking[a]
                               /\ clones'[u].tracking[a] >= seen[c].tips[a]
        /\ \A a \in Branches : clones'[u].tracking[a] \in Nat
    BY <1>1, <1>6, StoreEffect, NumbersOfAClone
  <2>4. seen[c].tips[Default] # 0 /\ seen[c].tips[Default] \in Nat
    BY <2>2, <1>1, NumbersOfAnOffer DEF FetcherInv, SeenSound, FetcherTypeOK
  <2>5. clones'[u].tracking[Default] # 0
    BY <2>3, <2>4
  <2>6. DefaultTracked'
    BY <2>3, <2>5, <1>1 DEF DefaultTracked, Cached
  <2>7. \A v \in Repos, a \in Branches : clones'[v].tracking[a] >= clones[v].tracking[a]
    BY <2>3, <1>2
  <2> QED BY <2>1, <2>2, <2>6, <2>7, <1>1 DEF HashFits
<1>7. CASE ResolveRevision(c)
  <2> DEFINE h == Revision(clones[u], b)
  <2>1. FetcherInv'
    BY <1>1, <1>7, ResolveRevisionFetcherInv
  <2>2. /\ pc[c] = "resolving" /\ hash'[c] = h
        /\ pc'[c] = IF h = 0 THEN "failed" ELSE "loading"
        /\ UNCHANGED <<remotes, process, src, began, clones, cred>>
        /\ \A d \in Calls \ {c} : pc'[d] = pc[d] /\ hash'[d] = hash[d]
    BY <1>1, <1>7 DEF FetcherTypeOK, ResolveRevision
  <2>3. ASSUME h # 0, b \in Commits PROVE h = b
    BY <2>3 DEF Revision
  <2>4. ASSUME h # 0, b \in Branches PROVE h = clones[u].tracking[b]
    <3>1. clones[u].objects \subseteq Commits
      BY <1>1 DEF FetcherTypeOK, Clones
    <3>2. b = Default /\ clones[u].tracking[b] = 0 => clones[u].head = 0
      BY <1>1 DEF DefaultTracked, Cached
    <3> QED BY <2>4, <3>1, <3>2 DEF Revision
  <2>5. ASSUME b \in Branches, NEW i \in DOMAIN got[c], job[c][i].ref = b,
               got[c][i].repo = u
        PROVE  got[c][i].commit <= clones[u].tracking[b]
    BY <2>5 DEF ResolutionInv, GotFits
  <2>6. HashFits(c)'
    BY <2>2, <2>3, <2>4, <2>5, <1>1, <1>2 DEF HashFits, requestVars
  <2> QED BY <2>1, <2>2, <2>6, <1>1, <1>2 DEF DefaultTracked, Cached
<1> QED BY <1>3, <1>4, <1>5, <1>6, <1>7 DEF Fetch

LEMMA FetchInv ==
  ASSUME ResolutionInv, NEW c \in Calls, Fetch(c)
  PROVE  ResolutionInv'
<1>1. /\ FetcherInv'
      /\ UNCHANGED <<remotes, process, src, began, registry, recipe, requestVars>>
      /\ pc[c] # "idle" /\ pc'[c] # "idle"
      /\ \A d \in Calls \ {c} : /\ pc'[d] = pc[d] /\ cred'[d] = cred[d]
                                /\ hash'[d] = hash[d]
      /\ \A u \in Repos, b \in Branches :
           clones'[u].tracking[b] >= clones[u].tracking[b]
      /\ DefaultTracked'
      /\ HashFits(c)'
      /\ pc'[c] = "connecting" => cred'[c] \in AuthFor(src[c].repo)
  BY FetchEffect
<1>2. RequestTypes /\ FetcherTypeOK /\ FetcherTypeOK'
  BY <1>1 DEF ResolutionInv, FetcherInv
<1>3. /\ \A u \in Repos, b \in Branches :
           clones[u].tracking[b] \in Nat /\ clones'[u].tracking[b] \in Nat
      /\ \A d \in Calls : src[d].repo \in Repos /\ hash[d] \in Nat
  BY <1>2, NumbersAreNat, NumbersOfAClone DEF FetcherTypeOK, Sources
<1>4. RequestTypes' /\ LayersAdvance'
  BY <1>1 DEF ResolutionInv, RequestTypes, LayersAdvance, requestVars
<1>5. CallIsOfLayer'
  BY <1>1 DEF ResolutionInv, CallIsOfLayer, Turn, Layer, requestVars
<1>6. ASSUME NEW d \in Calls \ {c} PROVE HashFits(d)'
  <2>1. HashFits(d)
    BY DEF ResolutionInv
  <2> QED BY <2>1, <1>1, <1>3 DEF HashFits, requestVars
<1>7. ASSUME NEW d \in Calls, NEW i \in DOMAIN got[d] PROVE GotFits(d, i)'
  <2>1. GotFits(d, i) /\ got[d][i].repo \in Repos /\ got[d][i].commit \in Nat
    BY <1>2, GotsAreGotten DEF ResolutionInv, Commits
  <2> QED BY <2>1, <1>1, <1>3 DEF GotFits, requestVars
<1>8. ASSUME NEW d \in Calls PROVE StartBehind(d)'
  BY <1>1 DEF ResolutionInv, StartBehind, remotes, requestVars
<1>9. CredentialsMatchRepo'
  <2> SUFFICES ASSUME NEW d \in Calls, pc'[d] = "connecting"
               PROVE  cred'[d] \in {NoCred} \cup
                        {e.auth : e \in {f \in Entries : f.repo = src[d].repo}}
    BY <1>1 DEF CredentialsMatchRepo
  <2>1. CASE d = c
    BY <2>1, <1>1, <1>2, <1>3, AuthIsOfRepo
  <2>2. CASE d # c
    BY <2>2, <1>1 DEF ResolutionInv, CredentialsMatchRepo
  <2> QED BY <2>1, <2>2
<1> QED BY <1>1, <1>4, <1>5, <1>6, <1>7, <1>8, <1>9 DEF ResolutionInv, requestVars

(* Content returned: its layer is collected, or the request fails.         *)
LEMMA ReturnInv ==
  ASSUME ResolutionInv, NEW c \in Calls, LayerDone(c) \/ LayerFailed(c)
  PROVE  ResolutionInv'
<1> DEFINE r == [repo |-> src[c].repo, commit |-> hash[c]]
           u == src[c].repo
           b == src[c].ref
           n == Len(got[c])
<1>1. /\ FetcherInv /\ FetcherTypeOK /\ RequestTypes /\ Return(c)
      /\ pc[c] \in {"done", "failed"}
      /\ NoSource.ref \notin Branches
  BY DEF ResolutionInv, FetcherInv, LayerDone, LayerFailed, NoSource
<1>2. FetcherInv'
  BY <1>1, ReturnFetcherInv
<1>3. /\ pc'[c] = "idle" /\ src'[c] = NoSource
      /\ \A d \in Calls \ {c} : /\ pc'[d] = pc[d] /\ src'[d] = src[d]
                                /\ hash'[d] = hash[d] /\ began'[d] = began[d]
      /\ UNCHANGED <<remotes, process, clones, cred, registry, recipe, job, start, own>>
  BY <1>1 DEF Return, FetcherTypeOK, LayerDone, LayerFailed
<1>4. /\ process = "up" /\ stage[c] = "materializing" /\ n + 1 <= Len(job[c])
      /\ b = job[c][n + 1].ref
      /\ n \in Nat /\ DOMAIN got[c] = 1..n /\ Len(job[c]) \in Nat
      /\ u \in Repos /\ hash[c] \in Nat
  BY <1>1, GotsAreGotten, JobsAreLayers
  DEF ResolutionInv, CallIsOfLayer, Turn, Layer, FetcherTypeOK, Sources, Commits
<1>5. \A d \in Calls \ {c} : stage'[d] = stage[d] /\ got'[d] = got[d]
  BY <1>1 DEF LayerDone, LayerFailed, RequestTypes
<1>6. \/ stage'[c] = "failed" /\ got'[c] = got[c]
      \/ /\ pc[c] = "done" /\ stage'[c] = "materializing" /\ r \in Gotten
         /\ got'[c] \in Seq(Gotten) /\ Len(got'[c]) = n + 1 /\ DOMAIN got'[c] = 1..(n + 1)
         /\ \A i \in 1..n : got'[c][i] = got[c][i]
         /\ got'[c][n + 1] = r
  <2>1. CASE LayerFailed(c)
    BY <2>1, <1>1 DEF LayerFailed, RequestTypes
  <2>2. CASE LayerDone(c)
    <3>1. pc[c] = "done" /\ stage'[c] = "materializing"
      BY <2>2, <1>4 DEF LayerDone
    <3>2. r \in Gotten
      BY <3>1, <1>1, <1>4 DEF ResolutionInv, HashFits, Gotten, FetcherTypeOK
    <3>3. got[c] \in Seq(Gotten) /\ got'[c] = Append(got[c], r)
      BY <2>2, <1>1 DEF LayerDone, RequestTypes
    <3> HIDE DEF r
    <3> QED BY <3>1, <3>2, <3>3
  <2> QED BY <2>1, <2>2
<1>7. HashFits(c) /\ StartBehind(c) /\ FetcherTypeOK /\ BeganBehind
  BY <1>1 DEF ResolutionInv, FetcherInv
<1>8. RequestTypes'
  <2>1. /\ stage' \in [Calls -> {"idle", "materializing", "resolved", "failed"}]
        /\ got' \in [Calls -> Seq(Gotten)]
    <3>1. DOMAIN got' = Calls /\ DOMAIN stage' = Calls
      BY <1>1 DEF LayerDone, LayerFailed, RequestTypes
    <3>2. \A d \in Calls : got'[d] \in Seq(Gotten)
      BY <1>1, <1>5, <1>6 DEF RequestTypes
    <3>3. got' = [d \in Calls |-> got'[d]] /\ stage' = [d \in Calls |-> stage'[d]]
      BY <3>1, <1>1 DEF LayerDone, LayerFailed, RequestTypes
    <3>4. \A d \in Calls : stage'[d] \in {"idle", "materializing", "resolved", "failed"}
      BY <1>1, <1>5, <1>6 DEF RequestTypes
    <3> QED BY <3>2, <3>3, <3>4
  <2>2. \A d \in Calls : Len(got'[d]) <= Len(job[d])
    BY <1>1, <1>4, <1>5, <1>6 DEF RequestTypes
  <2> QED BY <2>1, <2>2, <1>1, <1>3 DEF RequestTypes
<1>9. CallIsOfLayer'
  BY <1>3, <1>5, <1>6 DEF ResolutionInv, CallIsOfLayer, Turn, Layer
<1>10. DefaultTracked' /\ CredentialsMatchRepo'
  BY <1>3 DEF ResolutionInv, DefaultTracked, Cached, CredentialsMatchRepo
<1>11. ASSUME NEW d \in Calls PROVE HashFits(d)'
  BY <1>3, <1>5 DEF ResolutionInv, HashFits
<1>12. ASSUME NEW d \in Calls PROVE StartBehind(d)'
  BY <1>3 DEF ResolutionInv, StartBehind, remotes
<1>13. ASSUME pc[c] = "done"
       PROVE  /\ b \in Commits => hash[c] = b
              /\ b \in Branches => /\ start[c][u][b] <= hash[c]
                                   /\ hash[c] <= clones[u].tracking[b]
  <2>1. /\ b \in Commits => hash[c] = b
        /\ b \in Branches => hash[c] <= clones[u].tracking[b]
    BY <1>7, <1>13 DEF HashFits
  <2>2. ASSUME b \in Branches
        PROVE  start[c][u][b] <= hash[c]
    <3>1. start[c][u][b] <= began[c]
      BY <2>2, <1>7, <1>13 DEF StartBehind
    <3>2. began[c] <= hash[c]
      BY <2>2, <1>7, <1>13 DEF BeganBehind, BeganFits
    <3>3. start[c][u][b] \in Nat /\ began[c] \in Nat /\ hash[c] \in Nat
      BY <2>2, <1>1, <1>4, NumbersAreNat
    <3> QED BY <3>1, <3>2, <3>3
  <2> HIDE DEF u, b
  <2> QED BY <2>1, <2>2
<1>14. ASSUME NEW d \in Calls, NEW i \in DOMAIN got'[d] PROVE GotFits(d, i)'
  <2>1. CASE d # c \/ got'[c] = got[c]
    <3>1. got'[d] = got[d]
      BY <2>1, <1>5
    <3> QED BY <3>1, <1>3 DEF ResolutionInv, GotFits
  <2>2. CASE d = c /\ got'[c] # got[c] /\ i \in 1..n
    <3>1. got'[c][i] = got[c][i] /\ GotFits(c, i)
      BY <2>2, <1>4, <1>6 DEF ResolutionInv
    <3> QED BY <2>2, <3>1, <1>3 DEF GotFits
  <2>3. CASE d = c /\ got'[c] # got[c] /\ i \notin 1..n
    <3>1. i = n + 1 /\ got'[c][i] = r /\ pc[c] = "done"
      BY <2>3, <1>4, <1>6
    <3> QED BY <2>3, <3>1, <1>3, <1>4, <1>13 DEF GotFits
  <2> QED BY <2>1, <2>2, <2>3
<1>15. LayersAdvance'
  <2> SUFFICES ASSUME NEW d \in Calls, NEW i \in DOMAIN got'[d], NEW j \in DOMAIN got'[d],
                      i < j, job[d][i].ref \in Branches, job[d][i].ref = job[d][j].ref,
                      got'[d][i].repo = got'[d][j].repo
               PROVE  got'[d][i].commit <= got'[d][j].commit
    BY <1>3 DEF LayersAdvance
  <2>1. CASE d # c \/ got'[c] = got[c]
    <3>1. got'[d] = got[d]
      BY <2>1, <1>5
    <3> QED BY <3>1 DEF ResolutionInv, LayersAdvance
  <2>2. CASE d = c /\ got'[c] # got[c] /\ j \in 1..n
    <3>1. i \in 1..n
      BY <2>2, <1>4, <1>6
    <3>2. got'[c][i] = got[c][i] /\ got'[c][j] = got[c][j]
      BY <2>2, <3>1, <1>6
    <3> QED BY <2>2, <3>1, <3>2, <1>4 DEF ResolutionInv, LayersAdvance
  <2>3. CASE d = c /\ got'[c] # got[c] /\ j \notin 1..n
    <3>1. j = n + 1 /\ got'[c][j] = r /\ pc[c] = "done"
      BY <2>3, <1>4, <1>6
    <3>2. i \in DOMAIN got[c] /\ got'[c][i] = got[c][i]
      BY <2>3, <3>1, <1>4, <1>6
    <3>3. job[c][i].ref = b /\ got[c][i].repo = u
      BY <2>3, <3>1, <3>2, <1>4
    <3> QED BY <2>3, <3>1, <3>2, <3>3, <1>7 DEF HashFits
  <2> QED BY <2>1, <2>2, <2>3
<1> QED BY <1>2, <1>8, <1>9, <1>10, <1>11, <1>12, <1>14, <1>15 DEF ResolutionInv

-----------------------------------------------------------------------------
(* The remotes and the process.                                            *)
LEMMA RemoteInv ==
  ASSUME ResolutionInv, Remote
  PROVE  ResolutionInv'
<1>1. PICK u \in Repos, b \in Branches :
        \/ Push(u, b) /\ UNCHANGED <<registry, recipe, requestVars>>
        \/ /\ DeleteBranch(u, b)
           /\ start' = [c \in Calls |-> [start[c] EXCEPT ![u][b] = 0]]
           /\ UNCHANGED <<registry, recipe, stage, job, got, own>>
  BY DEF Remote
<1>2. FetcherInv'
  BY <1>1, PushFetcherInv, DeleteBranchFetcherInv DEF ResolutionInv
<1>3. FetcherInv /\ FetcherTypeOK /\ RequestTypes
  BY DEF ResolutionInv, FetcherInv
<1>4. UNCHANGED <<process, clones, pc, src, cred, hash, registry, recipe, stage, job, got, own>>
  BY <1>1 DEF Push, DeleteBranch, calls, requestVars
<1>5. /\ \A v \in Repos, a \in Branches : tip[v][a] \in Nat
      /\ \A c \in Calls, v \in Repos, a \in Branches : start[c][v][a] \in Nat
  BY <1>3, NumbersAreNat
<1>6. ASSUME NEW c \in Calls, NEW v \in Repos, NEW a \in Branches
      PROVE  /\ start'[c][v][a] \in {start[c][v][a], 0}
             /\ tip'[v][a] < tip[v][a] => start'[c][v][a] = 0
             /\ tip'[v][a] \in Nat
  <2>1. CASE Push(u, b) /\ start' = start
    <3>1. tip'[v][a] = IF v = u /\ a = b THEN made[u] + 1 ELSE tip[v][a]
      BY <2>1, <1>3 DEF Push, FetcherTypeOK
    <3>2. made[u] \in Nat /\ tip[u][b] <= made[u]
      BY <1>3, <1>5 DEF FetcherInv, FetcherTypeOK, RemotesSound, Commits
    <3> QED BY <2>1, <3>1, <3>2, <1>5
  <2>2. CASE DeleteBranch(u, b) /\ start' = [d \in Calls |-> [start[d] EXCEPT ![u][b] = 0]]
    <3>1. tip'[v][a] = IF v = u /\ a = b THEN 0 ELSE tip[v][a]
      BY <2>2, <1>3 DEF DeleteBranch, FetcherTypeOK
    <3>2. start'[c][v][a] = IF v = u /\ a = b THEN 0 ELSE start[c][v][a]
      <4>1. start[c] \in [Repos -> [Branches -> Commits \cup {0}]]
        BY <1>3 DEF RequestTypes
      <4> QED BY <2>2, <4>1
    <3> QED BY <3>1, <3>2, <1>5
  <2> QED BY <1>1, <2>1, <2>2 DEF requestVars
<1>7. RequestTypes'
  <2>1. start' \in [Calls -> [Repos -> [Branches -> Commits \cup {0}]]]
    <3>1. CASE start' = start
      BY <3>1, <1>3 DEF RequestTypes
    <3>2. CASE start' = [c \in Calls |-> [start[c] EXCEPT ![u][b] = 0]]
      <4>1. ASSUME NEW c \in Calls
            PROVE  [start[c] EXCEPT ![u][b] = 0] \in [Repos -> [Branches -> Commits \cup {0}]]
        <5>1. start[c] \in [Repos -> [Branches -> Commits \cup {0}]]
          BY <1>3 DEF RequestTypes
        <5> QED BY <5>1
      <4> QED BY <3>2, <4>1
    <3> QED BY <1>1, <3>1, <3>2 DEF requestVars
  <2> QED BY <2>1, <1>3, <1>4 DEF RequestTypes
<1>8. CallIsOfLayer' /\ DefaultTracked' /\ LayersAdvance' /\ CredentialsMatchRepo'
  BY <1>4 DEF ResolutionInv, CallIsOfLayer, Turn, Layer, DefaultTracked, Cached,
              LayersAdvance, CredentialsMatchRepo
<1>9. ASSUME NEW c \in Calls PROVE HashFits(c)'
  BY <1>4 DEF ResolutionInv, HashFits
<1>10. ASSUME NEW c \in Calls, NEW i \in DOMAIN got[c] PROVE GotFits(c, i)'
  <2>1. GotFits(c, i) /\ got[c][i].repo \in Repos /\ got[c][i].commit \in Nat
    BY <1>3, GotsAreGotten DEF ResolutionInv, Commits
  <2> QED BY <2>1, <1>4, <1>6 DEF GotFits
<1>11. ASSUME NEW c \in Calls PROVE StartBehind(c)'
  <2>1. StartBehind(c) /\ src[c].repo \in Repos /\ began[c] \in Nat
    BY <1>3, NumbersAreNat DEF ResolutionInv, Sources
  <2>2. ASSUME NEW v \in Repos, NEW a \in Branches
        PROVE  start'[c][v][a] <= tip'[v][a]
    <3>1. /\ start[c][v][a] <= tip[v][a]
          /\ start[c][v][a] \in Nat /\ tip[v][a] \in Nat /\ tip'[v][a] \in Nat
      BY <2>1, <1>5, <1>6 DEF StartBehind
    <3>2. CASE tip'[v][a] < tip[v][a]
      BY <3>1, <3>2, <1>6
    <3>3. CASE tip'[v][a] >= tip[v][a]
      BY <3>1, <3>3, <1>6
    <3> QED BY <3>1, <3>2, <3>3
  <2>3. ASSUME pc[c] # "idle", src[c].ref \in Branches
        PROVE  start'[c][src[c].repo][src[c].ref] <= began'[c]
    <3>1. start[c][src[c].repo][src[c].ref] <= began[c]
      BY <2>1, <2>3 DEF StartBehind
    <3>2. CASE began'[c] = began[c]
      BY <2>1, <2>3, <3>1, <3>2, <1>6
    <3>3. CASE began'[c] # began[c]
      <4>1. DeleteBranch(u, b) /\ src[c] = [repo |-> u, ref |-> b] /\ began'[c] = 0
        BY <3>3, <1>1, <1>3 DEF Push, DeleteBranch, FetcherTypeOK
      <4>2. start'[c][u][b] = 0
        <5>1. \A d \in Calls : start[d] \in [Repos -> [Branches -> Commits \cup {0}]]
          BY <1>3 DEF RequestTypes
        <5>2. ~Push(u, b)
          BY <3>3 DEF Push
        <5> QED BY <5>1, <5>2, <1>1
      <4> QED BY <4>1, <4>2
    <3> QED BY <3>2, <3>3
  <2> QED BY <2>2, <2>3, <1>4 DEF StartBehind
<1> QED BY <1>2, <1>4, <1>7, <1>8, <1>9, <1>10, <1>11 DEF ResolutionInv

LEMMA RequestProcessInv ==
  ASSUME ResolutionInv, Process
  PROVE  ResolutionInv'
<1>1. FetcherInv' /\ FetcherTypeOK'
  BY ProcessFetcherInv DEF Process, ResolutionInv, FetcherInv
<1>2. /\ pc' = [c \in Calls |-> "idle"]
      /\ clones' = [u \in Repos |-> NoClone] \/ clones' = clones
      /\ UNCHANGED remotes
  <2>1. CASE Stop \/ RaceDetected
    BY <2>1 DEF Stop, RaceDetected, LoseMemory
  <2>2. CASE Restart
    <3>1. \A c \in Calls : pc[c] = "idle"
      BY <2>2 DEF Restart, ResolutionInv, CallIsOfLayer
    <3>2. /\ pc = [c \in Calls |-> pc[c]]
          /\ pc' = pc /\ clones' = clones /\ UNCHANGED remotes
      BY <2>2 DEF Restart, ResolutionInv, FetcherInv, FetcherTypeOK, calls
    <3> QED BY <3>1, <3>2
  <2> QED BY <2>1, <2>2 DEF Process, ProcessStep
<1>3. RequestTypes'
  <2>1. <<>> \in Seq(Gotten) /\ Len(<<>>) = 0
    OBVIOUS
  <2> QED BY <2>1 DEF Process, ResolutionInv, RequestTypes, NoTips
<1>4. CallIsOfLayer' /\ CredentialsMatchRepo'
  BY <1>2 DEF Process, CallIsOfLayer, CredentialsMatchRepo
<1>5. DefaultTracked'
  BY <1>2 DEF ResolutionInv, DefaultTracked, Cached, NoClone
<1>6. ASSUME NEW c \in Calls PROVE HashFits(c)' /\ DOMAIN got'[c] = {} /\ StartBehind(c)'
  <2>1. \A u \in Repos, b \in Branches : tip'[u][b] \in Nat
    BY <1>2, NumbersAreNat DEF ResolutionInv, FetcherInv, remotes
  <2> QED BY <1>2, <2>1 DEF Process, HashFits, StartBehind, NoTips
<1>7. LayersAdvance'
  BY <1>6 DEF LayersAdvance
<1> QED BY <1>1, <1>3, <1>4, <1>5, <1>6, <1>7 DEF ResolutionInv

LEMMA NextResolutionInv == ResolutionInv /\ [Next]_vars => ResolutionInv'
<1> SUFFICES ASSUME ResolutionInv, [Next]_vars PROVE ResolutionInv'
  OBVIOUS
<1>1. CASE \E n \in SourceNames : (\E e \in Entries : PutSource(n, e)) \/ DeleteSource(n)
  <2>1. /\ registry' \in [SourceNames -> Entries \cup {NoEntry}]
        /\ UNCHANGED <<fetcherVars, recipe, requestVars>>
    BY <1>1 DEF PutSource, DeleteSource, ResolutionInv, RequestTypes
  <2> QED BY <2>1, EditInv DEF ResolutionInv, RequestTypes
<1>2. CASE \E r \in Recipes : PutRecipe(r)
  BY <1>2, EditInv DEF PutRecipe, ResolutionInv, RequestTypes
<1>3. ASSUME NEW c \in Calls, Begin(c) \/ Work(c) \/ Answer(c) PROVE ResolutionInv'
  BY <1>3, BeginInv, NextLayerInv, SourceMissingInv, FetchInv, ReturnInv, MergeInv, AnswerInv
  DEF Work
<1>4. CASE UNCHANGED vars
  BY <1>4, EditInv DEF vars, ResolutionInv, RequestTypes
<1> QED BY <1>1, <1>2, <1>3, <1>4, RemoteInv, RequestProcessInv DEF Next

LEMMA ResolutionInvariance == Spec => []ResolutionInv
BY InitResolutionInv, NextResolutionInv, PTL DEF Spec

-----------------------------------------------------------------------------
(* Types: what a request collects are commits of repositories, one for     *)
(* each of its first layers.                                               *)
THEOREM ResolutionTypeCorrect == Spec => []TypeOK
<1>1. ResolutionInv => TypeOK
  <2> SUFFICES ASSUME ResolutionInv PROVE TypeOK
    OBVIOUS
  <2>1. ASSUME NEW c \in Calls, NEW i \in DOMAIN got[c]
        PROVE  got[c][i] \in [repo : Repos, commit : Commits]
    <3>1. got[c] \in Seq(Gotten)
      BY DEF ResolutionInv, RequestTypes
    <3>2. got[c][i] \in Gotten
      BY <2>1, <3>1
    <3> QED BY <3>2 DEF Gotten
  <2> QED BY <2>1 DEF ResolutionInv, FetcherInv, RequestTypes, TypeOK
<1> QED BY <1>1, ResolutionInvariance, PTL

(* An answer has one content per layer, in order, and a layer pinned to a  *)
(* commit has that commit.                                                 *)
THEOREM AnswersFit == Spec => []AnswerFitsLayers
<1>1. ResolutionInv => AnswerFitsLayers
  BY DEF ResolutionInv, CallIsOfLayer, GotFits, AnswerFitsLayers
<1> QED BY <1>1, ResolutionInvariance, PTL

(* No layer is older than its branch was when the request began.           *)
THEOREM LayersAreFresh == Spec => []LayersFresh
<1>1. ResolutionInv => LayersFresh
  <2> SUFFICES ASSUME ResolutionInv, NEW c \in Calls, NEW i \in DOMAIN got[c],
                      job[c][i].ref \in Branches
               PROVE  got[c][i].commit >= start[c][got[c][i].repo][job[c][i].ref]
    BY DEF LayersFresh
  <2>1. start[c][got[c][i].repo][job[c][i].ref] <= got[c][i].commit
    BY DEF ResolutionInv, GotFits
  <2>2. /\ got[c][i].repo \in Repos /\ got[c][i].commit \in Nat
        /\ start[c][got[c][i].repo][job[c][i].ref] \in Nat
    BY GotsAreGotten, NumbersAreNat DEF ResolutionInv, FetcherInv, Commits
  <2> QED BY <2>1, <2>2
<1> QED BY <1>1, ResolutionInvariance, PTL

(* Two layers of one branch are answered in the order of its commits.      *)
THEOREM LayersNeverGoBack == Spec => []LayersAdvance
<1>1. ResolutionInv => LayersAdvance
  BY DEF ResolutionInv
<1> QED BY <1>1, ResolutionInvariance, PTL

(* A fetch authenticates with credentials registered for its repository,   *)
(* or with none.                                                           *)
THEOREM CredentialsAreOfRepo == Spec => []CredentialsMatchRepo
<1>1. ResolutionInv => CredentialsMatchRepo
  BY DEF ResolutionInv
<1> QED BY <1>1, ResolutionInvariance, PTL

-----------------------------------------------------------------------------
(* When a layer is fetched with its own source's credentials: as long as   *)
(* nobody edits the registry and no two sources are of one repository.     *)
Unshared ==
  \A n, m \in SourceNames :
    /\ registry[n] # NoEntry
    /\ registry[m] # NoEntry
    /\ registry[n].repo = registry[m].repo
    => n = m

(* A call in progress is of a source that is registered, with the          *)
(* credentials its layer was looked up with.                               *)
CallsOfSources ==
  \A c \in Calls :
    pc[c] # "idle" =>
      \E n \in Owners(src[c].repo) : registry[n].auth = own[c]

OwnInv == Unshared /\ CallsOfSources /\ OwnCredentials

LEMMA UnsharedAuth ==
  ASSUME Unshared, NEW u \in Repos, NEW n \in Owners(u), NEW a \in AuthFor(u)
  PROVE  a \in {NoCred, registry[n].auth}
<1>1. Owners(u) = {n}
  BY DEF Owners, Unshared
<1>2. LookupByRepo(u) \subseteq {n}
  BY <1>1 DEF LookupByRepo
<1> QED BY <1>2 DEF AuthFor

(* A step that leaves the calls alone, or ends some of them.               *)
LEMMA EndedOwn ==
  ASSUME OwnInv, UNCHANGED registry,
         \A c \in Calls : \/ pc'[c] = "idle"
                         \/ /\ pc'[c] = pc[c] /\ src'[c] = src[c]
                            /\ cred'[c] = cred[c] /\ own'[c] = own[c]
  PROVE  OwnInv'
BY DEF OwnInv, Unshared, CallsOfSources, OwnCredentials, Owners

LEMMA NextLayerOwn ==
  ASSUME ResolutionInv, OwnInv, NEW c \in Calls, NextLayer(c)
  PROVE  OwnInv'
<1> DEFINE n == Layer(c).source
           u == registry[n].repo
<1>1. RequestTypes /\ FetcherTypeOK
  BY DEF ResolutionInv, FetcherInv
<1>2. n \in SourceNames /\ u \in Repos
  <2>1. Turn(c) \in 1..Len(job[c]) /\ Layer(c) = job[c][Turn(c)] /\ job[c] \in Seq(Layers)
    BY <1>1, JobsAreLayers, GotsAreGotten DEF NextLayer, Turn, Layer
  <2>2. Layer(c) \in Layers
    BY <2>1
  <2> QED BY <2>2, <1>1 DEF NextLayer, Layers, RequestTypes
<1>3. /\ pc'[c] \in {"failed", "waiting"} /\ src'[c].repo = u
      /\ own'[c] = registry[n].auth /\ registry[n] # NoEntry
      /\ \A d \in Calls \ {c} : /\ pc'[d] = pc[d] /\ src'[d] = src[d]
                                /\ cred'[d] = cred[d] /\ own'[d] = own[d]
      /\ UNCHANGED registry
  BY <1>1 DEF NextLayer, Call, FetcherTypeOK, RequestTypes
<1>4. n \in Owners(src[c].repo)'
  BY <1>2, <1>3 DEF Owners
<1> HIDE DEF n, u
<1>5. CallsOfSources'
  <2>1. ASSUME NEW d \in Calls, pc'[d] # "idle", d # c
        PROVE  \E m \in Owners(src[d].repo)' : registry'[m].auth = own'[d]
    BY <1>3, <2>1 DEF OwnInv, CallsOfSources, Owners
  <2> QED BY <1>3, <1>4, <2>1 DEF CallsOfSources
<1>6. Unshared' /\ OwnCredentials'
  BY <1>3 DEF OwnInv, Unshared, OwnCredentials
<1> QED BY <1>5, <1>6 DEF OwnInv

LEMMA FetchOwn ==
  ASSUME ResolutionInv, OwnInv, NEW c \in Calls, Fetch(c)
  PROVE  OwnInv'
<1> DEFINE u == src[c].repo
<1>1. FetcherTypeOK /\ u \in Repos
  BY DEF ResolutionInv, FetcherInv, FetcherTypeOK, Sources
<1>2. /\ UNCHANGED <<src, registry, own>>
      /\ pc[c] # "idle" /\ pc'[c] # "idle"
      /\ \A d \in Calls \ {c} : pc'[d] = pc[d] /\ cred'[d] = cred[d]
      /\ pc'[c] = "connecting" => cred'[c] \in AuthFor(u)
  BY FetchEffect DEF requestVars
<1>3. Unshared' /\ CallsOfSources'
  BY <1>2 DEF OwnInv, Unshared, CallsOfSources, Owners
<1>4. ASSUME pc'[c] = "connecting" PROVE cred'[c] \in {NoCred, own[c]}
  <2>1. PICK n \in Owners(u) : registry[n].auth = own[c]
    BY <1>2 DEF OwnInv, CallsOfSources
  <2> QED BY <2>1, <1>1, <1>2, <1>4, UnsharedAuth DEF OwnInv
<1>5. ASSUME pc'[c] = "storing" PROVE cred'[c] \in {NoCred, own[c]}
  <2>1. pc[c] = "connecting" /\ cred'[c] = cred[c]
    BY <1>1, <1>5 DEF FetcherTypeOK, Fetch, Lock, LookupAuth, FailLocked, Advertise,
                     NetworkFail, Store, ResolveRevision, Load
  <2> QED BY <2>1 DEF OwnInv, OwnCredentials
<1> QED BY <1>2, <1>3, <1>4, <1>5 DEF OwnInv, OwnCredentials

LEMMA NextOwnInv ==
  ASSUME ResolutionInv, OwnInv, [Next /\ UNCHANGED registry]_vars
  PROVE  OwnInv'
<1>1. RequestTypes /\ FetcherTypeOK
  BY DEF ResolutionInv, FetcherInv
<1>2. UNCHANGED registry
  BY DEF vars
<1>3. CASE UNCHANGED <<pc, src, cred, own>>
  BY <1>2, <1>3, EndedOwn
<1>4. ASSUME NEW c \in Calls, Answer(c) PROVE OwnInv'
  <2>1. pc'[c] = "idle"
    BY <1>4 DEF Answer, fetcherVars, ResolutionInv, CallIsOfLayer
  <2>2. \A d \in Calls \ {c} : /\ pc'[d] = pc[d] /\ src'[d] = src[d]
                              /\ cred'[d] = cred[d] /\ own'[d] = own[d]
    BY <1>1, <1>4 DEF Answer, fetcherVars, RequestTypes
  <2> QED BY <2>1, <2>2, <1>2, EndedOwn
<1>5. ASSUME NEW c \in Calls, LayerDone(c) \/ LayerFailed(c) PROVE OwnInv'
  <2>1. /\ pc'[c] = "idle"
        /\ \A d \in Calls \ {c} : /\ pc'[d] = pc[d] /\ src'[d] = src[d]
                                  /\ cred'[d] = cred[d] /\ own'[d] = own[d]
    BY <1>1, <1>5 DEF LayerDone, LayerFailed, Return, FetcherTypeOK, RequestTypes
  <2> QED BY <2>1, <1>2, EndedOwn
<1>6. CASE Process
  <2>1. \A c \in Calls : pc'[c] = "idle"
    BY <1>6 DEF Process, ProcessStep, Stop, RaceDetected, Restart, LoseMemory, calls,
               ResolutionInv, CallIsOfLayer
  <2> QED BY <2>1, <1>2, EndedOwn
<1>7. ASSUME NEW c \in Calls, NextLayer(c) \/ Fetch(c) PROVE OwnInv'
  BY <1>7, NextLayerOwn, FetchOwn
<1>8. \/ UNCHANGED <<pc, src, cred, own>>
      \/ \E c \in Calls : \/ Answer(c)
                          \/ LayerDone(c) \/ LayerFailed(c)
                          \/ NextLayer(c) \/ Fetch(c)
      \/ Process
  BY DEF Next, Work, PutSource, DeleteSource, PutRecipe, Begin, SourceMissing, Merge,
         Remote, Push, DeleteBranch, vars, fetcherVars, calls, requestVars
<1> QED BY <1>3, <1>4, <1>5, <1>6, <1>7, <1>8

(* What the documentation says of credentials (docs/07-open-questions.md)  *)
(* does hold of a registry that nobody edits and whose sources are all of  *)
(* different repositories: no fetch uses the credentials of a source other *)
(* than its own, whichever requests run at once.                           *)
THEOREM OwnCredentialsIfUnshared == StaticSpec /\ Unshared => []OwnCredentials
<1>1. Init /\ Unshared => OwnInv
  BY DEF Init, FetcherInit, OwnInv, CallsOfSources, OwnCredentials
<1>2. [Next /\ UNCHANGED registry]_vars => [Next]_vars
  OBVIOUS
<1>3. StaticSpec => []ResolutionInv
  BY <1>2, InitResolutionInv, NextResolutionInv, PTL DEF StaticSpec
<1>4. ResolutionInv /\ OwnInv /\ [Next /\ UNCHANGED registry]_vars => OwnInv'
  BY NextOwnInv
<1>5. OwnInv => OwnCredentials
  BY DEF OwnInv
<1> QED BY <1>1, <1>3, <1>4, <1>5, PTL DEF StaticSpec
=============================================================================

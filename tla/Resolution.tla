----------------------------- MODULE Resolution -----------------------------
(***************************************************************************)
(* Resolving a Recipe: recipesource.Store.Resolve reads the latest spec,   *)
(* Spec.Materialize walks its layers one at a time (look the layer's       *)
(* source up in the registry, then Content of the Fetcher), and a resolve  *)
(* is answered when every layer has its content.  Between two of these     *)
(* steps the registry, the Recipe and the remotes may change: a resolve is *)
(* not a snapshot of any of them.                                          *)
(*                                                                         *)
(* The calls of the Fetcher are those of the requests: each request has at *)
(* most one under way.                                                     *)
(***************************************************************************)
EXTENDS Fetcher, Sequences

CONSTANTS NumSources,   \* source names, numbered in the order of their keys
          Entries,      \* what may be registered under a name: [repo, auth]
          NoEntry,      \* nothing is registered under the name
          Recipes,      \* specs: sequences of layers [source, ref]
          NoRecipe,     \* no spec is stored
          Accepts       \* Accepts[u]: the credentials remote u lets in

SourceNames == 1..NumSources

Layers == [source : SourceNames, ref : Refs \cup {NoRef}]

ASSUME EntriesAssumption ==
  /\ Entries \subseteq [repo : Repos, auth : Creds \cup {BadCred}]
  /\ NoEntry \notin Entries
ASSUME RecipesAssumption ==
  /\ \A r \in Recipes : r \in Seq(Layers)
  /\ NoRecipe \notin Recipes
ASSUME AcceptsAssumption == Accepts \in [Repos -> SUBSET Creds]

VARIABLES registry,   \* bucket "git_sources"
          recipe,     \* the latest spec of the Recipe
          stage,      \* stage[c]: where request c stands
          job,        \* job[c]: the layers it materializes
          got,        \* got[c]: the contents it has, [repo, commit] per layer
          start,      \* ghost: the tips when c began, 0 once a branch is deleted
          own         \* ghost: what the source of c's current layer is registered with

requestVars == <<stage, job, got, start, own>>
vars == <<fetcherVars, registry, recipe, requestVars>>

NoTips == [u \in Repos |-> [b \in Branches |-> 0]]

Init ==
  /\ FetcherInit
  /\ registry \in [SourceNames -> Entries \cup {NoEntry}]
  /\ recipe \in Recipes \cup {NoRecipe}
  /\ stage = [c \in Calls |-> "idle"]
  /\ job = [c \in Calls |-> <<>>]
  /\ got = [c \in Calls |-> <<>>]
  /\ start = [c \in Calls |-> NoTips]
  /\ own = [c \in Calls |-> NoCred]

-----------------------------------------------------------------------------
(* The registry.  A put without a name or a repository is refused, and     *)
(* changes nothing.                                                        *)
PutSource(n, e) ==
  /\ registry' = [registry EXCEPT ![n] = e]
  /\ UNCHANGED <<fetcherVars, recipe, requestVars>>

DeleteSource(n) ==
  /\ registry' = [registry EXCEPT ![n] = NoEntry]
  /\ UNCHANGED <<fetcherVars, recipe, requestVars>>

(* LookupByRepo: the first source, in the order of the names, with that    *)
(* repository URL, as a set: there may be none.                            *)
Owners(u) == {n \in SourceNames : registry[n] # NoEntry /\ registry[n].repo = u}

LookupByRepo(u) == {n \in Owners(u) : \A m \in Owners(u) : n <= m}

(* Mutant of AuthFor: the credentials of the first source of all.          *)
AuthOfFirst(u) ==
  IF Owners(u) = {} THEN {NoCred}
  ELSE {registry[n].auth : n \in {n \in SourceNames :
          registry[n] # NoEntry /\ \A m \in 1..(n - 1) : registry[m] = NoEntry}}

(* FromSources: no source, or one without credentials, is no authentication; *)
(* and LookupByRepo says that there is no source when it cannot read them.   *)
AuthFor(u) == {NoCred} \cup {registry[n].auth : n \in LookupByRepo(u)}

PutRecipe(r) ==
  /\ recipe' = r
  /\ UNCHANGED <<fetcherVars, registry, requestVars>>

-----------------------------------------------------------------------------
(* A request to resolve reads the latest spec, once.                       *)
Begin(c) ==
  /\ process = "up"
  /\ stage[c] = "idle"
  /\ IF recipe = NoRecipe
     THEN /\ stage' = [stage EXCEPT ![c] = "failed"]
          /\ UNCHANGED job
     ELSE /\ stage' = [stage EXCEPT ![c] = "materializing"]
          /\ job' = [job EXCEPT ![c] = recipe]
  /\ start' = [start EXCEPT ![c] = tip]
  /\ UNCHANGED <<fetcherVars, registry, recipe, got, own>>

(* The layer whose turn it is.                                             *)
Turn(c) == Len(got[c]) + 1
Layer(c) == job[c][Turn(c)]

(* ResolveSource of the next layer, then the call of Content.              *)
NextLayer(c) ==
  LET e == registry[Layer(c).source] IN
  /\ stage[c] = "materializing"
  /\ pc[c] = "idle"
  /\ Turn(c) <= Len(job[c])
  /\ e # NoEntry
  /\ Call(c, [repo |-> e.repo, ref |-> Layer(c).ref])
  /\ own' = [own EXCEPT ![c] = e.auth]
  /\ UNCHANGED <<registry, recipe, stage, job, got, start>>

SourceMissing(c) ==
  /\ stage[c] = "materializing"
  /\ pc[c] = "idle"
  /\ Turn(c) <= Len(job[c])
  /\ registry[Layer(c).source] = NoEntry
  /\ stage' = [stage EXCEPT ![c] = "failed"]
  /\ UNCHANGED <<fetcherVars, registry, recipe, job, got, start, own>>

(* Inside Content: the credentials come from the registry as it is now,    *)
(* and the remote lets in who it accepts.                                  *)
Fetch(c) ==
  /\ \/ Lock(c)
     \/ \E a \in AuthFor(src[c].repo) : LookupAuth(c, a)
     \/ cred[c] \in Accepts[src[c].repo] /\ Advertise(c)
     \/ NetworkFail(c)
     \/ Store(c)
     \/ ResolveRevision(c)
     \/ Load(c)
  /\ UNCHANGED <<registry, recipe, requestVars>>

(* Mutant of LayerDone: the contents are collected last one first.         *)
LayerDoneFirst(c) ==
  /\ pc[c] = "done"
  /\ got' = [got EXCEPT ![c] =
               <<[repo |-> src[c].repo, commit |-> hash[c]]>> \o @]
  /\ Return(c)
  /\ UNCHANGED <<registry, recipe, stage, job, start, own>>

LayerDone(c) ==
  /\ pc[c] = "done"
  /\ got' = [got EXCEPT ![c] =
               Append(@, [repo |-> src[c].repo, commit |-> hash[c]])]
  /\ Return(c)
  /\ UNCHANGED <<registry, recipe, stage, job, start, own>>

LayerFailed(c) ==
  /\ pc[c] = "failed"
  /\ stage' = [stage EXCEPT ![c] = "failed"]
  /\ Return(c)
  /\ UNCHANGED <<registry, recipe, job, got, start, own>>

(* Mutant of Merge: the last layer is not waited for.                      *)
MergeEarly(c) ==
  /\ stage[c] = "materializing"
  /\ pc[c] = "idle"
  /\ Turn(c) >= Len(job[c])
  /\ stage' = [stage EXCEPT ![c] = "resolved"]
  /\ UNCHANGED <<fetcherVars, registry, recipe, job, got, start, own>>

(* resolve.Resolve merges what was fetched, or fails on it.                *)
Merge(c) ==
  /\ stage[c] = "materializing"
  /\ pc[c] = "idle"
  /\ Turn(c) > Len(job[c])
  /\ \/ stage' = [stage EXCEPT ![c] = "resolved"]
     \/ stage' = [stage EXCEPT ![c] = "failed"]
  /\ UNCHANGED <<fetcherVars, registry, recipe, job, got, start, own>>

(* Mutant of Answer: the list of contents outlives the request.           *)
AnswerKeepsContents(c) ==
  /\ stage[c] \in {"resolved", "failed"}
  /\ stage' = [stage EXCEPT ![c] = "idle"]
  /\ job' = [job EXCEPT ![c] = <<>>]
  /\ start' = [start EXCEPT ![c] = NoTips]
  /\ own' = [own EXCEPT ![c] = NoCred]
  /\ UNCHANGED <<fetcherVars, registry, recipe, got>>

Answer(c) ==
  /\ stage[c] \in {"resolved", "failed"}
  /\ stage' = [stage EXCEPT ![c] = "idle"]
  /\ job' = [job EXCEPT ![c] = <<>>]
  /\ got' = [got EXCEPT ![c] = <<>>]
  /\ start' = [start EXCEPT ![c] = NoTips]
  /\ own' = [own EXCEPT ![c] = NoCred]
  /\ UNCHANGED <<fetcherVars, registry, recipe>>

(* What happens to the remotes and to the process, seen by the requests.   *)
Remote ==
  \E u \in Repos, b \in Branches :
    \/ Push(u, b) /\ UNCHANGED <<registry, recipe, requestVars>>
    \/ /\ DeleteBranch(u, b)
       /\ start' = [c \in Calls |-> [start[c] EXCEPT ![u][b] = 0]]
       /\ UNCHANGED <<registry, recipe, stage, job, got, own>>

Process ==
  /\ ProcessStep
  /\ stage' = [c \in Calls |-> "idle"]
  /\ job' = [c \in Calls |-> <<>>]
  /\ got' = [c \in Calls |-> <<>>]
  /\ start' = [c \in Calls |-> NoTips]
  /\ own' = [c \in Calls |-> NoCred]
  /\ UNCHANGED <<registry, recipe>>

Work(c) ==
  \/ NextLayer(c)
  \/ SourceMissing(c)
  \/ Fetch(c)
  \/ LayerDone(c)
  \/ LayerFailed(c)
  \/ Merge(c)

Next ==
  \/ \E n \in SourceNames : (\E e \in Entries : PutSource(n, e)) \/ DeleteSource(n)
  \/ \E r \in Recipes : PutRecipe(r)
  \/ \E c \in Calls : Begin(c) \/ Work(c) \/ Answer(c)
  \/ Remote
  \/ Process

Spec == Init /\ [][Next]_vars

(* The system while nobody edits the registry.                             *)
StaticSpec == Init /\ [][Next /\ UNCHANGED registry]_vars

(* Goroutines are scheduled, network operations end, and the mutex is      *)
(* handed to a waiter that was passed over too often.                      *)
Fairness ==
  \A c \in Calls :
    /\ WF_vars(Work(c))
    /\ SF_vars(Lock(c) /\ UNCHANGED <<registry, recipe, requestVars>>)

FairSpec == Spec /\ Fairness

-----------------------------------------------------------------------------
(* Every variable stays in the set of values its part of the code can hold. *)
TypeOK ==
  /\ FetcherTypeOK
  /\ registry \in [SourceNames -> Entries \cup {NoEntry}]
  /\ recipe \in Recipes \cup {NoRecipe}
  /\ stage \in [Calls -> {"idle", "materializing", "resolved", "failed"}]
  /\ \A c \in Calls :
       /\ job[c] \in Recipes \cup {<<>>}
       /\ Len(got[c]) <= Len(job[c])
       /\ \A i \in DOMAIN got[c] : got[c][i] \in [repo : Repos, commit : Commits]
  /\ start \in [Calls -> [Repos -> [Branches -> Commits \cup {0}]]]
  /\ own \in [Calls -> Creds \cup {BadCred}]

(* An answer has one content per layer, in the order of the layers, and a  *)
(* layer pinned to a commit has exactly that commit, whatever else was     *)
(* fetched into the same clones in the meantime.                           *)
AnswerFitsLayers ==
  \A c \in Calls :
    stage[c] = "resolved" =>
      /\ Len(got[c]) = Len(job[c])
      /\ \A i \in DOMAIN got[c] :
           job[c][i].ref \in Commits => got[c][i].commit = job[c][i].ref

(* No layer that follows a branch is older than the branch was when the    *)
(* request began, though layers are fetched one by one through clones that *)
(* other requests update.                                                  *)
LayersFresh ==
  \A c \in Calls : \A i \in DOMAIN got[c] :
    job[c][i].ref \in Branches =>
      got[c][i].commit >= start[c][got[c][i].repo][job[c][i].ref]

(* Within one answer a later layer never goes back in time: two layers     *)
(* that follow the same branch of the same repository see it in order.     *)
LayersAdvance ==
  \A c \in Calls : \A i, j \in DOMAIN got[c] :
    /\ i < j
    /\ job[c][i].ref \in Branches
    /\ job[c][i].ref = job[c][j].ref
    /\ got[c][i].repo = got[c][j].repo
    => got[c][i].commit <= got[c][j].commit

(* A fetch authenticates as a source of the repository it fetches, or not  *)
(* at all, however the registry changes while the request is under way.    *)
CredentialsMatchRepo ==
  \A c \in Calls :
    pc[c] = "connecting" =>
      cred[c] \in {NoCred} \cup {e.auth : e \in {f \in Entries : f.repo = src[c].repo}}

(* Every request to resolve is answered (or the process ends).             *)
RequestsAnswered ==
  \A c \in Calls : stage[c] = "materializing" ~> stage[c] # "materializing"

(* What the documentation says and the code does not do: a layer is        *)
(* fetched with its own source's credentials (docs/07-open-questions.md),  *)
(* or with none where the registry could not be read, never with those of  *)
(* another source.  Checked where the registry does not change.            *)
OwnCredentials ==
  \A c \in Calls :
    pc[c] \in {"connecting", "storing"} => cred[c] \in {NoCred, own[c]}
=============================================================================

# TLA+ models of configblender

configblender resolves *Recipes*: ordered stacks of configuration layers, kept
in Git, which are merged into one config tree together with an *explain* that
says where each leaf is from. A central server stores Recipes and a registry of
Git sources and answers resolves; in each cluster a controller keeps ConfigMaps
in sync with what Recipes resolve to. These modules model the parts of the
program that keep state or decide something, check them with TLC on small
instances, and prove the central ones with TLAPS.

All paths below are relative to the repository's root, `src/` in `PROJECT.json`.

## 1. Inventory

| Component | State | Operations | Interacts with |
|---|---|---|---|
| Recipe database, `recipedb` | two bbolt buckets: the latest spec per name, every version per name | Put, Get, GetVersion, ListVersions, Rollback, Delete | called by the store facade |
| Store facade, `internal/recipesource` | none of its own: one bbolt file, one fetcher | Put, Rollback, Delete, PutSource, DeleteSource, Resolve | called by HTTP handlers, CLI, manager |
| Git fetcher, `gitsource` | one in-memory clone per repository, one mutex | Content (clone or fetch, resolve the ref, read the file) | remotes; asks the registry for credentials |
| Registry, `internal/gitsourcedb`, `internal/gitauth` | bucket of sources with credentials | Put, Delete, ResolveSource, LookupByRepo | read twice per layer |
| Specs, `recipe` | none | Materialize, MergeStrategyFor | registry, fetcher |
| Engine, `resolve` | the trees being merged | Resolve, mergeValue, runDynamicLayer | Starlark |
| Controller, `internal/controller`, `cmd/manager` | ConfigBlend status, ConfigMaps (API server); cache, queue, timers | Reconcile | API server, a resolver (local or central) |
| Central server, `internal/centralserver`, `cmd/server` | the open database file, the write token; a session is a signed cookie in the browser | fourteen routes, a gate before those that write, login and logout | all of the above |
| Client and wire format, `internal/centralclient`, `internal/centralapi` | none | every store operation as a request and back | server |
| Command line, `cmd/configblender`, `internal/cli` | the database file, for one command | one operation per process, in memory or through the client; prints configs, explains, annotated views | store facade, client, engine |
| Web UI, `webui` | the selection, the loaded spec, drafts, answers in flight | select, create, edit, save, list versions, compare, roll back | server |

What is hard: requests interleave between the two transactions of a rollback and
between the layers of a resolve; clones are shared between calls and read outside
of their mutex; the registry is read at two moments for one layer; remotes move
under everything; the controller works from a stale cache with optimistic
locking, and triggers itself; processes die anywhere; layers turn mappings into
leaves and back; the same operation is reached in memory and over HTTP, by routes
that share prefixes with names; the server keeps no sessions; a database file has
one holder at a time and is waited for without a timeout; answers reach the
browser after the user has moved on. `PROJECT.json` lists each such hazard at its
line, with the properties that watch it or the reason there is none.

What makes each part correct:

- database: buckets agree, history is dense and append-only, acknowledged writes
  survive, a rollback is as good as atomic, only the addressed Recipe changes;
- fetcher: the lock is always released, an answer is of the branch that was asked
  for, branches are fresh and never regress under concurrent fetches;
- resolving: an answer has exactly its layers, none older than the request, none
  fetched with the credentials of another repository, and there is always an answer;
- engine: the config is what the layers say together, the explain mirrors it and
  tells the truth;
- controller: nobody is forgotten, a ready status is about the current spec,
  owners are respected, the last good config stays, and everything converges;
- server, client and command line: an operation means the same remotely as
  locally, nothing is written without a proof of the token of now, sessions
  survive restarts and nothing else, and every call ends; however a Recipe is
  consulted, a value is attributed to the layer that set it last;
- web UI: what is compared, shown and saved belongs to one Recipe.

## 2. Modules

| Module | Models |
|---|---|
| `VersionedStore` | what the Recipe database promises: one log per name, atomic operations |
| `RecipeDB` | the database behind facade and HTTP handlers; refines `VersionedStore` |
| `Fetcher` | `gitsource.Fetcher`, its remotes and its process |
| `Resolution` | extends `Fetcher`: registry, credentials, Materialize, concurrent resolves |
| `ConfigBlendController` | Reconcile, cache, queue, API server, users |
| `MergeEngine` | Resolve and the merge of trees, layer by layer |
| `MergeValue` | extends `MergeEngine`: mergeValue's own recursion, to compare with |
| `Consultation` | extends `MergeEngine`: what JSON and YAML make of a result, `resolve`, `explain`, `explain --key`, the annotated view |
| `CentralService` | commands, client, routes, gate, sessions, the server's process, the file lock |
| `WebUI` | the Recipe screens of the browser and their asynchronous answers |
| `RecipeDBProofs`, `FetcherProofs`, `ResolutionProofs`, `ControllerProofs`, `MergeProofs`, `ConsultationProofs`, `CentralProofs` | the theorems, section 5 |
| `InductionBySets` | induction and recursion for those proofs, section 5 |
| `MCRecipeDB`, `MCFetcher`, `MCResolution`, `MCController`, `MCMerge`, `MCCentral` | constants and symmetry for TLC |

`Resolution` composes the fetcher with the registry and the requests.
`CentralService` composes clients, server and store, whose operations are one
step each there: for rollbacks this is what the refinement of `VersionedStore`
justifies, and resolves, whose layers are fetched at different moments, are taken
apart in `Resolution`.

Operators whose comment says *Mutant of ...* are not part of the model. Each is a
plausible bug of the operator that follows it; put in its place it breaks one of
the properties, which shows that the property depends on the code.

### RecipeDB

`latest` and `history` are the buckets. A bbolt Update is atomic, durable and
exclusive, so a transaction is one action; `pc`, `req` and `held` are what a
handler's goroutine has in its hands between transactions. A put is `PutRequest`
(decode, rename to the address), `Commit` (or `Reject`) and `Reply`; a rollback
reads (`RollbackRead`, `RollbackNotFound`) and then goes through the same
`Commit`. `ReplyLost` is a failure or a broken connection. `Crash` forgets the
goroutines, `Restart` changes nothing because buckets are created only if they
are missing. Marshalling and transaction errors are not modelled: they leave the
buckets as they were, like a reply that reports a failure. `StoreSpec` adds
`Delete`, which nothing in the program calls. A spec is its name and an opaque
body: the database looks at nothing else.

### Fetcher and Resolution

Commits of a repository are numbered in the order they were made, so *fresher*
is `>=`; a force-push makes a new commit, and one that puts an earlier commit
back is left out. Each branch has commits of its own, so that an answer can be
told to be of another branch (`line`). A clone has tracking refs, a HEAD, and
objects. `Call`, `Lock`, `LookupAuth`, `Advertise`, `Store`, `ResolveRevision`,
`Load`, `Return` are the steps of `Content`; everything from `Lock` to `Store`
holds the mutex, with `FailLocked` for each error return. The split between
`Advertise` and `Store` is what the remote says and what is written later.
`RaceDetected` is the runtime's reaction to a read of a clone during a fetch
into it; without it the read sees the clone before or after. Tags are left out;
a ref that is a number is a SHA. `Resolution` drives the calls: `Begin` reads
the spec, `NextLayer` asks the registry by name, `Fetch` asks it again by
repository (`AuthFor`, which has no credentials where the registry cannot be
read), `LayerDone` collects, `Merge` and `Answer` end. Sources are numbered in
the order of their keys, which is the order of the scan. Merging is one step
that may fail; the engine has its own module.

### ConfigBlendController

The API server is external: it refuses an update from an old copy. Instead of
resource versions, which only grow, a copy is marked as current or not
(`cbKnown`, `cmKnown`, `run.current`). `Take`, `ResolveOk`/`ResolveFail`,
`SyncTarget` (CreateOrUpdate, including a create that finds the object, an owner
that is somebody else, nothing to write, and a conflict) and `ReportStatus` are
Reconcile; `SyncError` and `StatusError` are failed calls of the API server,
whose write was carried out or not. Events (`DeliverBlend`, `DeliverMap`) fill
the queue as `For` and `Owns` without predicates do. Left out: re-creation of a
deleted ConfigBlend, several namespaces (nothing crosses them), several
controller replicas (leader election is not configured and one replica is
deployed), and the reads of the live API.

### MergeEngine and MergeValue

A tree is a function from paths to nodes. What the recursion of mergeValue does
is then said at once: a path of the patch wins, a path of the base stays unless
the patch has something other than a mapping above it, lists are combined by the
strategy of the dotted path. `MergeValue` has the recursion of the code, value
and explain together, and `MergeAgrees` compares the two from every reachable
config. Within one merge the path of a call of mergeValue determines its other
arguments, so the recursion is a function of the path. `AddAll` is the loop of
unionLists, item by item. Keys are sequences of words, so that `a.b` as a key
and `b` below `a` have one dotted path, as in the code. Items print (`Text`),
and union compares what they print. A dynamic layer may yield any content
without values that Starlark cannot express, and may run only on a config
without them; its script, steps and timeout are the interpreter's and appear as
a failure that is always possible.

### Consultation

`Results` is what the process that prints has: the engine's own values
(`LocalResult`), or what is left of them after JSON (`RemoteResult`): numbers are
floats, times are strings, a Provenance is a map with the keys `layer` and
`source`, and a config that JSON cannot express, in a list or outside of one,
leaves an answer without a body, because the status 200 is sent before the
encoding. A source carries the order in which YAML prints its keys: as the struct
declares them (`Declared`) or, for a decoded map, sorted (`Sorted`); every layer of
a stored Recipe has one. `Printed` is what `yaml.Marshal` makes of a value as
far as the sides may differ: an exponent for a large float, quotes for a string
that reads as a time. `LookupPath` is `explain --key`, `AsProvenance` the type
switch with its two forms, each with a layer and a source, and `FormatAnnotated`
the annotated view without its layout.

### CentralService

A process does an operation on a local database (`StartLocal`, `OpenFile`,
`Operate`) or through the client (`StartRemote`, `Receive`); a browser sends
requests with its cookie. `ReadRequest`, `ResolveRequest`, `WriteRequest`,
`SourceRequest` and `SessionRequest` are what the client (or the UI's `api.ts`)
makes of an operation, `Routes` is the table of the mux, `Decoded` what a handler
reads from the path, the query and the body, `Answer` and `Effect` are the store
facade, `Status` and `Body` the mapping of its errors, `Outcome` what the client
makes of them. So a route that leads a request to the wrong handler, a field
read from the wrong part, or a status the client does not expect breaks
`RemoteLikeLocal`. `Admitted` is `requireToken`: without a configured token there
are no writes; else a valid cookie or the bearer admits them. A cookie is signed
with a key derived from the token, and the server stores nothing: `Crash`, and
`Boot` with another token, do to sessions what a deployment does. `holder` is who
has the database file open; `OpenFile` and `Boot` wait for it, for as long as it
takes. A connection may break before the server has acted or after.

### WebUI

A handler runs to its first `await`, and what follows it runs when the answer
arrives, with whatever is selected then; answers come in any order. `Render`
stands for what Vue does after each handler: components are mounted and
unmounted by the template's conditions (`Mounted`), and their watchers copy a new
spec into the draft and reload the history. A Recipe's content is named by the
Recipe it was written for, which is all the property needs.

## 3. Runs

| Run | Instance | Shows |
|---|---|---|
| `recipe_db` | 2 names and the empty one, 2 bodies, 2 clients, 3 versions | the database with crashes, and its refinement |
| `fetcher` | 1 repository, 2 branches, 3 commits, 2 calls | mutex, no branch taken for another, freshness, no regression |
| `resolution` | the same with Recipes of two layers | the layers of an answer |
| `registry` | 2 repositories, 2 sources, 2 requests, fair | credentials, and that requests are answered |
| `controller` | 2 ConfigBlends, 2 ConfigMaps, 2 disturbances | safety of the sync |
| `controller_live` | 1 ConfigBlend, 2 ConfigMaps, 2 configs, 2 disturbances, fair | convergence |
| `merge` | 3 layers, 9 contents, 3 policies | the engine, and every way to consult its result |
| `central` | 1 browser, 1 process, 2 tokens, 2 Recipes, 1 source, 2 versions, fair | remote is like local, writes are proven, sessions hold, calls end |
| `fetcher_race`, `fetcher_head`, `shared_repo`, `webui` | as above; the UI with 2 Recipes, 2 versions, 3 requests in flight | four disagreements, section 6 |

Why the bounds are enough. Two clients suffice for every pairwise interleaving,
and no handler waits for more than one other. Three versions allow a rollback of
the first over a second. Three commits let two calls see different states of a
branch that is then force-pushed, and one of the three lacks the file. Two
sources cover both a shared URL and distinct ones. Two disturbances at any
points of the two-ConfigBlend instance include each pair of kinds
(`MaxTroubles`), such as an edit and a failure, or a deletion and a restart;
every choice of targets is initial, so shared targets need none. In
`controller_live` the one ConfigBlend may be given another target by an edit;
nobody shares or holds it there, so the exceptions that `Converges` makes for
those cases (`SharesTarget`, `HeldByOther`) are not exercised. `Seconds` makes
two timestamps equal or different. Three layers are needed for a list that is
reset between two others, and for a mapping that becomes a leaf and a mapping
again. Symmetry is used for names, bodies, clients, calls, ConfigBlends and
ConfigMaps, only in runs without liveness.

In `central` the Recipe `versions` and the source `test` have names that are
words of the API's own paths, which is where fourteen routes could be confused.
Names that are empty, `.` or `..` are left out: the mux cleans such paths before
it routes them. One browser and one process race with each other, with the
server's end and its redeployment, and with the clock; a session lasts one tick
(`TTL`, `MaxTime`), so that it is seen before and after its end. `Room` stops
writes at `MaxVersions`; two versions are enough for a rollback to differ from
the latest. There is one process, and not two, because two that poll one file
lock may starve each other, and the code promises no order.

Deadlock is checked everywhere except in `merge`, where a resolve ends.

## 4. Fairness

- A goroutine that can run will run, and a network operation ends one way or the
  other: weak fairness of the steps of a call. The code sets no timeout of its
  own, so this is an assumption on the transport.
- `sync.Mutex` hands itself to a waiter that was passed over for a millisecond
  (its starvation mode): strong fairness of `Lock`.
- The manager's watches deliver, timers fire, and the queue is first in, first
  out: weak fairness of deliveries and timers, strong fairness of `Take`. Resolves
  end: weak fairness of the successful steps of Reconcile.
- In `central`, the goroutines of the server run and responses arrive, a refused
  connection is noticed, and a command that polls a free file gets it: weak
  fairness of what each client's call can do next (`Proceed`). Nothing obliges a
  server to start or to end, or a connection to break; hence the one way for a
  call not to end, in `EveryCallEnds`: a local command on the file of a running
  server.
- Nothing is assumed of users, pushes, crashes and failures; `Converges` speaks
  of behaviours in which a bounded number of them happen (`MaxTroubles`).

## 5. Proofs

Each theorem holds for every value of the constants, under the assumptions named
in the module that declares them. The runs check the same formulas on the small
instances above.

**Recipe database** (`RecipeDBProofs`). Each property of the run `recipe_db`. The
inductive invariant `IInv` adds to them what is needed for one step:
`DenseHistory` (the stored versions are exactly `1..LastVersion`), `HandlersHold`
(what a handler at each stage has in memory, with its name equal to the address)
and `CommittedIsStored` (a commit that is not yet answered is in the history).
`LatestIsNewestVersion` alone is not inductive, because the version it is about
is computed from the history's last key; density makes that key the count, and
each write is then an append at the end. For the refinement, each action is
mapped to a step of `VersionedStore` or a stutter; the step that needs the
invariant is the commit of a rollback, where `HeldSpecStillStored` says that what
was read is what the abstract store restores now. The part of the invariant that
does not depend on history being kept, `StoreInv`, is also proved of `StoreSpec`,
the database as a library, in which a Delete may fall between the two
transactions of a rollback: buckets agree, versions have no hole, names match.

**Fetcher** (`FetcherProofs`). Types, the mutex, that no branch is taken for
another, freshness and the absence of regression. `FetcherInv` links four moments of one
branch: what the remote had when the call began (`BeganBehind`), what the call
has been told while it holds the mutex (`SeenSound`), what the clone tracks
(`ClonesBehind`) and what the remote has now. Freshness needs that nobody else
can store between a call's advertisement and its own store, which is
`MutexHeldInRepo`; regression needs that what was advertised under the mutex is
at least what is tracked. `BranchInv` says that whatever a clone tracks, or a call
has been told, of a branch was a commit of that branch, and that branches share
none; so a ref of a branch that is gone is stale but is never another branch.

**Resolving** (`ResolutionProofs`, on top of `FetcherInv`). What an answer has
for each layer. `ResolutionInv` says of a call in progress that it is the one of
the layer whose turn it is, and of each collected content that its commit lies
between the tip when the request began and what the clone tracks now; since
tracking never goes back, later layers are never older. Credentials: what a
fetch holds was registered for the repository it fetches, though the registry
may have changed since the lookup by name. Of the disagreement that
`shared_repo` shows, `OwnCredentialsIfUnshared` says what it takes: while nobody
edits the registry and no two sources are of one repository, a layer is fetched
with the credentials of its own source, or with none where the registry could
not be read. Its invariant, `OwnInv`, finds for each call in progress a
registered source of the repository with the credentials the layer was looked up
with; where only one source has the repository, that is the one the lookup by
repository answers.

**Controller** (`ControllerProofs`). `ControllerInv` adds to the types and to
`NeverForgotten` what a copy marked as current says: that it is the API server's
object (`BlendsCached`, `MapsCached`), and that a reconcile whose copy is the
latest has the current spec in hand, a resolved config when it syncs, and a Ready
about its own spec when it reports (`RunFits`). `NeverForgotten` needs it because
a key is dropped for good exactly when the cache says that the ConfigBlend is
gone. The owner of a ConfigMap, and the data it is given, follow from what one
write may be (`WritesOfMaps`).

**Engine** (`MergeProofs`). Types; config and explain are trees, of one shape; the
config is what the layers say together; the explain names the last setter of each
leaf; and mergeValue's recursion computes all this. The invariant carries the
setter itself (`LastSetterNamed`), so that no maximum has to be shown to exist; the
step is `SettersAfterLayer`: a layer adds itself to the setters of its own paths
and leaves alone those of the paths it keeps. For `ConfigIsCombination`, a list of
the config is the combination of the lists gathered since the path last was
something else (`ListOfConfig`), and one more layer either starts a new gathering
or appends its list to the old one (`GatheredAfterLayer`); that uniting step by
step is uniting at once is `UnionInSteps`, by induction on the later list, and
`UnionIsDistinct` says that unionLists does what it promises. For `MergeAgrees`, the
merge of trees solves the equations of the recursion one call deep
(`LaidOverMapping`, `LaidOverLeaf`), and over a finite patch they have one solution
(`TreeInduction`); that a document is finite is `FiniteAssumption`.

**Consultation** (`ConsultationProofs`, on top of the engine's). A plain path, whose
keys have no dots, is found again from its dotted form (`DottedPlain`,
`LookupPlain`); what is there, be it a Provenance of the engine or the map that
came over HTTP, is read as the same layer and source (`LeafProvenance`), which the
engine's invariant says is the last setter. For the YAML: a portable value prints
the same after JSON (`PortableConfigPrints`). An explain has only strings in it, so
the order of a source's keys is all that can differ (`SameUnordered`), and it does
wherever a layer is named: below a path without leaves there is no source
(`NoLeaves`), and at or below any other there is one.

**Central service** (`CentralProofs`). Sessions, the gate, and that remote is like
local. `RequestsAreMeant` takes the fourteen operations one by one: the request
that the client makes of each matches its own route of the mux and no other, and
the handler reads the operation's name and argument back from it. So whatever
handler writes is a gated one (`WritesAreGated`), and the store answers to the
decoded operation what it answers to the one the client was called with
(`SameAnswer`; a test of a connection decodes to another name, which the store
does not look at). `OutcomeIsReport` then takes the answer through status and body
to what the client makes of them. `CookiesIssued` says of every cookie in a jar,
in a request or in an answer that it was signed for the token that was typed, for
one lifetime from then.

The types need `StoreInv`: a bound on versions is only kept because every write that
has been let in has its room reserved. `RoomForAll` counts, for each Recipe, the
calls that may still write it (`Pending`), which is a finite number for a finite
number of clients; `FileIsHeld` says who has the database open.

**Induction** (`InductionBySets`). The induction theorems of the prover's library take
an operator as a parameter, which none of the provers here can instantiate. What
they say is said here of sets instead: a set that has 0 and the successors of its
elements has all natural numbers (`SetInduction`, from the well-foundedness of finite
sets under inclusion), and likewise for sequences (`SequenceInduction`); an iteration
exists and is unique (`IteratesExist`, `IteratesAgree`), from which `FlattenAppend`
says what `FlattenSeq` of the community modules computes.

Every invariant and every action property of the passing runs is proved. Only
model-checked: the three liveness properties (`RequestsAnswered`, `Converges`,
`EveryCallEnds`), since fairness and ENABLED are out of the prover's reach; and
`WebUI`, whose one property is a disagreement.

## 6. Disagreements between code and documents

With a run:

1. `fetcher_race`: clones are read outside of the mutex while another call fetches
   into them. The comment of the recovery middleware says that a bug of a handler
   is never a crashed process; a concurrent map access is.
2. `fetcher_head`: a layer that follows `HEAD` is served the commit of the first
   clone. The comment of `resolveRevision` sets out to avoid stale content.
3. `shared_repo`: with two sources of one URL, both are fetched with the
   credentials of the first by name, not each with its own (docs/07).
4. `webui`: the name is selected before its spec is awaited, and a spec is stored
   whatever is selected by the time it arrives; the history of one Recipe is then
   compared with the content of another, and the editor would save it there.
   docs/05-recipe-and-crd.md:15 has a diff between a past version and the latest.

Met while modelling, and noted without a run:

- docs/07-open-questions.md:5 says that the difference of types between a local
  and a remote resolve has no consequence for the YAML of the command line. It
  has none if the values are portable (`SameYamlIfPortable`); integers from a
  million on print with an exponent, times are quoted, and a config with a NaN
  is an empty success.
- docs/02-resolution-model.md:66 says of the explain that its YAML is identical
  from both sides, and docs/05-recipe-and-crd.md:35 that all output is exactly the
  same. Wherever an explain names a layer the text differs: the keys of its
  `source` are `repo`, `path`, `ref` locally (a struct) and `path`, `ref`, `repo`
  remotely (a decoded map, sorted). `SameYamlIfPortable` states that the two are
  the same but for this order, and that the order differs exactly there. `--key` on
  `<leaf>.layer` or `<leaf>.source`, which are no keys of the config, answers
  remotely only.
- `configblender source put|delete|test --central-url` is offered by the usage and
  docs/05:53, but the command's client has no token (`internal/cli/resolve.go:130`), so
  the server refuses it. docs/05:52 has put and rollback with `--central-url`; the
  code has them on a local database only.
- Credentials with half of a basic pair, or a user name with a key, authenticate
  with nothing and say nothing (`internal/gitauth/gitauth.go:45`).
- The controller's own status write starts a reconcile, which is none of the
  triggers of docs/04-kubernetes.md:79, and which after a failed resolve repeats it
  at once.

## 7. Not modelled, and why

- Logging, metrics, health checks, request ids, the recovery of panics (but for
  what it cannot recover), static files, flag parsing, layout of text: no state
  that anything here depends on.
- The Resolve tab and the sources screen of the UI, which have the pattern of the
  modelled screens (an answer under whatever is selected when it arrives) and
  store nothing.
- The Starlark interpreter, go-git's protocol, bbolt's pages, controller-runtime,
  Vue: libraries, modelled from how the code uses them.
- Generated code: deep copies, scheme, CRD.

## 8. Plan

Done: every component above, with proofs about all of them but `WebUI`. What is
left, in this order:

1. `WebUI`: safety that does hold (a draft that was edited is never replaced while
   its Recipe stays selected; the versions shown are those of the selected name
   when nothing is in flight), and the Resolve tab.
2. `CentralService` as an implementation of `VersionedStore`. Its clients may be
   refused or give up between the two transactions of a rollback, for which
   `VersionedStore` needs a step of its own before the mapping can hold.
3. Two processes on one file, with a fair lock, and two browsers.

------------------------------- MODULE Fetcher -------------------------------
(***************************************************************************)
(* gitsource.Fetcher: the contents of layers, read from one in-memory      *)
(* clone per repository that every call updates with a fetch.  Calls come  *)
(* from concurrent HTTP handlers.  One mutex covers the credentials, the   *)
(* network operation and the table of clones (Fetcher.repo); what follows, *)
(* reading the clone, is outside of it (Fetcher.Content).                  *)
(*                                                                         *)
(* The remote repositories are external: they are pushed to, force-pushed  *)
(* to, and their branches deleted, at any time.  Commits of a repository   *)
(* are numbered in the order in which they were made.                      *)
(***************************************************************************)
EXTENDS Integers, FiniteSets

CONSTANTS Repos,        \* repository URLs
          Branches,     \* branch names
          Default,      \* the branch the remote's HEAD points to
          HeadRef,      \* the ref "HEAD"
          NoRef,        \* the empty ref
          Creds,        \* what authenticates a fetch, NoCred included
          NoCred,       \* no authentication
          BadCred,      \* a stored credential that cannot be used
          Calls,        \* concurrent calls of Content
          Free,         \* the mutex is not held
          Pathless,     \* commits without the file the layers ask for
          MaxCommits    \* BOUND: commits of one repository

ASSUME ReposAssumption == Repos # {}
ASSUME DefaultAssumption == Default \in Branches
ASSUME MaxCommitsAssumption == MaxCommits \in Nat \ {0}
ASSUME CredsAssumption == NoCred \in Creds /\ BadCred \notin Creds
ASSUME FreeAssumption == Free \notin Calls

Commits == 1..MaxCommits
Refs == Branches \cup {HeadRef} \cup Commits     \* a number is a commit SHA
Sources == [repo : Repos, ref : Refs \cup {NoRef}]

ASSUME RefsAssumption ==
  /\ HeadRef \notin Branches
  /\ NoRef \notin Branches \cup {HeadRef}
  /\ (Branches \cup {HeadRef, NoRef}) \cap Commits = {}

(* The refs and objects a remote offers, and what a clone holds of them.   *)
(* A commit number 0 means none; a clone with head 0 is not there.         *)
Offers == [tips : [Branches -> Commits \cup {0}], objects : SUBSET Commits]
NoOffer == [tips |-> [b \in Branches |-> 0], objects |-> {}]
Clones == [tracking : [Branches -> Commits \cup {0}],   \* refs/remotes/origin/*
           head     : Commits \cup {0},                 \* HEAD and refs/heads/*
           objects  : SUBSET Commits]
NoClone == [tracking |-> [b \in Branches |-> 0], head |-> 0, objects |-> {}]

VARIABLES tip,       \* tip[u][b]: the commit branch b of remote u is at
          line,      \* line[u][b]: the commits reachable from it
          made,      \* made[u]: how many commits were ever made in u
          process,   \* "up", "stopped", or "fatal" after a fatal runtime error
          clones,    \* Fetcher.repos
          mutex,     \* Fetcher.mu: the call that holds it
          pc,        \* pc[c]: where call c stands
          src,       \* src[c]: what it asks for
          cred,      \* cred[c]: what it authenticates with
          seen,      \* seen[c]: what the remote offered it
          hash,      \* hash[c]: the commit its ref resolved to
          began      \* ghost: the tip of c's ref when c began, 0 once it is gone

remotes == <<tip, line, made>>
calls == <<pc, src, cred, seen, hash>>
fetcherVars == <<tip, line, made, process, clones, mutex, pc, src, cred, seen,
                 hash, began>>

Cached(u) == clones[u].head # 0

NoSource == [repo |-> CHOOSE u \in Repos : TRUE, ref |-> NoRef]

-----------------------------------------------------------------------------
FetcherInit ==
  /\ tip = [u \in Repos |-> [b \in Branches |-> IF b = Default THEN 1 ELSE 0]]
  /\ line = [u \in Repos |-> [b \in Branches |-> IF b = Default THEN {1} ELSE {}]]
  /\ made = [u \in Repos |-> 1]
  /\ process = "up"
  /\ clones = [u \in Repos |-> NoClone]
  /\ mutex = Free
  /\ pc = [c \in Calls |-> "idle"]
  /\ src = [c \in Calls |-> NoSource]
  /\ cred = [c \in Calls |-> NoCred]
  /\ seen = [c \in Calls |-> NoOffer]
  /\ hash = [c \in Calls |-> 0]
  /\ began = [c \in Calls |-> 0]

(* The remotes.  A push adds a commit to a branch, a force-push replaces   *)
(* its commits by one.                                                     *)
Push(u, b) ==
  /\ made[u] < MaxCommits
  /\ made' = [made EXCEPT ![u] = @ + 1]
  /\ tip' = [tip EXCEPT ![u][b] = made[u] + 1]
  /\ \/ line' = [line EXCEPT ![u][b] = @ \cup {made[u] + 1}]
     \/ line' = [line EXCEPT ![u][b] = {made[u] + 1}]
  /\ UNCHANGED <<process, clones, mutex, calls, began>>

DeleteBranch(u, b) ==
  /\ b # Default
  /\ tip[u][b] # 0
  /\ tip' = [tip EXCEPT ![u][b] = 0]
  /\ line' = [line EXCEPT ![u][b] = {}]
  /\ began' = [c \in Calls |-> IF src[c] = [repo |-> u, ref |-> b]
                               THEN 0 ELSE began[c]]
  /\ UNCHANGED <<made, process, clones, mutex, calls>>

-----------------------------------------------------------------------------
(* One call of Content.  A ref is required; then Fetcher.repo waits for    *)
(* the mutex.                                                              *)
TipOf(s) ==
  CASE s.ref \in Branches -> tip[s.repo][s.ref]
    [] s.ref = HeadRef -> tip[s.repo][Default]
    [] OTHER -> 0

Call(c, s) ==
  /\ process = "up"
  /\ pc[c] = "idle"
  /\ pc' = [pc EXCEPT ![c] = IF s.ref = NoRef THEN "failed" ELSE "waiting"]
  /\ src' = [src EXCEPT ![c] = s]
  /\ began' = [began EXCEPT ![c] = TipOf(s)]
  /\ UNCHANGED <<remotes, process, clones, mutex, cred, seen, hash>>

(* Mutant of Lock: the mutex is not taken for the network operation.       *)
LockNothing(c) ==
  /\ pc[c] = "waiting"
  /\ mutex' = c
  /\ pc' = [pc EXCEPT ![c] = "authenticating"]
  /\ UNCHANGED <<remotes, process, clones, src, cred, seen, hash, began>>

Lock(c) ==
  /\ pc[c] = "waiting"
  /\ mutex = Free
  /\ mutex' = c
  /\ pc' = [pc EXCEPT ![c] = "authenticating"]
  /\ UNCHANGED <<remotes, process, clones, src, cred, seen, hash, began>>

(* Fetcher.repo returns: its locals are gone.                              *)
ForgetLocals(c) ==
  /\ cred' = [cred EXCEPT ![c] = NoCred]
  /\ seen' = [seen EXCEPT ![c] = NoOffer]

(* Mutant of FailLocked: an error path that does not unlock.               *)
FailWithoutUnlock(c) ==
  /\ pc' = [pc EXCEPT ![c] = "failed"]
  /\ ForgetLocals(c)
  /\ UNCHANGED <<remotes, process, clones, mutex, src, hash, began>>

(* Return from Fetcher.repo with an error: the deferred Unlock runs.       *)
FailLocked(c) ==
  /\ mutex' = Free
  /\ pc' = [pc EXCEPT ![c] = "failed"]
  /\ ForgetLocals(c)
  /\ UNCHANGED <<remotes, process, clones, src, hash, began>>

(* Mutant of LookupAuth: its error is ignored.                             *)
AuthErrorIgnored(c, a) ==
  /\ pc[c] = "authenticating"
  /\ cred' = [cred EXCEPT ![c] = a]
  /\ pc' = [pc EXCEPT ![c] = "connecting"]
  /\ UNCHANGED <<remotes, process, clones, mutex, src, seen, hash, began>>

(* The resolver of credentials answers a: a method, none, or an error.     *)
LookupAuth(c, a) ==
  /\ pc[c] = "authenticating"
  /\ IF a = BadCred
     THEN FailLocked(c)
     ELSE /\ cred' = [cred EXCEPT ![c] = a]
          /\ pc' = [pc EXCEPT ![c] = "connecting"]
          /\ UNCHANGED <<remotes, process, clones, mutex, src, seen, hash, began>>

(* The remote advertises its refs to a clone or to a fetch.                *)
Advertise(c) ==
  /\ pc[c] = "connecting"
  /\ seen' = [seen EXCEPT ![c] =
                [tips    |-> tip[src[c].repo],
                 objects |-> UNION {line[src[c].repo][b] : b \in Branches}]]
  /\ pc' = [pc EXCEPT ![c] = "storing"]
  /\ UNCHANGED <<remotes, process, clones, mutex, src, cred, hash, began>>

(* The network fails, the remote refuses, or the context is cancelled.     *)
NetworkFail(c) ==
  /\ pc[c] \in {"connecting", "storing"}
  /\ FailLocked(c)

(* A clone takes what the remote offers; its HEAD and local branch are     *)
(* those of the moment of the clone.                                       *)
FreshClone(o) ==
  [tracking |-> o.tips, head |-> o.tips[Default], objects |-> o.objects]

(* Mutant of Fetched: a clone that is there is not fetched into.           *)
NotFetched(cl, o) == cl

(* A fetch forces the tracking refs to what is offered, prunes none, and   *)
(* leaves HEAD and the local branch alone.                                 *)
Fetched(cl, o) ==
  [tracking |-> [b \in Branches |->
                   IF o.tips[b] # 0 THEN o.tips[b] ELSE cl.tracking[b]],
   head     |-> cl.head,
   objects  |-> cl.objects \cup o.objects]

(* What was offered is stored, and Fetcher.repo returns and unlocks.       *)
Store(c) ==
  LET u == src[c].repo IN
  /\ pc[c] = "storing"
  /\ clones' = [clones EXCEPT ![u] =
                  IF Cached(u) THEN Fetched(@, seen[c]) ELSE FreshClone(seen[c])]
  /\ mutex' = Free
  /\ pc' = [pc EXCEPT ![c] = "resolving"]
  /\ ForgetLocals(c)
  /\ UNCHANGED <<remotes, process, src, hash, began>>

(* Mutants of Revision: the local branch of the clone first; HEAD for a    *)
(* branch that is not there.                                               *)
LocalRevisionFirst(cl, ref) ==
  IF ref \in {HeadRef, Default} THEN cl.head
  ELSE IF ref \in Branches /\ cl.tracking[ref] # 0 THEN cl.tracking[ref]
  ELSE IF ref \in cl.objects THEN ref ELSE 0

RevisionOrHead(cl, ref) ==
  IF ref \in Branches /\ cl.tracking[ref] # 0 THEN cl.tracking[ref]
  ELSE IF ref \in Branches \cup {HeadRef} THEN cl.head
  ELSE IF ref \in cl.objects THEN ref ELSE 0

(* resolveRevision: the tracking ref first, then the raw ref.              *)
Revision(cl, ref) ==
  IF ref \in Branches /\ cl.tracking[ref] # 0 THEN cl.tracking[ref]
  ELSE IF ref \in {HeadRef, Default} THEN cl.head
  ELSE IF ref \in cl.objects THEN ref ELSE 0

ResolveRevision(c) ==
  LET h == Revision(clones[src[c].repo], src[c].ref) IN
  /\ pc[c] = "resolving"
  /\ hash' = [hash EXCEPT ![c] = h]
  /\ pc' = [pc EXCEPT ![c] = IF h = 0 THEN "failed" ELSE "loading"]
  /\ UNCHANGED <<remotes, process, clones, mutex, src, cred, seen, began>>

(* CommitObject, File and Contents: the commit has to be in the clone, and *)
(* the file in the commit.                                                 *)
Load(c) ==
  /\ pc[c] = "loading"
  /\ pc' = [pc EXCEPT ![c] =
              IF /\ hash[c] \in clones[src[c].repo].objects
                 /\ hash[c] \notin Pathless
              THEN "done" ELSE "failed"]
  /\ UNCHANGED <<remotes, process, clones, mutex, src, cred, seen, hash, began>>

-----------------------------------------------------------------------------
(* The process.  All of the fetcher is memory, lost when it ends.          *)
LoseMemory ==
  /\ clones' = [u \in Repos |-> NoClone]
  /\ mutex' = Free
  /\ pc' = [c \in Calls |-> "idle"]
  /\ src' = [c \in Calls |-> NoSource]
  /\ cred' = [c \in Calls |-> NoCred]
  /\ seen' = [c \in Calls |-> NoOffer]
  /\ hash' = [c \in Calls |-> 0]
  /\ began' = [c \in Calls |-> 0]
  /\ UNCHANGED remotes

Stop ==
  /\ process = "up"
  /\ process' = "stopped"
  /\ LoseMemory

(* One call reads a clone, outside of the mutex, while a fetch of another  *)
(* stores into it: the storage of the clone is plain Go maps.              *)
Racing ==
  \E c, d \in Calls :
    /\ pc[c] \in {"resolving", "loading"}
    /\ pc[d] = "storing"
    /\ src[c].repo = src[d].repo
    /\ Cached(src[c].repo)

(* The Go runtime may detect the unsynchronised access, which ends the     *)
(* process with a fatal error that recover() cannot catch; or it does not, *)
(* and the read sees the storage before or after the store.                *)
RaceDetected ==
  /\ process = "up"
  /\ Racing
  /\ process' = "fatal"
  /\ LoseMemory

Restart ==
  /\ process # "up"
  /\ process' = "up"
  /\ UNCHANGED <<remotes, clones, mutex, calls, began>>

RemoteStep ==
  \E u \in Repos, b \in Branches : Push(u, b) \/ DeleteBranch(u, b)

ProcessStep == Stop \/ RaceDetected \/ Restart

(* The steps of a call under way, after its start; a is what the resolver  *)
(* of credentials may answer.                                              *)
Progress(c, answers) ==
  \/ \E a \in answers : LookupAuth(c, a)
  \/ Advertise(c)
  \/ NetworkFail(c)
  \/ Store(c)
  \/ ResolveRevision(c)
  \/ Load(c)

(* Content returns to its caller.                                          *)
Return(c) ==
  /\ pc[c] \in {"done", "failed"}
  /\ pc' = [pc EXCEPT ![c] = "idle"]
  /\ src' = [src EXCEPT ![c] = NoSource]
  /\ hash' = [hash EXCEPT ![c] = 0]
  /\ began' = [began EXCEPT ![c] = 0]
  /\ UNCHANGED <<remotes, process, clones, mutex, cred, seen>>

FetcherNext ==
  \/ RemoteStep
  \/ ProcessStep
  \/ \E c \in Calls :
       \/ \E s \in Sources : Call(c, s)
       \/ Lock(c)
       \/ Progress(c, Creds \cup {BadCred})
       \/ Return(c)

FetcherSpec == FetcherInit /\ [][FetcherNext]_fetcherVars

-----------------------------------------------------------------------------
(* Every variable stays in the set of values its part of the code can hold. *)
FetcherTypeOK ==
  /\ tip \in [Repos -> [Branches -> Commits \cup {0}]]
  /\ line \in [Repos -> [Branches -> SUBSET Commits]]
  /\ made \in [Repos -> Commits]
  /\ process \in {"up", "stopped", "fatal"}
  /\ clones \in [Repos -> Clones]
  /\ mutex \in Calls \cup {Free}
  /\ pc \in [Calls -> {"idle", "waiting", "authenticating", "connecting",
                       "storing", "resolving", "loading", "done", "failed"}]
  /\ src \in [Calls -> Sources]
  /\ cred \in [Calls -> Creds]
  /\ seen \in [Calls -> Offers]
  /\ hash \in [Calls -> Commits \cup {0}]
  /\ began \in [Calls -> Commits \cup {0}]

(* The mutex is held exactly by the call that is inside Fetcher.repo, on   *)
(* every error path too: a leaked lock would end all resolution.           *)
MutexHeldInRepo ==
  \A c \in Calls :
    mutex = c <=> pc[c] \in {"authenticating", "connecting", "storing"}

(* There is no implicit branch (comment of Source.Ref), though a revision  *)
(* is tried in two ways and clones keep the refs of branches that are gone *)
(* or begun anew: an answer is never a commit of a branch other than the   *)
(* one asked for, HEAD being the default branch; and a pinned commit is    *)
(* answered by itself, however branches move.                              *)
BranchOf(ref) == IF ref = HeadRef THEN Default ELSE ref
NeverAnotherBranch ==
  \A c \in Calls :
    pc[c] = "done" =>
      IF src[c].ref \in Commits THEN hash[c] = src[c].ref
      ELSE \A b \in Branches \ {BranchOf(src[c].ref)} :
             hash[c] \notin line[src[c].repo][b]

(* A call that asks for a branch never answers with less than the branch's *)
(* tip of when the call began, whoever else fetches the same clone, as     *)
(* long as the branch is there (comment of resolveRevision).               *)
FreshBranches ==
  \A c \in Calls :
    pc[c] = "done" /\ src[c].ref \in Branches => hash[c] >= began[c]

(* While the process runs, a tracking ref never goes back to an older      *)
(* commit and a clone is never replaced, though calls that saw different   *)
(* states of the remote update the same clone.                             *)
ClonesAdvance ==
  process' = "up" =>
    \A u \in Repos :
      Cached(u) =>
        /\ clones'[u].head = clones[u].head
        /\ clones[u].objects \subseteq clones'[u].objects
        /\ \A b \in Branches : clones'[u].tracking[b] >= clones[u].tracking[b]
TrackingNeverRegresses == [][ClonesAdvance]_fetcherVars

(* What comments of the code say and the code does not do:                 *)

(* the server's recovery middleware says that no bug of a handler ends the *)
(* process (withMiddleware);                                               *)
NoFatalError == process # "fatal"

(* the ref HEAD is no staler than a branch after a fetch (resolveRevision  *)
(* tries tracking refs first so as not to serve stale content).            *)
FreshHead ==
  \A c \in Calls :
    pc[c] = "done" /\ src[c].ref = HeadRef => hash[c] >= began[c]
=============================================================================

------------------------ MODULE ConfigBlendController ------------------------
(***************************************************************************)
(* The controller of one cluster (internal/controller, cmd/manager): for   *)
(* every ConfigBlend it resolves the bound Recipe, keeps the target        *)
(* ConfigMap in sync and writes the status, then asks to be run again      *)
(* after the refresh interval.                                             *)
(*                                                                         *)
(* External, and modelled from how the code uses them: the API server,     *)
(* whose updates fail on a stale resource version; the manager's cache,    *)
(* which lags behind it and feeds one work queue (For and Owns, without    *)
(* predicates); the garbage collector; and users.  Instead of resource     *)
(* versions, which only grow, a copy of an object is marked as current or  *)
(* not.  A generation is named by the spec it stands for.                  *)
(***************************************************************************)
EXTENDS Integers, FiniteSets

CONSTANTS Blends,         \* ConfigBlend objects
          ConfigMaps,     \* names of ConfigMaps
          Recipes,        \* names of Recipes
          Configs,        \* what a Recipe may resolve to
          Foreign,        \* ConfigMap data that the controller did not write
          Nobody,         \* no ConfigBlend owns it, or none is served
          Absent,         \* the object does not exist
          Seconds,        \* BOUND: timestamps, counted modulo Seconds
          MaxTroubles     \* BOUND: what users, remotes and failures do

ASSUME ForeignAssumption == Foreign \notin Configs
ASSUME NobodyAssumption == Nobody \notin Blends
ASSUME BoundsAssumption == Seconds \in Nat \ {0} /\ MaxTroubles \in Nat

Specs == [recipe : Recipes, target : ConfigMaps]
Never == -1
Stamps == 0..(Seconds - 1)
Statuses == [ready      : {"Unknown", "True", "False"},
             about      : Specs \cup {Absent},   \* the condition's generation
             observed   : Specs \cup {Absent},   \* ObservedGeneration
             resolvedAt : Stamps \cup {Never}]   \* LastResolvedTime
NewStatus == [ready |-> "Unknown", about |-> Absent, observed |-> Absent,
              resolvedAt |-> Never]

(* The status after setCondition(False), and after all went well.          *)
NotReady(cb) == [cb.status EXCEPT !.ready = "False", !.about = cb.spec]
Ready(cb, t) == [ready |-> "True", about |-> cb.spec, observed |-> cb.spec,
                 resolvedAt |-> t]
Maps == [data : Configs \cup {Foreign}, owner : Blends \cup {Nobody}]
Copies == [spec : Specs, status : Statuses]   \* of a ConfigBlend

ASSUME AbsentAssumption == Absent \notin Specs \cup Maps \cup Copies

VARIABLES
  spec,        \* spec[k]: the spec of ConfigBlend k in the API server
  status,      \* status[k]: its status subresource
  cm,          \* cm[n]: the ConfigMap named n in the API server
  config,      \* config[r]: what Recipe r resolves to now
  now,         \* the current second
  cbCache,     \* cbCache[k]: [spec, status] as the manager's cache has it
  cbKnown,     \* cbKnown[k]: the cache has the latest version of k
  cmCache,     \* the same two for ConfigMaps
  cmKnown,
  queue,       \* the work queue: keys to reconcile
  timer,       \* keys with a pending RequeueAfter
  run,         \* the reconcile in progress
  troubles     \* how many disturbances there were

world == <<spec, status, cm, config, now>>
caches == <<cbCache, cbKnown, cmCache, cmKnown>>
work == <<queue, timer, run>>
vars == <<world, caches, work, troubles>>

(* What Reconcile has in its hands: the key, where it stands, its copy of  *)
(* the ConfigBlend and whether this is still the latest version, and the   *)
(* resolved config.                                                        *)
NoRun == [key |-> Nobody, at |-> "idle", cb |-> Absent, current |-> FALSE,
          data |-> Foreign]

Exists(k) == spec[k] # Absent

Init ==
  /\ spec \in [Blends -> Specs]
  /\ status = [k \in Blends |-> NewStatus]
  /\ cm = [n \in ConfigMaps |-> Absent]
  /\ config \in [Recipes -> Configs]
  /\ now = 0
  /\ cbCache = [k \in Blends |-> Absent]
  /\ cbKnown = [k \in Blends |-> FALSE]
  /\ cmCache = [n \in ConfigMaps |-> Absent]
  /\ cmKnown = [n \in ConfigMaps |-> TRUE]
  /\ queue = {}
  /\ timer = {}
  /\ run = NoRun
  /\ troubles = 0

-----------------------------------------------------------------------------
(* Users, remotes, time: each of these but time is a trouble.              *)
Trouble == troubles < MaxTroubles /\ troubles' = troubles + 1

(* The API server has a new version of k: the copies of it are outdated.   *)
Outdate(k) ==
  /\ cbKnown' = [cbKnown EXCEPT ![k] = FALSE]
  /\ run' = IF run.key = k THEN [run EXCEPT !.current = FALSE] ELSE run

EditSpec(k, s) ==
  /\ Trouble
  /\ Exists(k)
  /\ s # spec[k]
  /\ spec' = [spec EXCEPT ![k] = s]
  /\ Outdate(k)
  /\ UNCHANGED <<status, cm, config, now, cbCache, cmCache, cmKnown, queue, timer>>

DeleteBlend(k) ==
  /\ Trouble
  /\ Exists(k)
  /\ spec' = [spec EXCEPT ![k] = Absent]
  /\ Outdate(k)
  /\ UNCHANGED <<status, cm, config, now, cbCache, cmCache, cmKnown, queue, timer>>

SetMap(n, m) ==
  /\ cm' = [cm EXCEPT ![n] = m]
  /\ cmKnown' = [cmKnown EXCEPT ![n] = FALSE]

(* Someone edits the data of a ConfigMap, deletes it, or makes one.        *)
TouchMap(n) ==
  /\ Trouble
  /\ \/ cm[n] # Absent /\ SetMap(n, [cm[n] EXCEPT !.data = Foreign])
     \/ cm[n] # Absent /\ SetMap(n, Absent)
     \/ cm[n] = Absent /\ SetMap(n, [data |-> Foreign, owner |-> Nobody])
  /\ UNCHANGED <<spec, status, config, now, cbCache, cbKnown, cmCache, work>>

(* The garbage collector removes what a deleted ConfigBlend owned.         *)
Collect(n) ==
  /\ cm[n] # Absent
  /\ cm[n].owner # Nobody
  /\ ~Exists(cm[n].owner)
  /\ SetMap(n, Absent)
  /\ UNCHANGED <<spec, status, config, now, cbCache, cbKnown, cmCache, work, troubles>>

(* A push to a layer, or a new version of the Recipe.                      *)
ChangeConfig(r, d) ==
  /\ Trouble
  /\ config[r] # d
  /\ config' = [config EXCEPT ![r] = d]
  /\ UNCHANGED <<spec, status, cm, now, caches, work>>

Tick ==
  /\ now' = (now + 1) % Seconds
  /\ UNCHANGED <<spec, status, cm, config, caches, work, troubles>>

-----------------------------------------------------------------------------
(* The manager: its cache catches up with an object and the event puts a   *)
(* key into the queue, that of the ConfigBlend or that of the owner of the *)
(* ConfigMap, before or after the change.                                  *)
Enqueue(ks) == queue' = queue \cup ks

DeliverBlend(k) ==
  /\ ~cbKnown[k]
  /\ cbKnown' = [cbKnown EXCEPT ![k] = TRUE]
  /\ cbCache' = [cbCache EXCEPT ![k] =
                   IF Exists(k) THEN [spec |-> spec[k], status |-> status[k]]
                   ELSE Absent]
  /\ Enqueue({k})
  /\ UNCHANGED <<world, cmCache, cmKnown, timer, run, troubles>>

OwnersOf(m) == IF m = Absent THEN {} ELSE {m.owner} \cap Blends

DeliverMap(n) ==
  /\ ~cmKnown[n]
  /\ cmKnown' = [cmKnown EXCEPT ![n] = TRUE]
  /\ cmCache' = [cmCache EXCEPT ![n] = cm[n]]
  /\ Enqueue(OwnersOf(cmCache[n]) \cup OwnersOf(cm[n]))
  /\ UNCHANGED <<world, cbCache, cbKnown, timer, run, troubles>>

TimerFires(k) ==
  /\ k \in timer
  /\ timer' = timer \ {k}
  /\ Enqueue({k})
  /\ UNCHANGED <<world, caches, run, troubles>>

(* The manager stops and starts again: queue, timers, caches and the       *)
(* reconcile in progress are lost, and every object is listed anew.        *)
RestartManager ==
  /\ Trouble
  /\ cbCache' = [k \in Blends |-> Absent]
  /\ cbKnown' = [k \in Blends |-> ~Exists(k)]
  /\ cmCache' = [n \in ConfigMaps |-> Absent]
  /\ cmKnown' = [n \in ConfigMaps |-> cm[n] = Absent]
  /\ queue' = {}
  /\ timer' = {}
  /\ run' = NoRun
  /\ UNCHANGED world

-----------------------------------------------------------------------------
(* Reconcile, one key at a time (MaxConcurrentReconciles is 1).            *)

(* Mutant of ReturnAfterInterval: an empty Result.                         *)
ReturnForGood(k) ==
  /\ run' = NoRun
  /\ UNCHANGED <<queue, timer>>

(* The returns of Reconcile: asking for another run after the interval, or *)
(* with an error, which puts the key back with a backoff.  Without a       *)
(* ConfigBlend it returns at once, for good (Take).                        *)
ReturnAfterInterval(k) ==
  /\ run' = NoRun
  /\ timer' = timer \cup {k}
  /\ UNCHANGED queue

ReturnError(k) ==
  /\ run' = NoRun
  /\ Enqueue({k})
  /\ UNCHANGED timer

(* Mutant of Take: a ConfigBlend that is not found is reconciled anyway.   *)
TakeNotFound(k) ==
  /\ run = NoRun
  /\ k \in queue
  /\ queue' = queue \ {k}
  /\ run' = [key |-> k, at |-> "resolving", cb |-> cbCache[k],
             current |-> cbKnown[k], data |-> Foreign]
  /\ UNCHANGED <<world, caches, timer, troubles>>

(* The worker takes a key and reads the ConfigBlend from the cache.        *)
Take(k) ==
  /\ run = NoRun
  /\ k \in queue
  /\ queue' = queue \ {k}
  /\ run' = IF cbCache[k] = Absent THEN NoRun
            ELSE [key |-> k, at |-> "resolving", cb |-> cbCache[k],
                  current |-> cbKnown[k], data |-> Foreign]
  /\ UNCHANGED <<world, caches, timer, troubles>>

ResolveOk ==
  /\ run.at = "resolving"
  /\ run' = [run EXCEPT !.at = "syncing", !.data = config[run.cb.spec.recipe]]
  /\ UNCHANGED <<world, caches, queue, timer, troubles>>

(* Mutant of ResolveFail: the early return is forgotten.                   *)
ResolveFailGoesOn ==
  /\ Trouble
  /\ run.at = "resolving"
  /\ run' = [run EXCEPT !.at = "syncing", !.cb.status = NotReady(run.cb)]
  /\ UNCHANGED <<world, caches, queue, timer>>

(* The condition is set to False; the rest of the status stays.            *)
ResolveFail ==
  /\ Trouble
  /\ run.at = "resolving"
  /\ run' = [run EXCEPT !.at = "reporting", !.cb.status = NotReady(run.cb)]
  /\ UNCHANGED <<world, caches, queue, timer>>

MarshalFail ==
  /\ Trouble
  /\ run.at = "syncing"
  /\ ReturnError(run.key)
  /\ UNCHANGED <<world, caches>>

(* CreateOrUpdate of the target: it reads the cached ConfigMap, creates it *)
(* if there is none, refuses one of another controller, writes nothing if  *)
(* it is as it should be, and updates it if the copy is the latest.        *)
Wanted == [data |-> run.data, owner |-> run.key]

(* Mutant of SyncTarget: the ConfigMap is written without a look at whose  *)
(* it is or how old the copy is.                                           *)
SyncTargetBlindly ==
  /\ run.at = "syncing"
  /\ SetMap(run.cb.spec.target, Wanted)
  /\ run' = [run EXCEPT !.at = "reporting", !.cb.status = Ready(run.cb, now)]
  /\ UNCHANGED <<spec, status, config, now, cbCache, cbKnown, cmCache, queue,
                 timer, troubles>>

(* The write that CreateOrUpdate attempts succeeds: nothing is there and   *)
(* nothing was cached, or the copy may be taken and is the latest.         *)
WriteSucceeds ==
  LET n == run.cb.spec.target IN
  IF cmCache[n] = Absent THEN cm[n] = Absent
  ELSE /\ cmCache[n].owner \in {Nobody, run.key}
       /\ cmCache[n] # Wanted
       /\ cmKnown[n]

SyncFailed == run' = [run EXCEPT !.at = "reporting", !.cb.status = NotReady(run.cb)]
Synced == run' = [run EXCEPT !.at = "reporting", !.cb.status = Ready(run.cb, now)]

SyncTarget ==
  LET n == run.cb.spec.target IN
  /\ run.at = "syncing"
  /\ \/ WriteSucceeds /\ SetMap(n, Wanted) /\ Synced
     \/ cmCache[n] = Wanted /\ UNCHANGED <<cm, cmKnown>> /\ Synced
     \/ /\ cmCache[n] # Wanted
        /\ ~WriteSucceeds
        /\ UNCHANGED <<cm, cmKnown>>
        /\ SyncFailed
  /\ UNCHANGED <<spec, status, config, now, cbCache, cbKnown, cmCache, queue,
                 timer, troubles>>

(* Mutant of ReportStatus: the status is patched, whatever its version.    *)
PatchStatus ==
  LET k == run.key
      s == run.cb.status
  IN /\ run.at = "reporting"
     /\ ReturnAfterInterval(k)
     /\ status' = [status EXCEPT ![k] = IF Exists(k) THEN s ELSE @]
     /\ cbKnown' = [cbKnown EXCEPT ![k] = @ /\ s = status[k]]
     /\ UNCHANGED <<spec, cm, config, now, cbCache, cmCache, cmKnown, troubles>>

(* Status().Update: refused when the ConfigBlend is gone or newer than the *)
(* copy; a status that is already there makes no new version.              *)
ReportStatus ==
  LET k == run.key
      s == run.cb.status
  IN /\ run.at = "reporting"
     /\ \/ /\ ~Exists(k) \/ ~run.current
           /\ ReturnError(k)
           /\ UNCHANGED <<status, cbKnown>>
        \/ /\ Exists(k) /\ run.current
           /\ ReturnAfterInterval(k)
           /\ status' = [status EXCEPT ![k] = s]
           /\ cbKnown' = [cbKnown EXCEPT ![k] = @ /\ s = status[k]]
     /\ UNCHANGED <<spec, cm, config, now, cbCache, cmCache, cmKnown, troubles>>

(* A call of the API server fails, or its answer is lost after it was      *)
(* carried out: Reconcile sees the same error.                             *)
SyncError ==
  /\ Trouble
  /\ run.at = "syncing"
  /\ \/ UNCHANGED <<cm, cmKnown>>
     \/ WriteSucceeds /\ SetMap(run.cb.spec.target, Wanted)
  /\ SyncFailed
  /\ UNCHANGED <<spec, status, config, now, cbCache, cbKnown, cmCache, queue, timer>>

StatusError ==
  /\ Trouble
  /\ run.at = "reporting"
  /\ \/ UNCHANGED <<status, cbKnown>>
     \/ /\ run.current
        /\ status[run.key] # run.cb.status
        /\ status' = [status EXCEPT ![run.key] = run.cb.status]
        /\ cbKnown' = [cbKnown EXCEPT ![run.key] = FALSE]
  /\ ReturnError(run.key)
  /\ UNCHANGED <<spec, cm, config, now, cbCache, cmCache, cmKnown>>

Reconcile ==
  \/ ResolveOk \/ ResolveFail \/ MarshalFail \/ SyncTarget \/ SyncError
  \/ ReportStatus \/ StatusError

Environment ==
  \/ \E k \in Blends : (\E s \in Specs : EditSpec(k, s)) \/ DeleteBlend(k)
  \/ \E n \in ConfigMaps : TouchMap(n) \/ Collect(n)
  \/ \E r \in Recipes, d \in Configs : ChangeConfig(r, d)
  \/ Tick

Manager ==
  \/ \E k \in Blends : DeliverBlend(k) \/ TimerFires(k) \/ Take(k)
  \/ \E n \in ConfigMaps : DeliverMap(n)
  \/ RestartManager

Next == Environment \/ Manager \/ Reconcile

Spec == Init /\ [][Next]_vars

(* Watches deliver, timers fire, resolves end; the queue is served in the  *)
(* order of arrival, so that no key waits for ever.                        *)
Fairness ==
  /\ \A k \in Blends :
       /\ WF_vars(DeliverBlend(k))
       /\ WF_vars(TimerFires(k))
       /\ SF_vars(Take(k))
  /\ \A n \in ConfigMaps : WF_vars(DeliverMap(n)) /\ WF_vars(Collect(n))
  /\ WF_vars(ResolveOk \/ SyncTarget \/ ReportStatus)

FairSpec == Spec /\ Fairness

-----------------------------------------------------------------------------
(* Every variable stays in the set of values its part of the code can hold. *)
TypeOK ==
  /\ spec \in [Blends -> Specs \cup {Absent}]
  /\ status \in [Blends -> Statuses]
  /\ cm \in [ConfigMaps -> Maps \cup {Absent}]
  /\ config \in [Recipes -> Configs]
  /\ now \in Stamps
  /\ cbCache \in [Blends -> Copies \cup {Absent}]
  /\ cbKnown \in [Blends -> BOOLEAN]
  /\ cmCache \in [ConfigMaps -> Maps \cup {Absent}]
  /\ cmKnown \in [ConfigMaps -> BOOLEAN]
  /\ queue \subseteq Blends
  /\ timer \subseteq Blends
  /\ \/ run = NoRun
     \/ run \in [key : Blends, at : {"resolving", "syncing", "reporting"},
                 cb : Copies, current : BOOLEAN,
                 data : Configs \cup {Foreign}]
  /\ troubles \in 0..MaxTroubles

(* The loop never ends for a ConfigBlend that exists: it is queued, being  *)
(* reconciled, waiting for its interval, or about to be delivered by the   *)
(* watch.  Every return of Reconcile has to see to that.                   *)
NeverForgotten ==
  \A k \in Blends :
    Exists(k) => k \in queue \cup timer \/ run.key = k \/ ~cbKnown[k]

(* A status that says Ready, with the generation it observed, is never     *)
(* written over a newer spec: what it says of the target was done for the  *)
(* spec that is there.                                                     *)
ReportsOnCurrentSpec ==
  \A k \in Blends :
    status'[k] # status[k] /\ status'[k].ready = "True"
      => status'[k].observed = spec[k]
ReadyIsAboutCurrentSpec == [][ReportsOnCurrentSpec]_vars

(* Two ConfigBlends with one target do not fight over it: a ConfigMap that *)
(* one of them owns is not written for the other, though both work from a  *)
(* cache that lags behind.                                                 *)
OwnerStays ==
  \A n \in ConfigMaps :
    cm[n] # Absent /\ cm[n].owner \in Blends /\ cm'[n] # Absent
      => cm'[n].owner = cm[n].owner
OwnerNeverReplaced == [][OwnerStays]_vars

(* A failure to resolve keeps the last good config: what the controller,   *)
(* and not a user, writes to a ConfigMap is a config that was resolved in  *)
(* the same run, for the ConfigBlend it works on.                          *)
WritesResolvedConfig ==
  \A n \in ConfigMaps :
    cm'[n] # cm[n] /\ cm'[n] # Absent /\ run' # run
      => cm'[n] \in [data : Configs, owner : {run.key}]
LastGoodConfigKept == [][WritesResolvedConfig]_vars

(* What a ConfigBlend wants is there: its target has the current config    *)
(* and its status says so.                                                 *)
InSync(k) ==
  LET m == cm[spec[k].target] IN
  /\ m # Absent
  /\ m.owner = k
  /\ m.data = config[spec[k].recipe]
  /\ status[k].ready = "True"
  /\ status[k].observed = spec[k]

(* No other ConfigBlend has k's target for its own, or did and still owns  *)
(* the ConfigMap: an edited target leaves the old ConfigMap behind.        *)
SharesTarget(k) ==
  \E j \in Blends \ {k} : Exists(j) /\ spec[j].target = spec[k].target
HeldByOther(k) ==
  \E j \in Blends \ {k} :
    Exists(j) /\ cm[spec[k].target] # Absent /\ cm[spec[k].target].owner = j

(* Once troubles are over, every ConfigBlend that has its target to itself *)
(* gets in sync and stays so, whatever was edited, deleted, restarted or   *)
(* failed before, and however stale the caches were.                       *)
Converges ==
  \A k \in Blends :
    <>[](Exists(k) /\ ~SharesTarget(k) /\ ~HeldByOther(k))
      => <>[](Exists(k) /\ InSync(k))
=============================================================================

--------------------------- MODULE ControllerProofs ---------------------------
(***************************************************************************)
(* What TLAPS proves of the controller, for any ConfigBlends, ConfigMaps,  *)
(* Recipes, configs, clock and number of disturbances: the types, that no  *)
(* ConfigBlend is forgotten, that a Ready status is about the current      *)
(* spec, that a ConfigMap keeps its owner, and that what is written was    *)
(* resolved.                                                               *)
(***************************************************************************)
EXTENDS ConfigBlendController, TLAPS

USE ForeignAssumption, NobodyAssumption, BoundsAssumption, AbsentAssumption

(* A copy that is marked as the latest is what the API server has.         *)
BlendsCached ==
  \A k \in Blends :
    cbKnown[k] => IF Exists(k) THEN cbCache[k] \in Copies /\ cbCache[k].spec = spec[k]
                  ELSE cbCache[k] = Absent

MapsCached == \A n \in ConfigMaps : cmKnown[n] => cmCache[n] = cm[n]

(* What the reconcile in progress has in its hands: the spec of the        *)
(* ConfigBlend, if its copy is the latest; once it syncs, a resolved       *)
(* config; and a Ready it is about to report is about its own spec.        *)
RunFits ==
  run # NoRun =>
    /\ run.current => Exists(run.key) /\ run.cb.spec = spec[run.key]
    /\ run.at = "syncing" => run.data \in Configs
    /\ run.at = "reporting" /\ run.cb.status.ready = "True"
         => run.cb.status.observed = run.cb.spec

ControllerInv ==
  /\ TypeOK
  /\ NeverForgotten
  /\ BlendsCached
  /\ MapsCached
  /\ RunFits

Runs == [key : Blends, at : {"resolving", "syncing", "reporting"},
         cb : Copies, current : BOOLEAN, data : Configs \cup {Foreign}]

-----------------------------------------------------------------------------
LEMMA NewStatusIsStatus == NewStatus \in Statuses
BY DEF NewStatus, Statuses

(* What setCondition makes of the status is a status.                      *)
LEMMA NotReadyIsStatus ==
  ASSUME NEW cb \in Copies
  PROVE  /\ NotReady(cb) \in Statuses
         /\ NotReady(cb).ready = "False"
BY DEF NotReady, Copies, Statuses

LEMMA ReadyIsStatus ==
  ASSUME NEW cb \in Copies, NEW t \in Stamps
  PROVE  /\ Ready(cb, t) \in Statuses
         /\ Ready(cb, t).observed = cb.spec
BY DEF Ready, Copies, Statuses

(* A reconcile in progress is no idle one.                                 *)
LEMMA RunsAreBusy ==
  ASSUME TypeOK
  PROVE  /\ run.at \in {"resolving", "syncing", "reporting"} => run \in Runs
         /\ run # NoRun => run \in Runs /\ run.key \in Blends
         /\ NoRun.key = Nobody
         /\ NoRun.at = "idle"
         /\ NoRun \notin Runs
BY DEF TypeOK, Runs, NoRun

(* The clock stays within its bound.                                       *)
LEMMA ClockTypes ==
  ASSUME NEW t \in Stamps
  PROVE  (t + 1) % Seconds \in Stamps
BY DEF Stamps

(* The copies in hand after a new version in the API server, a resolve,    *)
(* and a report that is due.                                               *)
LEMMA RunTypes ==
  ASSUME TypeOK
  PROVE  /\ \A k \in Blends : Outdate(k) =>
              /\ cbKnown' \in [Blends -> BOOLEAN]
              /\ run' = NoRun \/ run' \in Runs
         /\ \A d \in Configs :
              run \in Runs => [run EXCEPT !.at = "syncing", !.data = d] \in Runs
         /\ \A s \in Statuses :
              run \in Runs => [run EXCEPT !.at = "reporting", !.cb.status = s] \in Runs
<1>1. run = NoRun \/ run \in Runs
  BY DEF TypeOK, Runs
<1>2. \A k \in Blends : Outdate(k) => cbKnown' \in [Blends -> BOOLEAN]
  BY DEF TypeOK, Outdate
<1>3. \A k \in Blends : Outdate(k) => run' = NoRun \/ run' \in Runs
  <2> SUFFICES ASSUME NEW k \in Blends, Outdate(k), run.key = k
               PROVE  run' \in Runs
    BY <1>1 DEF Outdate
  <2>1. run \in Runs
    BY <1>1 DEF NoRun
  <2> QED BY <2>1 DEF Outdate, Runs
<1>4. ASSUME NEW d \in Configs, run \in Runs
      PROVE  [run EXCEPT !.at = "syncing", !.data = d] \in Runs
  BY <1>4 DEF Runs
<1>5. ASSUME NEW s \in Statuses, run \in Runs
      PROVE  [run EXCEPT !.at = "reporting", !.cb.status = s] \in Runs
  <2> DEFINE c == [run.cb EXCEPT !.status = s]
  <2>1. c \in Copies
    BY <1>5 DEF Runs, Copies
  <2>2. [run EXCEPT !.at = "reporting", !.cb = c] \in Runs
    BY <1>5, <2>1 DEF Runs
  <2>3. [run EXCEPT !.at = "reporting", !.cb.status = s]
          = [run EXCEPT !.at = "reporting", !.cb = c]
    BY <1>5 DEF Runs
  <2> QED BY <2>2, <2>3
<1> QED BY <1>2, <1>3, <1>4, <1>5

LEMMA ReportedRun ==
  ASSUME NEW r \in Runs, NEW s
  PROVE  LET q == [r EXCEPT !.at = "reporting", !.cb.status = s]
         IN /\ q.key = r.key /\ q.at = "reporting" /\ q.current = r.current
            /\ q.cb.spec = r.cb.spec /\ q.cb.status = s
BY DEF Runs, Copies

LEMMA InitInv == Init => ControllerInv
<1> SUFFICES ASSUME Init PROVE ControllerInv
  OBVIOUS
<1>1. TypeOK
  BY NewStatusIsStatus DEF Init, TypeOK, Stamps
<1>2. NeverForgotten /\ BlendsCached /\ MapsCached /\ RunFits
  BY DEF Init, NeverForgotten, BlendsCached, MapsCached, RunFits
<1> QED BY <1>1, <1>2 DEF ControllerInv

-----------------------------------------------------------------------------
LEMMA EditSpecInv ==
  ASSUME ControllerInv, NEW k \in Blends, NEW s \in Specs, EditSpec(k, s)
  PROVE  ControllerInv'
<1> USE DEF ControllerInv, EditSpec, Trouble, Outdate
<1>1. TypeOK'
  <2>1. run' = NoRun \/ run' \in Runs
    BY RunTypes
  <2>2. spec' \in [Blends -> Specs \cup {Absent}] /\ troubles' \in 0..MaxTroubles
    BY RunsAreBusy DEF TypeOK, Runs, Copies, Maps, Exists
  <2> QED BY RunTypes, <2>1, <2>2 DEF TypeOK, Runs
<1>2. NeverForgotten'
  BY RunsAreBusy DEF NeverForgotten, BlendsCached, TypeOK, Runs, Exists
<1>3. BlendsCached'
  BY RunsAreBusy DEF BlendsCached, TypeOK, Runs, Exists, Copies
<1>4. MapsCached'
  BY DEF MapsCached, TypeOK
<1>5. RunFits'
  BY RunsAreBusy DEF RunFits, BlendsCached, TypeOK, Runs, Exists, Copies
<1> QED BY <1>1, <1>2, <1>3, <1>4, <1>5

LEMMA DeleteBlendInv ==
  ASSUME ControllerInv, NEW k \in Blends, DeleteBlend(k)
  PROVE  ControllerInv'
<1> USE DEF ControllerInv, DeleteBlend, Trouble, Outdate
<1>1. TypeOK'
  <2>1. run' = NoRun \/ run' \in Runs
    BY RunTypes
  <2>2. spec' \in [Blends -> Specs \cup {Absent}] /\ troubles' \in 0..MaxTroubles
    BY RunsAreBusy DEF TypeOK, Runs, Copies, Maps, Exists
  <2> QED BY RunTypes, <2>1, <2>2 DEF TypeOK, Runs
<1>2. NeverForgotten'
  BY RunsAreBusy DEF NeverForgotten, BlendsCached, TypeOK, Runs, Exists
<1>3. BlendsCached'
  BY RunsAreBusy DEF BlendsCached, TypeOK, Runs, Exists, Copies
<1>4. MapsCached'
  BY DEF MapsCached, TypeOK
<1>5. RunFits'
  BY RunsAreBusy DEF RunFits, BlendsCached, TypeOK, Runs, Exists, Copies
<1> QED BY <1>1, <1>2, <1>3, <1>4, <1>5

LEMMA TouchMapInv ==
  ASSUME ControllerInv, NEW n \in ConfigMaps, TouchMap(n)
  PROVE  ControllerInv'
<1> USE DEF ControllerInv, TouchMap, Trouble, SetMap, work
<1>1. TypeOK'
  <2>1. cm' \in [ConfigMaps -> Maps \cup {Absent}]
    <3>1. cm \in [ConfigMaps -> Maps \cup {Absent}]
      BY DEF TypeOK
    <3>2. cm[n] # Absent => [cm[n] EXCEPT !.data = Foreign] \in Maps
      BY <3>1 DEF Maps
    <3>3. [data |-> Foreign, owner |-> Nobody] \in Maps
      BY DEF Maps
    <3> QED BY <3>1, <3>2, <3>3
  <2>2. cmKnown' \in [ConfigMaps -> BOOLEAN]
    BY DEF TypeOK
  <2>3. troubles' \in 0..MaxTroubles
    BY DEF TypeOK
  <2> QED BY <2>1, <2>2, <2>3 DEF TypeOK
<1>2. NeverForgotten'
  BY RunsAreBusy DEF NeverForgotten, BlendsCached, TypeOK, Runs, Exists
<1>3. BlendsCached'
  BY RunsAreBusy DEF BlendsCached, TypeOK, Runs, Exists, Copies
<1>4. MapsCached'
  BY DEF MapsCached, TypeOK
<1>5. RunFits'
  BY RunsAreBusy DEF RunFits, BlendsCached, TypeOK, Runs, Exists, Copies
<1> QED BY <1>1, <1>2, <1>3, <1>4, <1>5

LEMMA CollectInv ==
  ASSUME ControllerInv, NEW n \in ConfigMaps, Collect(n)
  PROVE  ControllerInv'
<1> USE DEF ControllerInv, Collect, SetMap, work
<1>1. TypeOK'
  BY RunsAreBusy DEF TypeOK, Runs, Exists, Copies, Maps
<1>2. NeverForgotten'
  BY RunsAreBusy DEF NeverForgotten, BlendsCached, TypeOK, Runs, Exists
<1>3. BlendsCached'
  BY RunsAreBusy DEF BlendsCached, TypeOK, Runs, Exists, Copies
<1>4. MapsCached'
  BY DEF MapsCached, TypeOK
<1>5. RunFits'
  BY RunsAreBusy DEF RunFits, BlendsCached, TypeOK, Runs, Exists, Copies
<1> QED BY <1>1, <1>2, <1>3, <1>4, <1>5

LEMMA ChangeConfigInv ==
  ASSUME ControllerInv, NEW r \in Recipes, NEW d \in Configs, ChangeConfig(r, d)
  PROVE  ControllerInv'
<1> USE DEF ControllerInv, ChangeConfig, Trouble, caches, work
<1>1. TypeOK'
  BY RunsAreBusy DEF TypeOK, Runs, Exists, Copies, Maps
<1>2. NeverForgotten'
  BY RunsAreBusy DEF NeverForgotten, BlendsCached, TypeOK, Runs, Exists
<1>3. BlendsCached'
  BY RunsAreBusy DEF BlendsCached, TypeOK, Runs, Exists, Copies
<1>4. MapsCached'
  BY DEF MapsCached, TypeOK
<1>5. RunFits'
  BY RunsAreBusy DEF RunFits, BlendsCached, TypeOK, Runs, Exists, Copies
<1> QED BY <1>1, <1>2, <1>3, <1>4, <1>5

LEMMA TickInv ==
  ASSUME ControllerInv, Tick
  PROVE  ControllerInv'
<1> USE DEF ControllerInv, Tick, caches, work
<1>1. TypeOK'
  BY RunsAreBusy, ClockTypes DEF TypeOK, Runs, Exists, Copies, Maps
<1>2. NeverForgotten'
  BY RunsAreBusy DEF NeverForgotten, BlendsCached, TypeOK, Runs, Exists
<1>3. BlendsCached'
  BY RunsAreBusy DEF BlendsCached, TypeOK, Runs, Exists, Copies
<1>4. MapsCached'
  BY DEF MapsCached, TypeOK
<1>5. RunFits'
  BY RunsAreBusy, ClockTypes DEF RunFits, BlendsCached, TypeOK, Runs, Exists, Copies
<1> QED BY <1>1, <1>2, <1>3, <1>4, <1>5

LEMMA DeliverBlendInv ==
  ASSUME ControllerInv, NEW k \in Blends, DeliverBlend(k)
  PROVE  ControllerInv'
<1> USE DEF ControllerInv, DeliverBlend, Enqueue, world
<1>1. TypeOK'
  BY RunsAreBusy DEF TypeOK, Runs, Exists, Copies, Maps
<1>2. NeverForgotten'
  BY RunsAreBusy DEF NeverForgotten, BlendsCached, TypeOK, Runs, Exists
<1>3. BlendsCached'
  BY RunsAreBusy DEF BlendsCached, TypeOK, Runs, Exists, Copies
<1>4. MapsCached'
  BY DEF MapsCached, TypeOK
<1>5. RunFits'
  BY RunsAreBusy DEF RunFits, BlendsCached, TypeOK, Runs, Exists, Copies
<1> QED BY <1>1, <1>2, <1>3, <1>4, <1>5

LEMMA DeliverMapInv ==
  ASSUME ControllerInv, NEW n \in ConfigMaps, DeliverMap(n)
  PROVE  ControllerInv'
<1> USE DEF ControllerInv, DeliverMap, Enqueue, world, OwnersOf
<1>1. TypeOK'
  BY RunsAreBusy DEF TypeOK, Runs, Exists, Copies, Maps
<1>2. NeverForgotten'
  BY RunsAreBusy DEF NeverForgotten, BlendsCached, TypeOK, Runs, Exists
<1>3. BlendsCached'
  BY RunsAreBusy DEF BlendsCached, TypeOK, Runs, Exists, Copies
<1>4. MapsCached'
  BY DEF MapsCached, TypeOK
<1>5. RunFits'
  BY RunsAreBusy DEF RunFits, BlendsCached, TypeOK, Runs, Exists, Copies
<1> QED BY <1>1, <1>2, <1>3, <1>4, <1>5

LEMMA TimerFiresInv ==
  ASSUME ControllerInv, NEW k \in Blends, TimerFires(k)
  PROVE  ControllerInv'
<1> USE DEF ControllerInv, TimerFires, Enqueue, world, caches
<1>1. TypeOK'
  BY RunsAreBusy DEF TypeOK, Runs, Exists, Copies, Maps
<1>2. NeverForgotten'
  BY RunsAreBusy DEF NeverForgotten, BlendsCached, TypeOK, Runs, Exists
<1>3. BlendsCached'
  BY RunsAreBusy DEF BlendsCached, TypeOK, Runs, Exists, Copies
<1>4. MapsCached'
  BY DEF MapsCached, TypeOK
<1>5. RunFits'
  BY RunsAreBusy DEF RunFits, BlendsCached, TypeOK, Runs, Exists, Copies
<1> QED BY <1>1, <1>2, <1>3, <1>4, <1>5

LEMMA RestartManagerInv ==
  ASSUME ControllerInv, RestartManager
  PROVE  ControllerInv'
<1> USE DEF ControllerInv, RestartManager, Trouble, world
<1>1. TypeOK'
  BY RunsAreBusy DEF TypeOK, Runs, Exists, Copies, Maps
<1>2. NeverForgotten'
  BY RunsAreBusy DEF NeverForgotten, BlendsCached, TypeOK, Runs, Exists
<1>3. BlendsCached'
  BY RunsAreBusy DEF BlendsCached, TypeOK, Runs, Exists, Copies
<1>4. MapsCached'
  BY DEF MapsCached, TypeOK
<1>5. RunFits'
  BY RunsAreBusy DEF RunFits, BlendsCached, TypeOK, Runs, Exists, Copies
<1> QED BY <1>1, <1>2, <1>3, <1>4, <1>5

LEMMA TakeInv ==
  ASSUME ControllerInv, NEW k \in Blends, Take(k)
  PROVE  ControllerInv'
<1> USE DEF ControllerInv, Take, world, caches
<1>1. TypeOK'
  BY RunsAreBusy DEF TypeOK, Runs, Exists, Copies, Maps
<1>2. NeverForgotten'
  BY RunsAreBusy DEF NeverForgotten, BlendsCached, TypeOK, Runs, Exists
<1>3. BlendsCached'
  BY RunsAreBusy DEF BlendsCached, TypeOK, Runs, Exists, Copies
<1>4. MapsCached'
  BY DEF MapsCached, TypeOK
<1>5. RunFits'
  BY RunsAreBusy DEF RunFits, BlendsCached, TypeOK, Runs, Exists, Copies
<1> QED BY <1>1, <1>2, <1>3, <1>4, <1>5

LEMMA ResolveOkInv ==
  ASSUME ControllerInv, ResolveOk
  PROVE  ControllerInv'
<1> USE DEF ControllerInv, ResolveOk, world, caches
<1>1. TypeOK'
  <2>1. run \in Runs /\ config[run.cb.spec.recipe] \in Configs
    BY RunsAreBusy DEF TypeOK, Runs, Copies, Specs
  <2>2. run' \in Runs
    BY <2>1, RunTypes
  <2> QED BY <2>2 DEF TypeOK, Runs
<1>2. NeverForgotten'
  BY RunsAreBusy DEF NeverForgotten, BlendsCached, TypeOK, Runs, Exists
<1>3. BlendsCached'
  BY RunsAreBusy DEF BlendsCached, TypeOK, Runs, Exists, Copies
<1>4. MapsCached'
  BY DEF MapsCached, TypeOK
<1>5. RunFits'
  <2>1. run \in Runs /\ config[run.cb.spec.recipe] \in Configs
    BY RunsAreBusy DEF TypeOK, Runs, Copies, Specs
  <2>2. run' = [run EXCEPT !.at = "syncing", !.data = config[run.cb.spec.recipe]]
    OBVIOUS
  <2>3. run # NoRun
    BY <2>1, RunsAreBusy
  <2>4. run'.at = "syncing" /\ run'.key = run.key /\ run'.cb = run.cb
        /\ run'.current = run.current /\ run'.data \in Configs
    BY <2>1, <2>2 DEF Runs
  <2> QED BY <2>3, <2>4 DEF RunFits, Exists
<1> QED BY <1>1, <1>2, <1>3, <1>4, <1>5

LEMMA ResolveFailInv ==
  ASSUME ControllerInv, ResolveFail
  PROVE  ControllerInv'
<1> USE DEF ControllerInv, ResolveFail, Trouble, world, caches
<1>1. TypeOK'
  <2>1. run \in Runs /\ NotReady(run.cb) \in Statuses
    BY RunsAreBusy, NotReadyIsStatus DEF Runs
  <2>2. run' \in Runs
    BY <2>1, RunTypes
  <2> QED BY <2>2 DEF TypeOK, Runs
<1>2. NeverForgotten'
  BY RunsAreBusy DEF NeverForgotten, BlendsCached, TypeOK, Runs, Exists
<1>3. BlendsCached'
  BY RunsAreBusy DEF BlendsCached, TypeOK, Runs, Exists, Copies
<1>4. MapsCached'
  BY DEF MapsCached, TypeOK
<1>5. RunFits'
  BY RunsAreBusy, NotReadyIsStatus DEF RunFits, BlendsCached, TypeOK, Runs, Exists, Copies
<1> QED BY <1>1, <1>2, <1>3, <1>4, <1>5

LEMMA MarshalFailInv ==
  ASSUME ControllerInv, MarshalFail
  PROVE  ControllerInv'
<1> USE DEF ControllerInv, MarshalFail, Trouble, ReturnError, Enqueue, world, caches
<1>1. TypeOK'
  BY RunsAreBusy DEF TypeOK, Runs, Exists, Copies, Maps
<1>2. NeverForgotten'
  BY RunsAreBusy DEF NeverForgotten, BlendsCached, TypeOK, Runs, Exists
<1>3. BlendsCached'
  BY RunsAreBusy DEF BlendsCached, TypeOK, Runs, Exists, Copies
<1>4. MapsCached'
  BY DEF MapsCached, TypeOK
<1>5. RunFits'
  BY RunsAreBusy DEF RunFits, BlendsCached, TypeOK, Runs, Exists, Copies
<1> QED BY <1>1, <1>2, <1>3, <1>4, <1>5

LEMMA SyncTargetInv ==
  ASSUME ControllerInv, SyncTarget
  PROVE  ControllerInv'
<1> USE DEF ControllerInv, SyncTarget, SetMap, Synced, SyncFailed, Wanted
<1>1. TypeOK'
  <2>1. run \in Runs /\ run.key \in Blends /\ run.cb.spec.target \in ConfigMaps
    BY RunsAreBusy DEF Runs, Copies, Specs
  <2>2. NotReady(run.cb) \in Statuses /\ Ready(run.cb, now) \in Statuses
    BY <2>1, NotReadyIsStatus, ReadyIsStatus DEF Runs, TypeOK
  <2>3. run' \in Runs
    BY <2>1, <2>2, RunTypes
  <2>4. Wanted \in Maps
    BY <2>1 DEF Wanted, Runs, Maps
  <2>5. cm' \in [ConfigMaps -> Maps \cup {Absent}] /\ cmKnown' \in [ConfigMaps -> BOOLEAN]
    <3>1. /\ cm \in [ConfigMaps -> Maps \cup {Absent}]
          /\ cmKnown \in [ConfigMaps -> BOOLEAN]
      BY DEF TypeOK
    <3>2. UNCHANGED <<cm, cmKnown>> \/ SetMap(run.cb.spec.target, Wanted)
      OBVIOUS
    <3> QED BY <2>1, <2>4, <3>1, <3>2
  <2> QED BY <2>3, <2>5 DEF TypeOK, Runs
<1>2. NeverForgotten'
  BY RunsAreBusy DEF NeverForgotten, BlendsCached, TypeOK, Runs, Exists
<1>3. BlendsCached'
  BY RunsAreBusy DEF BlendsCached, TypeOK, Runs, Exists, Copies
<1>4. MapsCached'
  BY DEF MapsCached, TypeOK
<1>5. RunFits'
  <2>1. run \in Runs /\ run # NoRun
    BY RunsAreBusy
  <2>2. /\ NotReady(run.cb).ready = "False"
        /\ Ready(run.cb, now).observed = run.cb.spec
    BY <2>1, NotReadyIsStatus, ReadyIsStatus DEF Runs, TypeOK
  <2>3. Synced \/ SyncFailed
    OBVIOUS
  <2>4. PICK s \in {NotReady(run.cb), Ready(run.cb, now)} :
          run' = [run EXCEPT !.at = "reporting", !.cb.status = s]
    BY <2>3
  <2>5. /\ run'.key = run.key /\ run'.at = "reporting" /\ run'.current = run.current
        /\ run'.cb.spec = run.cb.spec /\ run'.cb.status = s
    BY <2>1, <2>4, ReportedRun
  <2> QED BY <2>1, <2>2, <2>4, <2>5 DEF RunFits, Exists
<1> QED BY <1>1, <1>2, <1>3, <1>4, <1>5

LEMMA SyncErrorInv ==
  ASSUME ControllerInv, SyncError
  PROVE  ControllerInv'
<1> USE DEF ControllerInv, SyncError, Trouble, SetMap, SyncFailed, Wanted
<1>1. TypeOK'
  <2>1. run \in Runs /\ run.key \in Blends /\ run.cb.spec.target \in ConfigMaps
    BY RunsAreBusy DEF Runs, Copies, Specs
  <2>2. NotReady(run.cb) \in Statuses /\ Ready(run.cb, now) \in Statuses
    BY <2>1, NotReadyIsStatus, ReadyIsStatus DEF Runs, TypeOK
  <2>3. run' \in Runs
    BY <2>1, <2>2, RunTypes
  <2>4. Wanted \in Maps
    BY <2>1 DEF Wanted, Runs, Maps
  <2>5. cm' \in [ConfigMaps -> Maps \cup {Absent}] /\ cmKnown' \in [ConfigMaps -> BOOLEAN]
    <3>1. /\ cm \in [ConfigMaps -> Maps \cup {Absent}]
          /\ cmKnown \in [ConfigMaps -> BOOLEAN]
      BY DEF TypeOK
    <3>2. UNCHANGED <<cm, cmKnown>> \/ SetMap(run.cb.spec.target, Wanted)
      OBVIOUS
    <3> QED BY <2>1, <2>4, <3>1, <3>2
  <2>6. troubles' \in 0..MaxTroubles
    BY DEF TypeOK
  <2> QED BY <2>3, <2>5, <2>6 DEF TypeOK, Runs
<1>2. NeverForgotten'
  BY RunsAreBusy DEF NeverForgotten, BlendsCached, TypeOK, Runs, Exists
<1>3. BlendsCached'
  BY RunsAreBusy DEF BlendsCached, TypeOK, Runs, Exists, Copies
<1>4. MapsCached'
  BY DEF MapsCached, TypeOK
<1>5. RunFits'
  BY RunsAreBusy, NotReadyIsStatus DEF RunFits, BlendsCached, TypeOK, Runs, Exists, Copies
<1> QED BY <1>1, <1>2, <1>3, <1>4, <1>5

LEMMA ReportStatusInv ==
  ASSUME ControllerInv, ReportStatus
  PROVE  ControllerInv'
<1> USE DEF ControllerInv, ReportStatus, ReturnError, ReturnAfterInterval, Enqueue
<1>1. TypeOK'
  BY RunsAreBusy DEF TypeOK, Runs, Exists, Copies, Maps
<1>2. NeverForgotten'
  BY RunsAreBusy DEF NeverForgotten, BlendsCached, TypeOK, Runs, Exists
<1>3. BlendsCached'
  BY RunsAreBusy DEF BlendsCached, TypeOK, Runs, Exists, Copies
<1>4. MapsCached'
  BY DEF MapsCached, TypeOK
<1>5. RunFits'
  BY RunsAreBusy DEF RunFits, BlendsCached, TypeOK, Runs, Exists, Copies
<1> QED BY <1>1, <1>2, <1>3, <1>4, <1>5

LEMMA StatusErrorInv ==
  ASSUME ControllerInv, StatusError
  PROVE  ControllerInv'
<1> USE DEF ControllerInv, StatusError, Trouble, ReturnError, Enqueue
<1>1. TypeOK'
  <2>1. run \in Runs /\ run.key \in Blends /\ run.cb.status \in Statuses
    BY RunsAreBusy DEF Runs, Copies
  <2>2. status' \in [Blends -> Statuses] /\ cbKnown' \in [Blends -> BOOLEAN]
    BY <2>1 DEF TypeOK
  <2>3. queue' \subseteq Blends /\ troubles' \in 0..MaxTroubles
    BY <2>1 DEF TypeOK
  <2> QED BY <2>2, <2>3 DEF TypeOK
<1>2. NeverForgotten'
  BY RunsAreBusy DEF NeverForgotten, BlendsCached, TypeOK, Runs, Exists
<1>3. BlendsCached'
  BY RunsAreBusy DEF BlendsCached, TypeOK, Runs, Exists, Copies
<1>4. MapsCached'
  BY DEF MapsCached, TypeOK
<1>5. RunFits'
  BY RunsAreBusy DEF RunFits, BlendsCached, TypeOK, Runs, Exists, Copies
<1> QED BY <1>1, <1>2, <1>3, <1>4, <1>5

(* Every step of the controller, its manager and its surroundings keeps    *)
(* the invariant.                                                          *)
LEMMA NextKeepsInv == ControllerInv /\ [Next]_vars => ControllerInv'
<1> SUFFICES ASSUME ControllerInv, [Next]_vars PROVE ControllerInv'
  OBVIOUS
<1>1. CASE Environment
  BY <1>1, EditSpecInv, DeleteBlendInv, TouchMapInv, CollectInv, ChangeConfigInv, TickInv
     DEF Environment
<1>2. CASE Manager
  BY <1>2, DeliverBlendInv, DeliverMapInv, TimerFiresInv, RestartManagerInv, TakeInv
     DEF Manager
<1>3. CASE Reconcile
  BY <1>3, ResolveOkInv, ResolveFailInv, MarshalFailInv, SyncTargetInv, SyncErrorInv,
     ReportStatusInv, StatusErrorInv DEF Reconcile
<1>4. CASE UNCHANGED vars
  BY <1>4 DEF vars, world, caches, work, ControllerInv, TypeOK, NeverForgotten,
     BlendsCached, MapsCached, RunFits, Exists
<1> QED BY <1>1, <1>2, <1>3, <1>4 DEF Next

LEMMA ControllerInvHolds == Spec => []ControllerInv
BY InitInv, NextKeepsInv, PTL DEF Spec

-----------------------------------------------------------------------------
(* Every variable of the controller keeps its type.                        *)
THEOREM ControllerTypeCorrect == Spec => []TypeOK
<1>1. ControllerInv => TypeOK
  BY DEF ControllerInv
<1> QED BY <1>1, ControllerInvHolds, PTL

(* Every return of Reconcile, every restart and every event leave a        *)
(* ConfigBlend that exists queued, being reconciled, waiting for its       *)
(* interval, or about to be delivered by the watch.                        *)
THEOREM NoBlendIsForgotten == Spec => []NeverForgotten
<1>1. ControllerInv => NeverForgotten
  BY DEF ControllerInv
<1> QED BY <1>1, ControllerInvHolds, PTL

(* No status that says Ready is written over a newer spec: the update is   *)
(* refused unless the copy is the latest, and then it is about that spec.  *)
THEOREM ReadyIsCurrent == Spec => ReadyIsAboutCurrentSpec
<1>1. ControllerInv /\ [Next]_vars => [ReportsOnCurrentSpec]_vars
  <2> SUFFICES ASSUME ControllerInv, Next, NEW k \in Blends, status'[k] # status[k],
                      status'[k].ready = "True"
               PROVE  status'[k].observed = spec[k]
    BY DEF ReportsOnCurrentSpec
  <2>1. ReportStatus \/ StatusError
    BY DEF Next, Environment, EditSpec, DeleteBlend, TouchMap, Collect, ChangeConfig, Tick,
           Manager, DeliverBlend, TimerFires, Take, DeliverMap, RestartManager,
           Reconcile, ResolveOk, ResolveFail, MarshalFail, SyncTarget, SyncError,
           world, caches, work
  <2>2. run.at = "reporting" /\ run.current /\ status' = [status EXCEPT ![run.key] = run.cb.status]
    BY <2>1 DEF ReportStatus, StatusError
  <2>3. run \in Runs /\ run # NoRun
    BY <2>2, RunsAreBusy DEF ControllerInv
  <2>4. k = run.key /\ status'[k] = run.cb.status
    BY <2>2 DEF ControllerInv, TypeOK
  <2> QED BY <2>2, <2>3, <2>4 DEF ControllerInv, RunFits
<1> QED BY <1>1, ControllerInvHolds, PTL DEF Spec, ReadyIsAboutCurrentSpec

(* What a step does to a ConfigMap: a user touches it, the garbage         *)
(* collector removes it, or the reconcile in progress writes what it wants *)
(* over what it may take.                                                  *)
LEMMA WritesOfMaps ==
  ASSUME ControllerInv, Next, NEW n \in ConfigMaps, cm'[n] # cm[n]
  PROVE  \/ cm'[n] = Absent
         \/ run' = run /\ cm[n] = Absent
         \/ run' = run /\ cm[n] # Absent /\ cm'[n] = [cm[n] EXCEPT !.data = Foreign]
         \/ /\ run.at = "syncing"
            /\ cm'[n] = Wanted
            /\ cm[n] = Absent \/ cm[n].owner \in {Nobody, run.key}
<1>1. \/ \E m \in ConfigMaps : TouchMap(m) \/ Collect(m)
      \/ SyncTarget \/ SyncError
  BY DEF Next, Environment, EditSpec, DeleteBlend, ChangeConfig, Tick,
         Manager, DeliverBlend, TimerFires, Take, DeliverMap, RestartManager,
         Reconcile, ResolveOk, ResolveFail, MarshalFail, ReportStatus, StatusError,
         world, caches, work
<1>2. CASE \E m \in ConfigMaps : TouchMap(m)
  <2>1. PICK m \in ConfigMaps : TouchMap(m)
    BY <1>2
  <2>2. m = n
    BY <2>1 DEF TouchMap, SetMap, ControllerInv, TypeOK
  <2> QED BY <2>1, <2>2 DEF TouchMap, SetMap, ControllerInv, TypeOK, work
<1>3. CASE \E m \in ConfigMaps : Collect(m)
  BY <1>3 DEF Collect, SetMap, ControllerInv, TypeOK
<1>4. CASE SyncTarget \/ SyncError
  <2>1. run.at = "syncing"
    BY <1>4 DEF SyncTarget, SyncError
  <2>2. WriteSucceeds /\ SetMap(run.cb.spec.target, Wanted)
    BY <1>4 DEF SyncTarget, SyncError
  <2>3. n = run.cb.spec.target /\ cm'[n] = Wanted
    BY <2>2 DEF SetMap, ControllerInv, TypeOK
  <2>4. cm[n] = Absent \/ cm[n].owner \in {Nobody, run.key}
    BY <2>2, <2>3 DEF WriteSucceeds, ControllerInv, MapsCached
  <2> QED BY <2>1, <2>3, <2>4
<1> QED BY <1>1, <1>2, <1>3, <1>4

(* A ConfigMap that a ConfigBlend owns is not written for another one.     *)
THEOREM OwnersAreKept == Spec => OwnerNeverReplaced
<1>1. ControllerInv /\ [Next]_vars => [OwnerStays]_vars
  <2> SUFFICES ASSUME ControllerInv, Next, NEW n \in ConfigMaps,
                      cm[n] # Absent, cm[n].owner \in Blends, cm'[n] # Absent
               PROVE  cm'[n].owner = cm[n].owner
    BY DEF OwnerStays
  <2>1. cm[n] \in Maps
    BY DEF ControllerInv, TypeOK
  <2>2. CASE cm'[n] = cm[n]
    BY <2>2
  <2>3. CASE cm'[n] = [cm[n] EXCEPT !.data = Foreign]
    BY <2>1, <2>3 DEF Maps
  <2>4. CASE cm'[n] = Wanted /\ cm[n].owner \in {Nobody, run.key}
    BY <2>4 DEF Wanted
  <2> QED BY <2>2, <2>3, <2>4, WritesOfMaps
<1> QED BY <1>1, ControllerInvHolds, PTL DEF Spec, OwnerNeverReplaced

(* What the controller writes to a ConfigMap was resolved in the same run. *)
THEOREM LastGoodIsKept == Spec => LastGoodConfigKept
<1>1. ControllerInv /\ [Next]_vars => [WritesResolvedConfig]_vars
  <2> SUFFICES ASSUME ControllerInv, Next, NEW n \in ConfigMaps,
                      cm'[n] # cm[n], cm'[n] # Absent, run' # run
               PROVE  cm'[n] \in [data : Configs, owner : {run.key}]
    BY DEF WritesResolvedConfig
  <2>1. run.at = "syncing" /\ cm'[n] = Wanted
    BY WritesOfMaps
  <2>2. run.data \in Configs
    BY <2>1, RunsAreBusy DEF ControllerInv, RunFits
  <2> QED BY <2>1, <2>2 DEF Wanted
<1> QED BY <1>1, ControllerInvHolds, PTL DEF Spec, LastGoodConfigKept
=============================================================================

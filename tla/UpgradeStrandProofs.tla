-------------------------- MODULE UpgradeStrandProofs --------------------------
(***************************************************************************)
(* No wanted upgrade is forgotten.  The proof needs that users only raise  *)
(* versions and stamps and that ManifestWorks are read as they are on the  *)
(* server; the caches of bindings and ConfigMaps may lag as they like.     *)
(* What has to be excluded is that a run recorded for an earlier wish is   *)
(* resumed for the present one while opscenter-core holds another chart:   *)
(* then the version read back would never be the wanted one.               *)
(*                                                                         *)
(* Two more results about a reconciler asleep.  The status tells the truth *)
(* also if users go back and forth, as every step that changes the chart   *)
(* leads to a status update.  And a run that is still pending is for       *)
(* another version than the binding's, if the caches of bindings and       *)
(* ConfigMaps do not lag: as long as it is pending, the upgrade it was     *)
(* started for is wanted, and the reconcile that left it comes back.       *)
(***************************************************************************)
EXTENDS UpgradeProofs

\* The chart version in the opscenter-core ManifestWork.
CoreChart == works[OpscenterFeatures].spec.chart

\* A reconcile is on its way.
Running == pc # "idle"

\* The binding a reconcile works on is not newer than the cache's, nor that
\* newer than the server's; with no event waiting it is the cache's.
Behind ==
    /\ SeenBinding.version <= binding.version /\ SeenBinding.stamp <= binding.stamp
    /\ Running => run.b.version <= SeenBinding.version
    /\ Running /\ ~queued => run.b = SeenBinding

\* What the branch taken says of the binding and the profile.
Branched ==
    /\ Running => (run.up <=> NeedsUpgrade(run.b))
    /\ pc = "enable" => ~run.up /\ ShouldEnableFeatures(run.b, run.p)

\* The versions for which a run may be resumed now or later.
Current == {SeenBinding.version} \cup (IF Running THEN {run.b.version} ELSE {})

\* A recorded run is for no later version than the ones in vs, and if it is
\* for one of them, chart is its chart.
Fits(m, vs, chart) ==
    m.recorded => \A v \in vs : m.version <= v /\ (m.version = v /\ v # 0 => chart = v)

\* So it is with every ConfigMap, on the server and in the cache.
RecordedHasChart ==
    \A n \in ConfigMapName :
        Fits(cms[n], Current, CoreChart) /\ Fits(SeenConfigMaps[n], Current, CoreChart)

\* A name is never used for two versions at once.
OneVersion ==
    \A n \in ConfigMapName :
        Present(cms[n]) /\ Present(SeenConfigMaps[n]) => cms[n].version = SeenConfigMaps[n].version

\* The ConfigMap a reconcile writes is for the version it upgrades to.
OwnVersion ==
    pc \in Holding =>
        /\ run.cm.version = run.b.version
        /\ Present(cms[run.id]) => cms[run.id].version = run.b.version

\* From the patch of opscenter-core to the status update it has the chart.
ChartWritten ==
    run.b.version # 0 =>
        /\ \/ pc \in {"list", "work", "observe", "finish"}
           \/ pc = "status" /\ run.up
           => CoreChart = run.b.version
        /\ pc = "work" => run.list[OpscenterFeatures].spec.chart = run.b.version

\* The reconciler is asleep on a wish it has served, but for a failed read-back.
Unstranded ==
    Quiet /\ profile.state # "gone" =>
        /\ binding.version # 0 /\ binding.version # binding.observed
           => "readback" \in Fault /\ binding.observed = 0
        /\ binding.stamp # 0
           => binding.stamp \notin BadStamp /\ binding.lastAt = Whole(binding.stamp)

StrandInv ==
    /\ Behind /\ Branched /\ RecordedHasChart /\ OneVersion /\ OwnVersion /\ ChartWritten
    /\ Unstranded
--------------------------------------------------------------------------------
(***************************************************************************)
(* The steps, by what they do to the binding and to the reconcile.         *)
(***************************************************************************)

\* The reconcile goes on with what it read.
Advances ==
    /\ Running /\ Running' /\ pc' # "enable"
    /\ run'.b = run.b /\ run'.p = run.p /\ run'.up = run.up
    /\ UNCHANGED <<binding, profile, cache, queued>>

\* The reconcile ends and its key goes back to the queue.
Retries == Again /\ UNCHANGED <<binding, profile, cache>>

\* A step that the reconcile and the binding's informer do not notice.
Unnoticed == UNCHANGED <<binding, profile, cache.binding, pc, run, queued>>

\* An edit that raises the version or the stamp.
RaisesBinding ==
    /\ binding'.version >= binding.version /\ binding'.stamp >= binding.stamp
    /\ binding'.version > binding.version \/ binding'.stamp > binding.stamp
    /\ binding'.observed = binding.observed /\ binding'.lastAt = binding.lastAt
    /\ queued' = (queued \/ "binding" \notin Lagging)
    /\ UNCHANGED <<profile, works, cms, cache, pc, run>>

\* Versions and stamps are numbers.
LEMMA BindingNumbers ==
  ASSUME NEW b \in Binding
  PROVE  b.version \in Nat /\ b.stamp \in Nat
  <1>1. b.version \in Version \cup {0} /\ b.stamp \in Stamp \cup {0}
    BY DEF Binding
  <1>2. \A v \in Version \cup {0} : v \in Nat
    BY VersionAssumption
  <1>3. \A t \in Stamp \cup {0} : t \in Nat
    BY StampAssumption
  <1> QED
    BY <1>1, <1>2, <1>3, Zenon

\* A step of the reconciler starts, ends or continues a reconcile.
LEMMA ControllerShape ==
  ASSUME TypeOK, Controller
  PROVE  Reconcile \/ ReconcileNoProfile \/ UpdateStatus \/ Advances \/ Retries \/ Unnoticed
  <1> USE DEF hub, others
  <1>1. CASE ReconcileBadProfile
    BY <1>1 DEF ReconcileBadProfile, vars, Unnoticed
  <1>2. CASE FindPending
    BY <1>2 DEF FindPending, Advances, Running, TypeOK, RunType
  <1>3. CASE FindNone \/ DeleteStale \/ EnableFeatures
    BY <1>3 DEF FindNone, DeleteStale, EnableFeatures, Advances, Running
  <1>4. CASE Render \/ PatchCore \/ ListWorks
    BY <1>4 DEF Render, PatchCore, ListWorks, Advances, Running, TypeOK, RunType
  <1>5. CASE CreateConfigMap
    BY <1>5 DEF CreateConfigMap, Advances, Running, TypeOK, RunType
  <1>6. ASSUME NEW w \in ManifestWork, PatchWork(w) PROVE Advances
    BY <1>6 DEF PatchWork, Advances, Running, TypeOK, RunType
  <1>7. ASSUME NEW unread \in SUBSET ManifestWork, Observe(unread) PROVE Advances \/ Retries
    BY <1>7 DEF Observe, Advances, Retries, Running, TypeOK, RunType
  <1>8. CASE FinishUpgrade
    BY <1>8 DEF FinishUpgrade, Advances, Retries, Running
  <1>9. ASSUME NEW w \in ManifestWork, FeatureNotFound(w) PROVE Retries
    BY <1>9 DEF FeatureNotFound, Retries
  <1>10. CASE RenderNoValues \/ RecordPending \/ ConfigMapUnseen \/ StatusRejected
    BY <1>10 DEF RenderNoValues, RecordPending, ConfigMapUnseen, StatusRejected, Retries
  <1>11. ASSUME NEW ws \in SUBSET ManifestWork, EnableNotFound(ws) PROVE Retries
    BY <1>11 DEF EnableNotFound, EnableStopsAt, Retries
  <1> QED
    BY <1>1, <1>2, <1>3, <1>4, <1>5, <1>6, <1>7, <1>8, <1>9, <1>10, <1>11 DEF Controller

\* Users who only raise versions and stamps raise one of them or edit the
\* profile.
LEMMA UsersShape ==
  ASSUME TypeOK, Forward, Users
  PROVE  RaisesBinding \/ \E p : EditProfile(p)
  <1>1. binding.version \in Nat /\ binding.stamp \in Nat /\ queued \in BOOLEAN
    BY BindingNumbers DEF TypeOK
  <1>2. ASSUME NEW v \in Version, NEW vals \in BOOLEAN, SetVersion(v, vals) PROVE RaisesBinding
    <2>1. v \in Nat /\ v > binding.version
      BY <1>2, VersionAssumption DEF SetVersion
    <2>2. /\ binding'.version = v /\ binding'.stamp = binding.stamp
          /\ binding'.observed = binding.observed /\ binding'.lastAt = binding.lastAt
      BY <1>2 DEF SetVersion, EditBinding, TypeOK, Binding
    <2> QED
      BY <1>1, <1>2, <2>1, <2>2 DEF SetVersion, EditBinding, Notified, RaisesBinding
  <1>3. ASSUME NEW t \in Stamp, SetStamp(t) PROVE RaisesBinding
    <2>1. t \in Nat /\ t > binding.stamp
      BY <1>3, StampAssumption DEF SetStamp
    <2>2. /\ binding'.version = binding.version /\ binding'.stamp = t
          /\ binding'.observed = binding.observed /\ binding'.lastAt = binding.lastAt
      BY <1>3 DEF SetStamp, EditBinding, TypeOK, Binding
    <2> QED
      BY <1>1, <1>3, <2>1, <2>2 DEF SetStamp, EditBinding, Notified, RaisesBinding
  <1> QED
    BY <1>2, <1>3 DEF Users, EditValues, EditChart, EditState

\* Every step but the users'.
LEMMA StepShape ==
  ASSUME TypeOK, Next
  PROVE  \/ Reconcile \/ ReconcileNoProfile
         \/ UpdateStatus \/ ReadBackFails
         \/ Advances \/ Retries \/ Unnoticed
         \/ Restart \/ SyncBinding
         \/ Users
  <1> USE DEF hub, others
  <1>1. CASE Controller
    BY <1>1, ControllerShape
  <1>2. CASE Informers
    BY <1>2 DEF Informers, SyncWorks, SyncConfigMaps, Unnoticed, TypeOK
  <1>3. CASE Spoke \/ Clock
    BY <1>3 DEF Spoke, AgentApplies, FluxReconciles, AgentReports, Clock, Timeout, Unnoticed
  <1>4. CASE Failures
    BY <1>4 DEF Failures, EnableFails, EnableStopsAt, CallFails, AgentFails, Retries, Unnoticed
  <1> QED
    BY <1>1, <1>2, <1>3, <1>4 DEF Next

\* Every step, while users only raise versions and stamps.
LEMMA NextShape ==
  ASSUME TypeOK, Forward, Next
  PROVE  \/ Reconcile \/ ReconcileNoProfile
         \/ UpdateStatus \/ ReadBackFails
         \/ Advances \/ Retries \/ Unnoticed
         \/ Restart \/ SyncBinding
         \/ RaisesBinding \/ \E p : EditProfile(p)
  BY StepShape, UsersShape
--------------------------------------------------------------------------------
(***************************************************************************)
(* The parts about the binding.                                            *)
(***************************************************************************)

\* What the status update does to the binding.
LEMMA StatusShape ==
  ASSUME TypeOK, NEW o, StatusUpdate(o)
  PROVE  /\ pc = "status" /\ pc' = "idle"
         /\ SeenBinding = binding
         /\ binding'.version = binding.version /\ binding'.stamp = binding.stamp
         /\ binding'.observed = o
         /\ run.b.stamp # 0 => binding'.lastAt = Whole(run.b.stamp)
         /\ run.b.stamp = 0 => binding'.lastAt = binding.lastAt
         /\ run.b.stamp \notin BadStamp
         /\ queued' = (queued \/ ("binding" \notin Lagging /\ binding' # binding))
         /\ UNCHANGED <<profile, works, cms, cache>>
  BY DEF StatusUpdate, StatusOf, Notified, Done, others, TypeOK, Binding

\* The reconcile's binding stays behind the cache's, and that behind the
\* server's.
LEMMA BehindStep ==
  ASSUME TypeOK, TypeOK', Forward, Behind, Next
  PROVE  Behind'
  <1>1. /\ SeenBinding.version \in Nat /\ SeenBinding.stamp \in Nat
        /\ binding.version \in Nat /\ binding.stamp \in Nat /\ run.b.version \in Nat
        /\ binding'.version \in Nat /\ binding'.stamp \in Nat
        /\ queued \in BOOLEAN /\ queued' \in BOOLEAN
    <2>1. binding \in Binding /\ binding' \in Binding /\ run.b \in Binding
      BY DEF TypeOK, RunType
    <2> QED
      BY <2>1, SeenType, BindingNumbers DEF TypeOK
  <1> USE DEF Behind, Running, SeenBinding
  <1>2. CASE Reconcile
    BY <1>1, <1>2, ReconcileShape
  <1>3. CASE ReconcileNoProfile
    BY <1>1, <1>3 DEF ReconcileNoProfile, hub, others
  <1>4. ASSUME NEW o, StatusUpdate(o) PROVE Behind'
    BY <1>1, <1>4, StatusShape
  <1>5. CASE Advances
    BY <1>1, <1>5 DEF Advances
  <1>6. CASE Retries
    BY <1>1, <1>6 DEF Retries, Again
  <1>7. CASE Unnoticed
    BY <1>1, <1>7 DEF Unnoticed
  <1>8. CASE Restart
    BY <1>1, <1>8 DEF Restart, Again, hub
  <1>9. CASE SyncBinding
    BY <1>1, <1>9 DEF SyncBinding, hub, TypeOK
  <1>10. CASE RaisesBinding
    <2>1. CASE "binding" \in Lagging
      BY <1>1, <1>10, <2>1 DEF RaisesBinding
    <2>2. CASE "binding" \notin Lagging
      <3>1. queued' = TRUE /\ pc' = pc /\ run' = run
        BY <1>10, <2>2 DEF RaisesBinding
      <3>2. binding.version <= binding'.version /\ binding.stamp <= binding'.stamp
        BY <1>1, <1>10 DEF RaisesBinding
      <3>3. pc # "idle" => run.b.version <= binding'.version
        BY <1>1, <2>2, <3>2
      <3> QED
        BY <1>1, <2>2, <3>1, <3>3
    <2> QED
      BY <2>1, <2>2
  <1>11. ASSUME NEW p, EditProfile(p) PROVE Behind'
    BY <1>1, <1>11 DEF EditProfile
  <1> QED
    BY <1>2, <1>3, <1>4, <1>5, <1>6, <1>7, <1>8, <1>9, <1>10, <1>11, NextShape
    DEF UpdateStatus, ReadBackFails

\* The branch is kept.
LEMMA BranchedStep ==
  ASSUME TypeOK, Forward, Branched, Next
  PROVE  Branched'
  <1> USE DEF Branched, Running
  <1>1. CASE Reconcile
    BY <1>1, ReconcileShape
  <1>2. CASE ReconcileNoProfile
    BY <1>2 DEF ReconcileNoProfile
  <1>3. ASSUME NEW o, StatusUpdate(o) PROVE Branched'
    BY <1>3, StatusShape
  <1>4. CASE Advances
    BY <1>4 DEF Advances, NeedsUpgrade
  <1>5. CASE Retries \/ Restart
    BY <1>5 DEF Retries, Restart, Again
  <1>6. ASSUME UNCHANGED <<pc, run>> PROVE Branched'
    BY <1>6 DEF NeedsUpgrade, ShouldEnableFeatures
  <1> QED
    BY <1>1, <1>2, <1>3, <1>4, <1>5, <1>6, NextShape
    DEF UpdateStatus, ReadBackFails, Unnoticed, SyncBinding, RaisesBinding, EditProfile

\* No step puts the reconciler to sleep on an open wish, except a failed
\* read-back.
LEMMA UnstrandedStep ==
  ASSUME TypeOK, TypeOK', Forward, "work" \notin Lagging,
         Behind, Branched, ChartWritten, Unstranded, Next
  PROVE  Unstranded'
  <1>1. /\ SeenBinding.version \in Nat /\ SeenBinding.stamp \in Nat
        /\ binding.version \in Nat /\ binding.stamp \in Nat
        /\ binding'.version \in Nat /\ binding'.stamp \in Nat
        /\ queued \in BOOLEAN /\ queued' \in BOOLEAN
    <2>1. binding \in Binding /\ binding' \in Binding
      BY DEF TypeOK
    <2> QED
      BY <2>1, SeenType, BindingNumbers DEF TypeOK
  <1>2. ASSUME pc' # "idle" \/ queued' = TRUE PROVE Unstranded'
    BY <1>2 DEF Unstranded, Quiet
  <1>3. CASE Reconcile
    BY <1>2, <1>3, ReconcileShape
  <1>4. CASE ReconcileNoProfile
    BY <1>4 DEF ReconcileNoProfile, Unstranded, hub
  <1>5. ASSUME NEW o, StatusUpdate(o), o = CoreChart \/ ("readback" \in Fault /\ o = 0)
        PROVE  Unstranded'
    <2> SUFFICES ASSUME Quiet'
                 PROVE  /\ binding'.version # 0 /\ binding'.version # o
                           => "readback" \in Fault /\ o = 0
                        /\ binding'.stamp # 0
                           => binding'.stamp \notin BadStamp /\ binding'.lastAt = Whole(binding'.stamp)
      BY <1>5, StatusShape DEF Unstranded
    <2>1. binding' = binding /\ ~queued
      BY <1>1, <1>5, StatusShape DEF Quiet, SeenBinding
    <2>2. run.b = binding
      BY <1>5, <2>1, StatusShape DEF Behind, Running
    <2>3. binding.stamp # 0
             => binding.stamp \notin BadStamp /\ binding.lastAt = Whole(binding.stamp)
      BY <1>5, <2>1, <2>2, StatusShape
    <2>4. ASSUME binding.version # 0, binding.version # o PROVE CoreChart = binding.version
      <3>1. binding.observed = o
        BY <1>5, <2>1, StatusShape
      <3>2. NeedsUpgrade(binding)
        BY <2>4, <3>1 DEF NeedsUpgrade
      <3>3. run.up
        BY <1>5, <2>2, <3>2, StatusShape DEF Branched, Running
      <3> QED
        BY <1>5, <2>2, <2>4, <3>3, StatusShape DEF ChartWritten
    <2> QED
      BY <1>5, <2>1, <2>3, <2>4
  <1>6. CASE UpdateStatus
    BY <1>5, <1>6 DEF UpdateStatus, SeenWorks, CoreChart
  <1>7. CASE ReadBackFails
    BY <1>5, <1>7 DEF ReadBackFails
  <1>8. CASE Advances
    BY <1>2, <1>8 DEF Advances, Running
  <1>9. CASE Unnoticed
    BY <1>9 DEF Unnoticed, Unstranded, Quiet, NeedsUpgrade
  <1>10. CASE RaisesBinding
    <2>1. CASE "binding" \in Lagging
      <3>1. cache'.binding = SeenBinding
        BY <1>10, <2>1 DEF RaisesBinding, SeenBinding
      <3>2. cache'.binding # binding'
        BY <1>1, <1>10, <3>1 DEF RaisesBinding, Behind
      <3> QED
        BY <2>1, <3>2 DEF Unstranded, Quiet
    <2>2. CASE "binding" \notin Lagging
      BY <1>2, <1>10, <2>2 DEF RaisesBinding
    <2> QED
      BY <2>1, <2>2
  <1>11. CASE Retries \/ Restart \/ SyncBinding \/ \E p : EditProfile(p)
    BY <1>2, <1>11 DEF Retries, Restart, Again, SyncBinding, EditProfile
  <1> QED
    BY <1>3, <1>4, <1>6, <1>7, <1>8, <1>9, <1>10, <1>11, NextShape
--------------------------------------------------------------------------------
(***************************************************************************)
(* The parts about the ConfigMaps.                                         *)
(***************************************************************************)

\* m is what is left of the ConfigMap k.
Left(m, k) ==
    /\ Present(m) => m.status = k.status /\ m.version = k.version
    /\ m.recorded => k.recorded /\ m.version = k.version

\* ConfigMaps may go or expire.
KeepsMaps ==
    /\ \A n \in ConfigMapName : Left(cms'[n], cms[n])
    /\ UNCHANGED cache.cms

\* The cache catches up.
SeesMaps == UNCHANGED cms /\ cache'.cms = cms

\* The reconcile writes its ConfigMap.
WritesMap ==
    /\ pc \in {"work", "observe", "finish"}
    /\ Writable(run.id)
    /\ \E mod \in ConfigMap :
          /\ mod.version = run.b.version
          /\ cms' = [cms EXCEPT ![run.id] = Written(run.id, mod)]
    /\ UNCHANGED <<works, cache, binding>>

\* Every step, by what it does to the ConfigMaps.
LEMMA MapsShape ==
  ASSUME TypeOK, OwnVersion, Next
  PROVE  KeepsMaps \/ SeesMaps \/ WritesMap \/ CreateConfigMap
  <1> USE DEF hub, others
  <1>1. ASSUME UNCHANGED cms, UNCHANGED cache.cms PROVE KeepsMaps
    BY <1>1 DEF KeepsMaps, Left
  <1>2. ASSUME NEW gone \in SUBSET ConfigMapName, cms' = Swept(gone), UNCHANGED cache.cms
        PROVE  KeepsMaps
    BY <1>2 DEF Swept, KeepsMaps, Left, NoConfigMap, Present
  <1>3. run.cm \in ConfigMap /\ Stale \subseteq ConfigMapName
    BY DEF TypeOK, RunType, Stale
  <1>4. CASE RecordPending
    <2> DEFINE mod == [run.cm EXCEPT !.recorded = TRUE, !.min = run.min, !.stamp = run.b.stamp]
    <2>1. mod \in ConfigMap
      BY DEF TypeOK, RunType, ConfigMap, Binding
    <2>2. mod.version = run.cm.version /\ run.cm.version = run.b.version
      BY <1>3, <1>4 DEF RecordPending, OwnVersion, Holding, ConfigMap
    <2>3. cms' = [cms EXCEPT ![run.id] = Written(run.id, mod)]
      BY <1>4 DEF RecordPending
    <2> HIDE DEF mod
    <2> QED
      BY <1>4, <2>1, <2>2, <2>3 DEF RecordPending, WritesMap
  <1>5. ASSUME NEW unread \in SUBSET ManifestWork, Observe(unread) PROVE KeepsMaps \/ WritesMap
    <2> DEFINE mod == Marked(ReadyNow(unread))
    <2>1. CASE NewMarks(ReadyNow(unread))
      <3>1. mod \in ConfigMap /\ mod.version = run.cm.version
        BY <1>3 DEF Marked, ConfigMap
      <3>2. run.cm.version = run.b.version
        BY <1>5 DEF Observe, OwnVersion, Holding
      <3>3. cms' = [cms EXCEPT ![run.id] = Written(run.id, mod)] /\ Writable(run.id)
        BY <1>5, <2>1 DEF Observe
      <3> HIDE DEF mod
      <3> QED
        BY <1>5, <3>1, <3>2, <3>3 DEF Observe, WritesMap
    <2>2. CASE ~NewMarks(ReadyNow(unread))
      BY <1>1, <1>5, <2>2 DEF Observe
    <2> QED
      BY <2>1, <2>2
  <1>6. CASE FinishUpgrade
    <2>1. Finished \in ConfigMap /\ Finished.version = run.cm.version
      BY <1>3 DEF Finished, ConfigMap
    <2>2. run.cm.version = run.b.version
      BY <1>6 DEF FinishUpgrade, OwnVersion, Holding
    <2> QED
      BY <1>6, <2>1, <2>2 DEF FinishUpgrade, WritesMap
  <1>7. CASE DeleteStale
    BY <1>2, <1>3, <1>7 DEF DeleteStale
  <1>8. CASE Controller
    BY <1>1, <1>4, <1>5, <1>6, <1>7, <1>8
    DEF Controller, Reconcile, ReconcileNoProfile, ReconcileBadProfile, vars, FindPending,
        FindNone, Render, RenderNoValues, PatchCore, ListWorks, PatchWork, FeatureNotFound,
        ConfigMapUnseen, EnableFeatures, EnableNotFound, EnableStopsAt, UpdateStatus,
        StatusUpdate, StatusRejected
  <1>9. CASE CallFails
    BY <1>1, <1>2, <1>3, <1>9 DEF CallFails
  <1>10. CASE Failures
    BY <1>1, <1>9, <1>10 DEF Failures, EnableFails, EnableStopsAt, ReadBackFails, StatusUpdate,
       Restart, AgentFails, SeesMaps
  <1>11. CASE Informers
    BY <1>1, <1>11 DEF Informers, SyncBinding, SyncWorks, SyncConfigMaps, SeesMaps, TypeOK
  <1>12. ASSUME NEW n \in ConfigMapName, Timeout(n) PROVE KeepsMaps
    BY <1>12 DEF Timeout, KeepsMaps, Left, Present, TypeOK, ConfigMap
  <1>13. CASE Spoke \/ Users
    BY <1>1, <1>13 DEF Spoke, AgentApplies, FluxReconciles, AgentReports, Users, SetVersion,
       SetStamp, EditBinding, EditValues, EditChart, EditState, EditProfile
  <1> QED
    BY <1>8, <1>10, <1>11, <1>12, <1>13 DEF Next, Clock

\* A write leaves the run's ConfigMap with the version of the reconcile.
LEMMA WrittenVersion ==
  ASSUME TypeOK, HasName, OwnVersion, pc \in Holding, NEW mod \in ConfigMap,
         mod.version = run.b.version
  PROVE  /\ run.id \in ConfigMapName
         /\ Written(run.id, mod) \in ConfigMap
         /\ Written(run.id, mod).version = run.b.version
  <1>1. run.id \in ConfigMapName
    BY DEF HasName, Holding, TypeOK, RunType
  <1>2. cms[run.id] \in ConfigMap /\ Written(run.id, mod) \in ConfigMap
    BY <1>1, WrittenType DEF TypeOK
  <1>3. CASE Present(cms[run.id])
    <2>1. MergePatch(SeenConfigMaps[run.id], mod, cms[run.id]).version = cms[run.id].version
      BY <1>2 DEF MergePatch, ConfigMap
    <2> QED
      BY <1>1, <1>2, <1>3, <2>1 DEF Written, OwnVersion
  <1>4. CASE ~Present(cms[run.id])
    BY <1>1, <1>2, <1>4 DEF Written, ConfigMap
  <1> QED
    BY <1>1, <1>2, <1>3, <1>4

\* The cached and the stored ConfigMap of a name stay of one version.
LEMMA OneVersionStep ==
  ASSUME TypeOK, HasName, OwnVersion, OneVersion, Next
  PROVE  OneVersion'
  <1> USE DEF OneVersion, SeenConfigMaps
  <1>1. CASE "configmap" \notin Lagging
    BY <1>1
  <1>2. CASE "configmap" \in Lagging
    <2>1. CASE KeepsMaps
      BY <1>2, <2>1 DEF KeepsMaps, Left, Present
    <2>2. CASE SeesMaps
      BY <1>2, <2>2 DEF SeesMaps
    <2>3. CASE WritesMap
      <3>1. PICK mod \in ConfigMap :
               /\ mod.version = run.b.version
               /\ cms' = [cms EXCEPT ![run.id] = Written(run.id, mod)]
        BY <2>3 DEF WritesMap
      <3>2. pc \in Holding
        BY <2>3 DEF WritesMap, Holding
      <3>3. run.id \in ConfigMapName /\ Written(run.id, mod).version = run.b.version
        BY <3>1, <3>2, WrittenVersion
      <3>4. \A n \in ConfigMapName : cms'[n] = IF n = run.id THEN Written(run.id, mod) ELSE cms[n]
        BY <3>1 DEF TypeOK
      <3>5. Present(cache.cms[run.id]) => cache.cms[run.id].version = run.b.version
        BY <1>2, <2>3, <3>2, <3>3 DEF WritesMap, Writable, OwnVersion
      <3> QED
        BY <1>2, <2>3, <3>3, <3>4, <3>5 DEF WritesMap
    <2>4. CASE CreateConfigMap
      <3>1. PICK n \in ConfigMapName :
               /\ ~Present(cache.cms[n])
               /\ cms' = [cms EXCEPT ![n] = NewConfigMap(run.b.version)]
               /\ UNCHANGED cache
        BY <2>4, CreatedShape
      <3>2. \A m \in ConfigMapName : m # n => cms'[m] = cms[m]
        BY <3>1 DEF TypeOK
      <3> QED
        BY <1>2, <3>1, <3>2
    <2> QED
      BY <2>1, <2>2, <2>3, <2>4, MapsShape
  <1> QED
    BY <1>1, <1>2

\* The reconcile's ConfigMap stays of its version.
LEMMA OwnVersionStep ==
  ASSUME TypeOK, HasName, OwnVersion, OneVersion, Next
  PROVE  OwnVersion'
  <1> USE DEF hub, others
  <1>1. ASSUME pc' \notin Holding PROVE OwnVersion'
    BY <1>1 DEF OwnVersion
  <1>2. ASSUME UNCHANGED cms, pc \in Holding, run'.b = run.b, run'.id = run.id, run'.cm = run.cm
        PROVE  OwnVersion'
    BY <1>2 DEF OwnVersion
  <1>3. ASSUME UNCHANGED <<cms, pc, run>> PROVE OwnVersion'
    BY <1>3 DEF OwnVersion
  <1>4. CASE FindPending
    <2>1. PICK n \in ConfigMapName :
             /\ Resumable(SeenConfigMaps[n], run.b)
             /\ run' = [run EXCEPT !.id = n, !.cm = SeenConfigMaps[n], !.min = SeenConfigMaps[n].min]
      BY <1>4 DEF FindPending
    <2>2. run'.id = n /\ run'.cm = SeenConfigMaps[n] /\ run'.b = run.b
      BY <2>1 DEF TypeOK, RunType
    <2>3. Present(SeenConfigMaps[n]) /\ SeenConfigMaps[n].version = run.b.version
      BY <2>1 DEF Resumable, Present
    <2>4. UNCHANGED cms
      BY <1>4 DEF FindPending
    <2> QED
      BY <2>2, <2>3, <2>4 DEF OwnVersion, OneVersion
  <1>5. CASE CreateConfigMap
    <2>1. PICK n \in ConfigMapName :
             /\ cms' = [cms EXCEPT ![n] = NewConfigMap(run.b.version)]
             /\ run'.id = n /\ run'.cm = NewConfigMap(run.b.version) /\ run'.b = run.b
      BY <1>5, CreatedShape
    <2>2. cms'[n] = NewConfigMap(run.b.version)
      BY <2>1 DEF TypeOK
    <2>3. NewConfigMap(run.b.version).version = run.b.version
      BY DEF NewConfigMap, NoConfigMap
    <2> QED
      BY <2>1, <2>2, <2>3 DEF OwnVersion
  <1>6. CASE PatchCore \/ ListWorks
    BY <1>2, <1>6 DEF PatchCore, ListWorks, Holding, TypeOK, RunType
  <1>7. ASSUME NEW w \in ManifestWork, PatchWork(w) PROVE OwnVersion'
    BY <1>2, <1>7 DEF PatchWork, Holding, TypeOK, RunType
  <1>8. ASSUME NEW unread \in SUBSET ManifestWork, Observe(unread) PROVE OwnVersion'
    <2> DEFINE ready == ReadyNow(unread)
    <2> DEFINE new == Written(run.id, Marked(ready))
    <2>1. pc \in Holding /\ run.cm \in ConfigMap
      BY <1>8 DEF Observe, Holding, TypeOK, RunType
    <2>2. Marked(ready) \in ConfigMap /\ Marked(ready).version = run.b.version
      BY <2>1 DEF Marked, ConfigMap, OwnVersion
    <2>3. run.id \in ConfigMapName /\ new.version = run.b.version
      BY <2>1, <2>2, WrittenVersion
    <2>4. CASE pc' = "idle"
      BY <1>1, <2>4 DEF Holding
    <2>5. CASE pc' = "finish" /\ NewMarks(ready)
      <3>1. run' = [run EXCEPT !.cm = new, !.err = ~(ready = HelmRelease)]
        BY <1>8, <2>5 DEF Observe, Again
      <3>2. cms' = [cms EXCEPT ![run.id] = new]
        BY <1>8, <2>5 DEF Observe
      <3> HIDE DEF new
      <3>3. run'.id = run.id /\ run'.cm = new /\ run'.b = run.b /\ cms'[run.id] = new
        BY <2>3, <3>1, <3>2 DEF TypeOK, RunType
      <3> QED
        BY <2>3, <3>3 DEF OwnVersion
    <2>6. CASE pc' = "finish" /\ ~NewMarks(ready)
      <3>1. run' = [run EXCEPT !.cm = run.cm, !.err = ~(ready = HelmRelease)]
        BY <1>8, <2>6 DEF Observe, Again
      <3>2. cms' = cms
        BY <1>8, <2>6 DEF Observe
      <3> QED
        BY <1>2, <2>1, <3>1, <3>2 DEF TypeOK, RunType
    <2> QED
      BY <1>8, <2>4, <2>5, <2>6 DEF Observe, Again
  <1>9. CASE Controller
    <2>1. Reconcile => pc' \notin Holding
      BY ReconcileShape DEF Holding
    <2>2. Again => pc' \notin Holding
      BY DEF Again, Holding
    <2> QED
      BY <1>1, <1>3, <1>4, <1>5, <1>6, <1>7, <1>8, <1>9, <2>1, <2>2
      DEF Controller, ReconcileNoProfile, ReconcileBadProfile, vars, FindNone, Render,
          RenderNoValues, DeleteStale, FeatureNotFound, RecordPending, ConfigMapUnseen,
          FinishUpgrade, EnableFeatures, EnableNotFound, EnableStopsAt, UpdateStatus,
          StatusUpdate, Done, StatusRejected, Holding
  <1>10. CASE Failures
    BY <1>1, <1>3, <1>10 DEF Failures, EnableFails, EnableStopsAt, ReadBackFails, StatusUpdate,
       Done, CallFails, Restart, AgentFails, Again, Holding
  <1>11. ASSUME NEW n \in ConfigMapName, Timeout(n) PROVE OwnVersion'
    <2>1. UNCHANGED <<pc, run>>
      BY <1>11 DEF Timeout
    <2>2. \A m \in ConfigMapName : cms'[m].status = cms[m].status /\ cms'[m].version = cms[m].version
      BY <1>11 DEF Timeout, TypeOK, ConfigMap
    <2>3. pc \in Holding => run.id \in ConfigMapName
      BY DEF HasName, Holding, TypeOK, RunType
    <2> QED
      BY <2>1, <2>2, <2>3 DEF OwnVersion, Present
  <1>12. CASE Informers \/ Spoke \/ Users
    BY <1>3, <1>12 DEF Informers, SyncBinding, SyncWorks, SyncConfigMaps, Spoke, AgentApplies,
       FluxReconciles, AgentReports, Users, SetVersion, SetStamp, EditBinding, EditValues,
       EditChart, EditState, EditProfile
  <1> QED
    BY <1>9, <1>10, <1>11, <1>12 DEF Next, Clock
--------------------------------------------------------------------------------
(***************************************************************************)
(* The parts about the chart in opscenter-core.                            *)
(***************************************************************************)

\* patchFeatureSet of opscenter-core writes the wanted version.
LEMMA PatchCoreChart ==
  ASSUME TypeOK, "work" \notin Lagging, PatchCore
  PROVE  CoreChart' = run.b.version
  <1>1. works' = Patched({Core}, Rewritten({OpscenterFeatures}))
    BY DEF PatchCore
  <1>2. works'[OpscenterFeatures].spec = Rewritten({OpscenterFeatures})[OpscenterFeatures].spec
    BY <1>1, PatchedSpec, RewrittenType, ReleaseAssumption DEF Core
  <1>3. run.list[OpscenterFeatures] \in Manifest /\ run.b.version \in Version \cup {0}
    BY ReleaseAssumption DEF TypeOK, RunType, Binding
  <1>4. Rewritten({OpscenterFeatures})[OpscenterFeatures].spec
           = Rendered(OpscenterFeatures, run.b.version, run.p.rev)
    BY <1>3, ReleaseAssumption DEF Rewritten, Manifest
  <1>5. Rendered(OpscenterFeatures, run.b.version, run.p.rev).chart = run.b.version
    BY <1>3, VersionAssumption DEF Rendered
  <1> QED
    BY <1>2, <1>4, <1>5 DEF CoreChart

\* The other patches leave opscenter-features as it was listed.
LEMMA PatchWorkChart ==
  ASSUME TypeOK, "work" \notin Lagging, NEW w \in ManifestWork, PatchWork(w)
  PROVE  /\ CoreChart' \in {CoreChart, run.list[OpscenterFeatures].spec.chart}
         /\ run'.list = run.list /\ run'.b = run.b /\ run'.up = run.up /\ pc' = pc
         /\ UNCHANGED <<cms, cache, binding>>
  <1>1. works' = Patched({w}, Rewritten(Features(w)))
    BY DEF PatchWork
  <1>2. Rewritten(Features(w))[OpscenterFeatures] = run.list[OpscenterFeatures]
    BY ReleaseAssumption DEF Rewritten, Features
  <1>3. Rewritten(Features(w)) \in [HelmRelease -> Manifest]
    BY RewrittenType
  <1>4. works'[OpscenterFeatures].spec
           = IF Core = w THEN run.list[OpscenterFeatures].spec ELSE works[OpscenterFeatures].spec
    <2> DEFINE mod == Rewritten(Features(w))
    <2> HIDE DEF mod
    <2>1. mod \in [HelmRelease -> Manifest] /\ OpscenterFeatures \in HelmRelease
      BY <1>3, ReleaseAssumption DEF mod
    <2>2. Patched({w}, mod)[OpscenterFeatures].spec
             = IF WorkOf[OpscenterFeatures] \in {w} THEN mod[OpscenterFeatures].spec
                                                    ELSE works[OpscenterFeatures].spec
      BY <2>1, PatchedSpec
    <2> QED
      BY <1>1, <1>2, <2>2 DEF mod, Core
  <1>5. run'.list = run.list /\ run'.b = run.b /\ run'.up = run.up
    BY DEF PatchWork, TypeOK, RunType
  <1> QED
    BY <1>4, <1>5 DEF PatchWork, CoreChart, others

\* EnableFeatures writes the profile's version, if it writes opscenter-core.
LEMMA InstallsChart ==
  ASSUME TypeOK, "work" \notin Lagging, NEW ws, InstallsSome(ws)
  PROVE  CoreChart' \in {CoreChart, run.p.version}
  <1> DEFINE mod == [h \in HelmRelease |-> Exported(h)]
  <1>1. \A h \in HelmRelease : InstalledSpec(h) \in HRSpec
    BY RenderedType DEF InstalledSpec, TypeOK, RunType, Profile
  <1>2. mod \in [HelmRelease -> Manifest]
    BY <1>1 DEF Exported, TypeOK, Manifest
  <1>3. mod[OpscenterFeatures].spec = Rendered(OpscenterFeatures, run.p.version, run.p.rev)
    <2>1. works[OpscenterFeatures] \in Manifest /\ OpscenterFeatures \in HelmRelease
      BY ReleaseAssumption DEF TypeOK
    <2>2. Exported(OpscenterFeatures).spec = InstalledSpec(OpscenterFeatures)
      BY <2>1 DEF Exported, Manifest
    <2> QED
      BY <2>1, <2>2 DEF InstalledSpec
  <1>4. works' = Patched(ws, mod)
    BY DEF InstallsSome, Installs
  <1> HIDE DEF mod
  <1>5. mod[OpscenterFeatures].spec.chart = run.p.version
    <2>1. run.p.version \in Version \cup {0}
      BY DEF TypeOK, RunType, Profile
    <2>2. ChartOf[OpscenterFeatures][run.p.version] = run.p.version
      BY <2>1, VersionAssumption, Zenon
    <2>3. Rendered(OpscenterFeatures, run.p.version, run.p.rev).chart
             = ChartOf[OpscenterFeatures][run.p.version]
      BY DEF Rendered
    <2> QED
      BY <1>3, <2>2, <2>3
  <1>6. works'[OpscenterFeatures].spec
           \in {works[OpscenterFeatures].spec, mod[OpscenterFeatures].spec}
    BY <1>2, <1>4, PatchedSpec, ReleaseAssumption
  <1> QED
    BY <1>5, <1>6 DEF CoreChart

\* The chart an upgrade wrote is there until its status update.
LEMMA ChartWrittenStep ==
  ASSUME TypeOK, "work" \notin Lagging, Branched, RecordedHasChart, ChartWritten, Next
  PROVE  ChartWritten'
  <1> USE DEF hub, others
  <1>1. ASSUME pc' \notin {"list", "work", "observe", "finish", "status"} PROVE ChartWritten'
    BY <1>1 DEF ChartWritten
  <1>2. ASSUME pc' = "status", ~run'.up PROVE ChartWritten'
    BY <1>2 DEF ChartWritten
  <1>3. ASSUME SameSpecs, UNCHANGED <<pc, run>> PROVE ChartWritten'
    BY <1>3, ReleaseAssumption DEF ChartWritten, SameSpecs, CoreChart
  <1>4. CASE PatchCore
    <2>1. run'.b = run.b /\ pc' = "list"
      BY <1>4 DEF PatchCore, TypeOK, RunType
    <2> QED
      BY <1>4, <2>1, PatchCoreChart DEF ChartWritten
  <1>5. ASSUME NEW w \in ManifestWork, PatchWork(w) PROVE ChartWritten'
    <2>1. pc = "work"
      BY <1>5 DEF PatchWork
    <2> QED
      BY <1>5, <2>1, PatchWorkChart DEF ChartWritten
  <1>6. ASSUME NEW ws \in SUBSET ManifestWork, InstallsSome(ws) PROVE ChartWritten'
    BY <1>1, <1>2, <1>6 DEF InstallsSome, Branched
  <1>7. CASE FindPending
    <2>1. PICK n \in ConfigMapName : Resumable(SeenConfigMaps[n], run.b)
      BY <1>7 DEF FindPending
    <2>2. Fits(SeenConfigMaps[n], Current, CoreChart) /\ run.b.version \in Current
      BY <1>7 DEF FindPending, RecordedHasChart, Current, Running
    <2>3. run.b.version # 0 => CoreChart = run.b.version
      BY <2>1, <2>2 DEF Fits, Resumable
    <2>4. run'.b = run.b /\ pc' = "observe" /\ UNCHANGED works
      BY <1>7 DEF FindPending, TypeOK, RunType
    <2> QED
      BY <2>3, <2>4 DEF ChartWritten, CoreChart
  <1>8. CASE ListWorks
    <2>1. /\ run'.b = run.b /\ run'.list = works /\ pc = "list" /\ pc' = "work"
          /\ UNCHANGED works
      BY <1>8 DEF ListWorks, TypeOK, RunType, SeenWorks
    <2> QED
      BY <2>1 DEF ChartWritten, CoreChart
  <1>9. ASSUME NEW unread \in SUBSET ManifestWork, Observe(unread) PROVE ChartWritten'
    <2>1. CASE pc' = "finish"
      <3>1. run'.b = run.b /\ pc = "observe" /\ UNCHANGED works
        BY <1>9, <2>1 DEF Observe, Again, TypeOK, RunType
      <3> QED
        BY <2>1, <3>1 DEF ChartWritten, CoreChart
    <2> QED
      BY <1>1, <1>9, <2>1 DEF Observe, Again
  <1>10. CASE FinishUpgrade
    <2>1. CASE pc' = "status" /\ run' = run
      BY <1>10, <2>1 DEF FinishUpgrade, ChartWritten, CoreChart
    <2> QED
      BY <1>1, <1>10, <2>1 DEF FinishUpgrade, Again
  <1>11. CASE Reconcile
    BY <1>1, <1>2, <1>11, ReconcileShape
  <1>12. CASE FindNone \/ Render \/ DeleteStale \/ CreateConfigMap
    BY <1>1, <1>12 DEF FindNone, Render, DeleteStale, CreateConfigMap
  <1>13. ASSUME Again PROVE ChartWritten'
    BY <1>1, <1>13 DEF Again
  <1>14. ASSUME Done PROVE ChartWritten'
    BY <1>1, <1>14 DEF Done
  <1>15. CASE Controller
    <2>1. \A ws \in SUBSET ManifestWork : EnableNotFound(ws) => InstallsSome(ws)
      BY DEF EnableNotFound, EnableStopsAt, InstallsSome, Again
    <2>2. EnableFeatures => InstallsSome(ManifestWork)
      BY DEF EnableFeatures, InstallsSome
    <2>3. ReconcileNoProfile \/ ReconcileBadProfile => ChartWritten'
      BY <1>3, <2>2 DEF ReconcileNoProfile, ReconcileBadProfile, vars, SameSpecs
    <2> QED
      BY <1>4, <1>5, <1>6, <1>7, <1>8, <1>9, <1>10, <1>11, <1>12, <1>13, <1>14, <1>15, <2>1, <2>2,
         <2>3
      DEF Controller, RenderNoValues, FeatureNotFound, RecordPending, ConfigMapUnseen,
          UpdateStatus, StatusUpdate, StatusRejected
  <1>16. CASE Failures
    <2>1. ASSUME NEW h \in HelmRelease, AgentFails(h) PROVE SameSpecs /\ UNCHANGED <<pc, run>>
      BY <2>1, AgentKeepsSpecs DEF AgentFails
    <2> QED
      BY <1>3, <1>13, <1>14, <1>16, <2>1
      DEF Failures, EnableFails, EnableStopsAt, ReadBackFails, StatusUpdate, CallFails, Restart
  <1>17. CASE Informers \/ Spoke \/ Clock \/ Users
    <2>1. UNCHANGED <<pc, run>>
      BY <1>17 DEF Informers, SyncBinding, SyncWorks, SyncConfigMaps, Spoke, AgentApplies,
         FluxReconciles, AgentReports, Clock, Timeout, Users, SetVersion, SetStamp, EditBinding,
         EditValues, EditChart, EditState, EditProfile
    <2> QED
      BY <1>3, <1>4, <1>5, <1>6, <2>1, SpecsShape
  <1> QED
    BY <1>15, <1>16, <1>17 DEF Next

\* What fits some versions fits later ones.
LEMMA FitsLater ==
  ASSUME NEW m, NEW vs \in SUBSET Nat, NEW ws \in SUBSET Nat, NEW chart,
         m.recorded => m.version \in Nat,
         Fits(m, vs, chart), \A w \in ws : \E v \in vs : v <= w
  PROVE  Fits(m, ws, chart)
  BY DEF Fits

\* What fits some versions fits them with the chart of the lowest.
LEMMA FitsLowest ==
  ASSUME NEW m, NEW vs \in SUBSET Nat, NEW chart, NEW new, NEW low \in vs,
         m.recorded => m.version \in Nat,
         Fits(m, vs, chart), \A v \in vs : low <= v, low # 0 => new = low
  PROVE  Fits(m, vs, new)
  BY DEF Fits

\* The versions that matter never go back.
LEMMA CurrentLater ==
  ASSUME TypeOK, TypeOK', Forward, Behind, Next
  PROVE  /\ Current \in SUBSET Nat /\ Current' \in SUBSET Nat
         /\ \A w \in Current' : \E v \in Current : v <= w
  <1>1. /\ SeenBinding.version \in Nat /\ run.b.version \in Nat
        /\ binding.version \in Nat /\ binding'.version \in Nat
        /\ SeenBinding'.version \in Nat /\ run'.b.version \in Nat
    <2>1. binding \in Binding /\ binding' \in Binding /\ run.b \in Binding /\ run'.b \in Binding
      BY DEF TypeOK, RunType
    <2>2. SeenBinding \in Binding /\ SeenBinding' \in Binding
      BY <2>1 DEF SeenBinding, TypeOK
    <2> QED
      BY <2>1, <2>2, BindingNumbers
  <1>2. Current \in SUBSET Nat /\ Current' \in SUBSET Nat
    BY <1>1 DEF Current
  <1>3. /\ SeenBinding.version <= SeenBinding'.version
        /\ Running' => \/ Running /\ run'.b = run.b
                       \/ run'.b = SeenBinding
    <2> USE DEF SeenBinding, Running
    <2>1. CASE Reconcile
      BY <1>1, <2>1, ReconcileShape
    <2>2. CASE ReconcileNoProfile
      BY <1>1, <2>2 DEF ReconcileNoProfile, hub, others
    <2>3. ASSUME NEW o, StatusUpdate(o)
          PROVE  SeenBinding.version <= SeenBinding'.version /\ ~Running'
      BY <1>1, <2>3, StatusShape
    <2>4. CASE Advances \/ Retries
      BY <1>1, <2>4 DEF Advances, Retries, Again
    <2>5. CASE Unnoticed
      BY <1>1, <2>5 DEF Unnoticed
    <2>6. CASE Restart
      BY <1>1, <2>6 DEF Restart, Again, hub, Behind
    <2>7. CASE SyncBinding
      <3>1. UNCHANGED <<pc, run, binding>> /\ SeenBinding' = binding
        BY <2>7 DEF SyncBinding, hub, TypeOK
      <3> QED
        BY <1>1, <3>1 DEF Behind
    <2>8. CASE RaisesBinding
      BY <1>1, <2>8 DEF RaisesBinding
    <2>9. ASSUME NEW p, EditProfile(p)
          PROVE  UNCHANGED <<pc, run, binding, cache>>
      BY <2>9 DEF EditProfile
    <2> QED
      BY <1>1, <2>1, <2>2, <2>3, <2>4, <2>5, <2>6, <2>7, <2>8, <2>9, NextShape
      DEF UpdateStatus, ReadBackFails
  <1> QED
    BY <1>1, <1>2, <1>3 DEF Current

\* Versions of ConfigMaps are numbers.
LEMMA MapNumbers ==
  ASSUME TypeOK, NEW n \in ConfigMapName
  PROVE  cms[n].version \in Nat /\ SeenConfigMaps[n].version \in Nat
  <1>1. cms[n] \in ConfigMap /\ SeenConfigMaps[n] \in ConfigMap
    BY SeenType DEF TypeOK
  <1>2. cms[n].version \in Version \cup {0} /\ SeenConfigMaps[n].version \in Version \cup {0}
    BY <1>1 DEF ConfigMap
  <1>3. \A v \in Version \cup {0} : v \in Nat
    BY VersionAssumption
  <1> QED
    BY <1>2, <1>3, Zenon

\* A step that writes opscenter-core writes the chart of the current version.
LEMMA ChartSteps ==
  ASSUME TypeOK, "work" \notin Lagging, Branched, ChartWritten, Next
  PROVE  \/ CoreChart' = CoreChart
         \/ /\ Running /\ (run.b.version # 0 => CoreChart' = run.b.version)
            /\ UNCHANGED <<cms, cache>>
  <1> USE DEF hub, others
  <1>1. CASE SameSpecs
    BY <1>1, ReleaseAssumption DEF SameSpecs, CoreChart
  <1>2. CASE PatchCore
    BY <1>2, PatchCoreChart DEF PatchCore, Running
  <1>3. ASSUME NEW w \in ManifestWork, PatchWork(w)
        PROVE  /\ Running /\ (run.b.version # 0 => CoreChart' = run.b.version)
               /\ UNCHANGED <<cms, cache>>
    <2>1. pc = "work"
      BY <1>3 DEF PatchWork
    <2> QED
      BY <1>3, <2>1, PatchWorkChart DEF ChartWritten, Running
  <1>4. ASSUME NEW ws \in SUBSET ManifestWork, InstallsSome(ws), CoreChart' # CoreChart
        PROVE  /\ Running /\ (run.b.version # 0 => CoreChart' = run.b.version)
               /\ UNCHANGED <<cms, cache>>
    <2>1. CoreChart' = run.p.version
      BY <1>4, InstallsChart
    <2>2. ShouldEnableFeatures(run.b, run.p) /\ Running
      BY <1>4 DEF InstallsSome, Branched, Running
    <2> QED
      BY <1>4, <2>1, <2>2 DEF ShouldEnableFeatures, InstallsSome
  <1> QED
    BY <1>1, <1>2, <1>3, <1>4, SpecsShape

\* Recorded runs keep fitting.
LEMMA RecordedStep ==
  ASSUME TypeOK, TypeOK', HasName, "work" \notin Lagging, Forward, Behind, Branched, OwnVersion,
         ChartWritten, RecordedHasChart, Next
  PROVE  RecordedHasChart'
  <1>1. /\ Current \in SUBSET Nat /\ Current' \in SUBSET Nat
        /\ \A w \in Current' : \E v \in Current : v <= w
    BY CurrentLater
  <1>2. Running => run.b.version \in Current /\ \A v \in Current : run.b.version <= v
    <2>1. run.b.version \in Nat
      BY BindingNumbers DEF TypeOK, RunType
    <2> QED
      BY <2>1 DEF Current, Behind, Running
  <1>3. ASSUME NEW n \in ConfigMapName
        PROVE  Fits(cms[n], Current', CoreChart') /\ Fits(SeenConfigMaps[n], Current', CoreChart')
    <2>1. cms[n].version \in Nat /\ SeenConfigMaps[n].version \in Nat
      BY MapNumbers
    <2>2. Fits(cms[n], Current, CoreChart) /\ Fits(SeenConfigMaps[n], Current, CoreChart)
      BY DEF RecordedHasChart
    <2>3. Fits(cms[n], Current, CoreChart') /\ Fits(SeenConfigMaps[n], Current, CoreChart')
      <3>1. CASE CoreChart' = CoreChart
        BY <2>2, <3>1
      <3>2. CASE Running /\ (run.b.version # 0 => CoreChart' = run.b.version)
        BY <1>1, <1>2, <2>1, <2>2, <3>2, FitsLowest
      <3> QED
        BY <3>1, <3>2, ChartSteps
    <2> QED
      BY <1>1, <2>1, <2>3, FitsLater
  <1>4. ASSUME \A n \in ConfigMapName : Left(cms'[n], cms[n]) \/ ~cms'[n].recorded,
               UNCHANGED cache.cms
        PROVE  RecordedHasChart'
    <2>1. \A n \in ConfigMapName : Fits(cms'[n], Current', CoreChart')
      BY <1>3, <1>4 DEF Fits, Left
    <2>2. \A n \in ConfigMapName : Fits(SeenConfigMaps'[n], Current', CoreChart')
      BY <1>3, <1>4, <2>1 DEF SeenConfigMaps
    <2> QED
      BY <2>1, <2>2 DEF RecordedHasChart
  <1>5. CASE KeepsMaps
    BY <1>4, <1>5 DEF KeepsMaps
  <1>6. CASE SeesMaps
    BY <1>3, <1>6 DEF SeesMaps, RecordedHasChart, SeenConfigMaps
  <1>7. CASE CreateConfigMap
    <2>1. PICK n \in ConfigMapName :
             /\ cms' = [cms EXCEPT ![n] = NewConfigMap(run.b.version)]
             /\ UNCHANGED cache
      BY <1>7, CreatedShape
    <2>2. \A m \in ConfigMapName : cms'[m] = IF m = n THEN NewConfigMap(run.b.version) ELSE cms[m]
      BY <2>1 DEF TypeOK
    <2>3. ~NewConfigMap(run.b.version).recorded
      BY DEF NewConfigMap, NoConfigMap
    <2> QED
      BY <1>4, <2>1, <2>2, <2>3 DEF Left
  <1>8. CASE WritesMap
    <2>1. PICK mod \in ConfigMap :
             /\ mod.version = run.b.version
             /\ cms' = [cms EXCEPT ![run.id] = Written(run.id, mod)]
      BY <1>8 DEF WritesMap
    <2> DEFINE new == Written(run.id, mod)
    <2>2. pc \in Holding /\ pc \in {"work", "observe", "finish"} /\ Running
      BY <1>8 DEF WritesMap, Holding, Running
    <2>3. new.version = run.b.version
      BY <2>1, <2>2, WrittenVersion
    <2>4. \A n \in ConfigMapName : cms'[n] = IF n = run.id THEN new ELSE cms[n]
      BY <2>1 DEF TypeOK
    <2>5. run.b.version # 0 => CoreChart' = run.b.version
      BY <1>8, <2>2 DEF WritesMap, ChartWritten, CoreChart
    <2> HIDE DEF new
    <2>6. run.b.version \in Nat
      BY <1>1, <1>2, <2>2
    <2>7. Fits(new, Current, CoreChart')
      BY <1>2, <2>2, <2>3, <2>5 DEF Fits
    <2>8. Fits(new, Current', CoreChart')
      BY <1>1, <2>3, <2>6, <2>7, FitsLater
    <2>9. \A n \in ConfigMapName : Fits(cms'[n], Current', CoreChart')
      BY <1>3, <2>4, <2>8
    <2>10. \A n \in ConfigMapName : Fits(SeenConfigMaps'[n], Current', CoreChart')
      BY <1>3, <1>8, <2>9 DEF SeenConfigMaps, WritesMap
    <2> QED
      BY <2>9, <2>10 DEF RecordedHasChart
  <1> QED
    BY <1>5, <1>6, <1>7, <1>8, MapsShape
--------------------------------------------------------------------------------
(***************************************************************************)
(* The inductive invariant and its consequences.                           *)
(***************************************************************************)

\* In the initial state nothing runs and nothing is recorded, and the
\* binding's version, if any, is the installed one.
LEMMA StrandInit == Init => StrandInv
  <1> SUFFICES ASSUME Init PROVE StrandInv
    OBVIOUS
  <1>1. pc = "idle" /\ queued = TRUE /\ SeenBinding = binding /\ run = NoRun
    BY DEF Init, SeenBinding
  <1>2. \A n \in ConfigMapName : cms[n] = NoConfigMap /\ SeenConfigMaps[n] = NoConfigMap
    BY DEF Init, SeenConfigMaps
  <1>3. binding.version \in Nat /\ binding.stamp \in Nat
    BY TypeInit, BindingNumbers DEF TypeOK
  <1>4. Behind
    BY <1>1, <1>3 DEF Behind, Running
  <1>5. Branched /\ OwnVersion /\ ChartWritten
    BY <1>1 DEF Branched, Running, OwnVersion, Holding, ChartWritten
  <1>6. RecordedHasChart /\ OneVersion
    <2>1. ~NoConfigMap.recorded
      BY DEF NoConfigMap
    <2> QED
      BY <1>2, <2>1 DEF RecordedHasChart, OneVersion, Fits
  <1>7. Unstranded
    BY <1>1 DEF Unstranded, Quiet
  <1> QED
    BY <1>4, <1>5, <1>6, <1>7 DEF StrandInv

\* Every step keeps the invariant.
LEMMA StrandStep ==
  ASSUME Forward, "work" \notin Lagging
  PROVE  Typed /\ Typed' /\ StrandInv /\ [Next]_vars => StrandInv'
  <1> SUFFICES ASSUME Typed, Typed', StrandInv, [Next]_vars PROVE StrandInv'
    OBVIOUS
  <1>1. CASE UNCHANGED vars
    BY <1>1 DEF vars, StrandInv, Behind, Branched, RecordedHasChart, OneVersion, OwnVersion,
       ChartWritten, Unstranded, Quiet, Running, Current, CoreChart, SeenBinding,
       SeenConfigMaps, NeedsUpgrade, ShouldEnableFeatures
  <1>2. CASE Next
    <2>1. Behind' /\ Branched' /\ OneVersion' /\ OwnVersion'
      BY <1>2, BehindStep, BranchedStep, OneVersionStep, OwnVersionStep DEF Typed, StrandInv
    <2>2. ChartWritten' /\ RecordedHasChart'
      BY <1>2, ChartWrittenStep, RecordedStep DEF Typed, StrandInv
    <2>3. Unstranded'
      BY <1>2, UnstrandedStep DEF Typed, StrandInv
    <2> QED
      BY <2>1, <2>2, <2>3 DEF StrandInv
  <1> QED
    BY <1>1, <1>2

\* While users only raise versions and stamps, and ManifestWorks are read up to
\* date, the reconciler falls asleep only on a binding it has served, or after
\* opscenter-core could not be read: whatever else fails, however far the caches
\* of bindings and ConfigMaps lag and whenever the process restarts, also with
\* stamps that are malformed or have a fraction of a second.
THEOREM AsleepCorrect ==
  ASSUME Forward, "work" \notin Lagging
  PROVE  Spec => []AsleepOnlyServed
  <1>1. Init => Typed /\ StrandInv
    BY TypeInit, StrandInit DEF Typed, HasName, Init
  <1>2. StrandInv => AsleepOnlyServed
    BY DEF StrandInv, Unstranded, AsleepOnlyServed, Served
  <1> QED
    BY <1>1, <1>2, StrandStep, TypedStep, PTL DEF Spec

\* If moreover reading opscenter-core back does not fail and stamps are whole
\* seconds, no wanted version and no force-upgrade is ever forgotten.
THEOREM NeverStrandedCorrect ==
  ASSUME Forward, "work" \notin Lagging, \A t \in Stamp \ BadStamp : Whole(t) = t,
         "readback" \notin Fault
  PROVE  Spec => []NeverStranded
  <1>1. Init => Typed /\ StrandInv
    BY TypeInit, StrandInit DEF Typed, HasName, Init
  <1>2. Typed /\ StrandInv => NeverStranded
    <2> SUFFICES ASSUME TypeOK, Unstranded, Quiet, profile.state # "gone", NeedsUpgrade(binding)
                 PROVE  FALSE
      BY DEF Typed, StrandInv, NeverStranded
    <2>1. binding.stamp \in Stamp \cup {0}
      BY DEF TypeOK, Binding
    <2> QED
      BY <2>1 DEF Unstranded, NeedsUpgrade
  <1> QED
    BY <1>1, <1>2, StrandStep, TypedStep, PTL DEF Spec
--------------------------------------------------------------------------------
(***************************************************************************)
(* The status tells the truth, also when users change their minds: only    *)
(* the steps of a running reconcile write opscenter-core, and a reconcile  *)
(* that does not end with a status update is tried again.                  *)
(***************************************************************************)

\* With no reconcile running or due, the status has the chart read back, or
\* nothing.
Told ==
    ~Running /\ ~queued /\ profile.state # "gone" => binding.observed \in {CoreChart, 0}

\* An edit of the binding leaves its status alone.
LEMMA UsersKeepStatus ==
  ASSUME TypeOK, Users
  PROVE  \/ /\ binding'.observed = binding.observed
            /\ queued => queued'
            /\ UNCHANGED <<profile, pc>>
         \/ queued'
  <1>1. ASSUME NEW b \in Binding, b.observed = binding.observed, EditBinding(b)
        PROVE  /\ binding'.observed = binding.observed
               /\ queued => queued'
               /\ UNCHANGED <<profile, pc>>
    BY <1>1 DEF EditBinding, Notified
  <1>2. ASSUME NEW v \in Version, NEW vals \in BOOLEAN
        PROVE  /\ [binding EXCEPT !.version = v, !.values = @ \/ vals] \in Binding
               /\ [binding EXCEPT !.version = v, !.values = @ \/ vals].observed = binding.observed
    BY <1>2 DEF TypeOK, Binding
  <1>3. ASSUME NEW t \in Stamp
        PROVE  /\ [binding EXCEPT !.stamp = t] \in Binding
               /\ [binding EXCEPT !.stamp = t].observed = binding.observed
    BY <1>3 DEF TypeOK, Binding
  <1>4. \A v \in Version, vals \in BOOLEAN :
           SetVersion(v, vals) => EditBinding([binding EXCEPT !.version = v, !.values = @ \/ vals])
    BY DEF SetVersion
  <1>5. \A t \in Stamp : SetStamp(t) => EditBinding([binding EXCEPT !.stamp = t])
    BY DEF SetStamp
  <1>6. ASSUME NEW p, EditProfile(p) PROVE queued'
    BY <1>6 DEF EditProfile
  <1> QED
    BY <1>1, <1>2, <1>3, <1>4, <1>5, <1>6 DEF Users, EditValues, EditChart, EditState

\* opscenter-core is written while a reconcile runs.
LEMMA IdleKeepsChart ==
  ASSUME TypeOK, ~Running, Next
  PROVE  CoreChart' = CoreChart
  BY SpecsShape, ReleaseAssumption
  DEF SameSpecs, CoreChart, Running, PatchCore, PatchWork, InstallsSome

\* Every step keeps it so.
LEMMA ToldStep ==
  ASSUME "work" \notin Lagging, TypeOK, Told, Next
  PROVE  Told'
  <1> SUFFICES ASSUME ~Running', ~queued', profile'.state # "gone"
               PROVE  binding'.observed \in {CoreChart', 0}
    BY DEF Told
  <1>1. ASSUME ~Running, ~queued, profile.state # "gone", binding'.observed = binding.observed
        PROVE  binding'.observed \in {CoreChart', 0}
    BY <1>1, IdleKeepsChart DEF Told
  <1>2. CASE Reconcile
    BY <1>2, ReconcileShape DEF Running
  <1>3. CASE ReconcileNoProfile
    BY <1>3 DEF ReconcileNoProfile, hub
  <1>4. CASE UpdateStatus
    BY <1>4, StatusShape DEF UpdateStatus, SeenWorks, CoreChart
  <1>5. CASE ReadBackFails
    BY <1>5, StatusShape DEF ReadBackFails
  <1>6. CASE Advances \/ Retries \/ Restart \/ SyncBinding
    BY <1>6 DEF Advances, Retries, Restart, Again, SyncBinding, Running
  <1>7. CASE Unnoticed
    BY <1>1, <1>7 DEF Unnoticed, Running
  <1>8. CASE Users
    BY <1>1, <1>8, UsersKeepStatus DEF Running
  <1> QED
    BY <1>2, <1>3, <1>4, <1>5, <1>6, <1>7, <1>8, StepShape

\* However users change the binding and the profile, back and forth, and
\* whatever fails, a reconciler asleep has reported the version that
\* opscenter-core deploys, or that it could not be read; only ManifestWorks have
\* to be read as they are on the server.
THEOREM StatusCorrect ==
  ASSUME "work" \notin Lagging
  PROVE  Spec => []StatusIsTrue
  <1>1. Init => Typed /\ Told
    BY TypeInit DEF Typed, HasName, Init, Told
  <1>2. Typed /\ Told /\ [Next]_vars => Told'
    <2> SUFFICES ASSUME Typed, Told, [Next]_vars PROVE Told'
      OBVIOUS
    <2>1. CASE UNCHANGED vars
      BY <2>1 DEF vars, Told, Running, CoreChart
    <2> QED
      BY <2>1, ToldStep DEF Typed
  <1>3. Told => StatusIsTrue
    BY DEF Told, StatusIsTrue, Quiet, Running, CoreChart
  <1> QED
    BY <1>1, <1>2, <1>3, TypedStep, PTL DEF Spec
--------------------------------------------------------------------------------
(***************************************************************************)
(* No run stays pending for a wish that is served.  The caches of bindings *)
(* and ConfigMaps must be up to date; that of ManifestWorks need not.  The *)
(* argument: a run open for the binding's version means that its wish is   *)
(* open too, and a status update that clears a wish comes from a reconcile *)
(* that closed the run, or that saw none.                                  *)
(***************************************************************************)

\* The binding asks for something, if only with a malformed stamp.
Wish(b) == NeedsUpgrade(b) \/ b.stamp \in BadStamp

\* The UI reads n as a run for version v that goes on.
Open(n, v) == cms[n].status = "pending" /\ cms[n].version = v

\* The steps of an upgrade are taken by reconciles that upgrade.
OnlyUpgrades == pc \in {"find", "render", "sweep", "create"} \cup Holding => run.up

\* The status does not change under a reconcile, and its stamp is no later than
\* the binding's.
StatusKept ==
    /\ binding.lastAt <= binding.stamp
    /\ Running => /\ run.b.stamp <= binding.stamp
                  /\ run.b.lastAt <= run.b.stamp
                  /\ binding.observed = run.b.observed /\ binding.lastAt = run.b.lastAt

\* No ConfigMap is for a later version than the binding, or than the reconcile.
NoneLater ==
    \A n \in ConfigMapName : Present(cms[n]) =>
        /\ cms[n].version <= binding.version
        /\ Running => cms[n].version <= run.b.version

\* A run open for the binding's version is wanted.
OpenIsWanted == \A n \in ConfigMapName : Open(n, binding.version) => Wish(binding)

\* A reconcile that does not upgrade goes past an open run only for a malformed
\* stamp, and will not get to update the status.
OpenIsSeen ==
    Running /\ ~run.up =>
        \A n \in ConfigMapName : Open(n, run.b.version) => run.b.stamp \in BadStamp

\* An upgrade that gets to the status update has closed its run.
NoneOpen == pc = "status" /\ run.up => \A n \in ConfigMapName : cms[n].status # "pending"

\* The reconciler does not sleep on an open run.
Awake ==
    ~Running /\ ~queued /\ profile.state # "gone" =>
        \A n \in ConfigMapName : ~Open(n, binding.version)

PendingInv ==
    /\ OneInv /\ Behind /\ Branched /\ OneVersion /\ OwnVersion
    /\ OnlyUpgrades /\ StatusKept /\ NoneLater /\ OpenIsWanted /\ OpenIsSeen /\ NoneOpen /\ Awake

\* Only reconciles that upgrade reach the upgrade's steps.
LEMMA OnlyUpgradesStep ==
  ASSUME TypeOK, Branched, OnlyUpgrades, Next
  PROVE  OnlyUpgrades'
  <1> USE DEF OnlyUpgrades, Holding, hub, others
  <1>1. ASSUME pc' \in {"idle", "enable", "status"} PROVE OnlyUpgrades'
    BY <1>1
  <1>2. ASSUME pc \in {"find", "render", "sweep", "create"} \cup Holding, run'.up = run.up
        PROVE  OnlyUpgrades'
    BY <1>2
  <1>3. ASSUME UNCHANGED <<pc, run>> PROVE OnlyUpgrades'
    BY <1>3
  <1>4. CASE Reconcile
    BY <1>4, ReconcileShape
  <1>5. CASE FindPending
    BY <1>2, <1>5 DEF FindPending, TypeOK, RunType
  <1>6. CASE FindNone \/ DeleteStale
    BY <1>2, <1>6 DEF FindNone, DeleteStale
  <1>7. CASE Render \/ PatchCore \/ ListWorks
    BY <1>2, <1>7 DEF Render, PatchCore, ListWorks, TypeOK, RunType
  <1>8. CASE CreateConfigMap
    BY <1>2, <1>8 DEF CreateConfigMap, TypeOK, RunType
  <1>9. ASSUME NEW w \in ManifestWork, PatchWork(w) PROVE OnlyUpgrades'
    BY <1>2, <1>9 DEF PatchWork, TypeOK, RunType
  <1>10. ASSUME NEW unread \in SUBSET ManifestWork, Observe(unread) PROVE OnlyUpgrades'
    BY <1>1, <1>2, <1>10 DEF Observe, Again, TypeOK, RunType
  <1>11. CASE Controller
    BY <1>1, <1>3, <1>4, <1>5, <1>6, <1>7, <1>8, <1>9, <1>10, <1>11
    DEF Controller, ReconcileNoProfile, ReconcileBadProfile, vars, RenderNoValues,
        FeatureNotFound, RecordPending, ConfigMapUnseen, FinishUpgrade, EnableFeatures,
        EnableNotFound, EnableStopsAt, UpdateStatus, StatusUpdate, Done, StatusRejected, Again
  <1>12. CASE Failures
    BY <1>1, <1>3, <1>12 DEF Failures, EnableFails, EnableStopsAt, ReadBackFails, StatusUpdate,
       Done, CallFails, Restart, AgentFails, Again
  <1>13. CASE Informers \/ Spoke \/ Clock \/ Users
    BY <1>3, <1>13 DEF Informers, SyncBinding, SyncWorks, SyncConfigMaps, Spoke, AgentApplies,
       FluxReconciles, AgentReports, Clock, Timeout, Users, SetVersion, SetStamp, EditBinding,
       EditValues, EditChart, EditState, EditProfile
  <1> QED
    BY <1>11, <1>12, <1>13 DEF Next

\* Dropping the half second does not make a stamp later.
LEMMA WholeBelow == ASSUME NEW t \in Nat PROVE Whole(t) <= t
  BY DEF Whole

\* The numbers in a binding.
LEMMA Numbers ==
  ASSUME TypeOK
  PROVE  /\ binding.version \in Nat /\ binding.stamp \in Nat /\ binding.lastAt \in Nat
         /\ run.b.version \in Nat /\ run.b.stamp \in Nat /\ run.b.lastAt \in Nat
         /\ queued \in BOOLEAN /\ run.up \in BOOLEAN
         /\ \A n \in ConfigMapName : cms[n].version \in Nat
  <1>1. binding \in Binding /\ run.b \in Binding /\ queued \in BOOLEAN /\ run.up \in BOOLEAN
    BY DEF TypeOK, RunType
  <1>2. binding.lastAt \in Nat /\ run.b.lastAt \in Nat
    BY <1>1 DEF Binding
  <1> QED
    BY <1>1, <1>2, BindingNumbers, MapNumbers

\* What a reconcile and its binding agree on is kept.
LEMMA StatusKeptStep ==
  ASSUME TypeOK, TypeOK', Forward, "binding" \notin Lagging, StatusKept, Next
  PROVE  StatusKept'
  <1>1. /\ binding.stamp \in Nat /\ binding.lastAt \in Nat
        /\ run.b.stamp \in Nat /\ run.b.lastAt \in Nat
        /\ binding'.stamp \in Nat /\ binding'.lastAt \in Nat
    <2>1. binding' \in Binding
      BY DEF TypeOK
    <2>2. binding'.lastAt \in Nat
      BY <2>1 DEF Binding
    <2> QED
      BY <2>1, <2>2, Numbers, BindingNumbers
  <1> USE DEF StatusKept, Running
  <1>2. CASE Reconcile
    BY <1>1, <1>2, ReconcileShape DEF SeenBinding
  <1>3. CASE ReconcileNoProfile
    BY <1>3 DEF ReconcileNoProfile, hub
  <1>4. ASSUME NEW o, StatusUpdate(o) PROVE StatusKept'
    <2>1. pc = "status" /\ pc' = "idle" /\ binding'.stamp = binding.stamp
      BY <1>4, StatusShape
    <2>2. binding'.lastAt \in {binding.lastAt, Whole(run.b.stamp)}
      BY <1>4, StatusShape
    <2>3. Whole(run.b.stamp) \in Nat /\ Whole(run.b.stamp) <= run.b.stamp
      BY <1>1, WholeType, WholeBelow
    <2>4. Whole(run.b.stamp) <= binding.stamp
      BY <1>1, <2>1, <2>3
    <2> QED
      BY <1>1, <2>1, <2>2, <2>4
  <1>5. CASE Advances
    BY <1>5 DEF Advances
  <1>6. CASE Retries \/ Restart
    BY <1>6 DEF Retries, Restart, Again, hub
  <1>7. CASE Unnoticed
    BY <1>7 DEF Unnoticed
  <1>8. CASE SyncBinding
    BY <1>8 DEF SyncBinding
  <1>9. CASE RaisesBinding
    <2>1. /\ binding.stamp <= binding'.stamp /\ UNCHANGED <<pc, run>>
          /\ binding'.observed = binding.observed /\ binding'.lastAt = binding.lastAt
      BY <1>1, <1>9 DEF RaisesBinding
    <2> QED
      BY <1>1, <2>1
  <1>10. ASSUME NEW p, EditProfile(p) PROVE StatusKept'
    BY <1>10 DEF EditProfile
  <1> QED
    BY <1>2, <1>3, <1>4, <1>5, <1>6, <1>7, <1>8, <1>9, <1>10, NextShape
    DEF UpdateStatus, ReadBackFails

\* A ConfigMap after a step was there before, or the running upgrade wrote it.
LEMMA PendingShape ==
  ASSUME TypeOK, HasName, OwnVersion, OnlyUpgrades, Next, NEW n \in ConfigMapName, Present(cms'[n])
  PROVE  \/ cms'[n].status = cms[n].status /\ cms'[n].version = cms[n].version
         \/ /\ Running /\ run.up /\ pc # "status"
            /\ UNCHANGED binding
            /\ cms'[n].version = run.b.version
  <1>1. CASE KeepsMaps
    BY <1>1 DEF KeepsMaps, Left
  <1>2. CASE SeesMaps
    BY <1>2 DEF SeesMaps
  <1>3. CASE CreateConfigMap
    <2>1. PICK m \in ConfigMapName :
             /\ cms' = [cms EXCEPT ![m] = NewConfigMap(run.b.version)]
             /\ pc = "create" /\ UNCHANGED binding
      BY <1>3, CreatedShape
    <2>2. cms'[n] = IF n = m THEN NewConfigMap(run.b.version) ELSE cms[n]
      BY <2>1 DEF TypeOK
    <2>3. NewConfigMap(run.b.version).version = run.b.version
      BY DEF NewConfigMap, NoConfigMap
    <2> QED
      BY <2>1, <2>2, <2>3 DEF OnlyUpgrades, Running
  <1>4. CASE WritesMap
    <2>1. PICK mod \in ConfigMap :
             /\ mod.version = run.b.version
             /\ cms' = [cms EXCEPT ![run.id] = Written(run.id, mod)]
      BY <1>4 DEF WritesMap
    <2>2. pc \in {"work", "observe", "finish"} /\ pc \in Holding /\ UNCHANGED binding
      BY <1>4 DEF WritesMap, Holding
    <2>3. Written(run.id, mod).version = run.b.version
      BY <2>1, <2>2, WrittenVersion
    <2>4. cms'[n] = IF n = run.id THEN Written(run.id, mod) ELSE cms[n]
      BY <2>1 DEF TypeOK
    <2> QED
      BY <2>2, <2>3, <2>4 DEF OnlyUpgrades, Running
  <1> QED
    BY <1>1, <1>2, <1>3, <1>4, MapsShape

\* No ConfigMap gets ahead of the binding or of the reconcile.
LEMMA NoneLaterStep ==
  ASSUME TypeOK, TypeOK', HasName, Forward, "binding" \notin Lagging, Behind, OwnVersion,
         OnlyUpgrades, NoneLater, Next
  PROVE  NoneLater'
  <1> SUFFICES ASSUME NEW n \in ConfigMapName, Present(cms'[n])
               PROVE  /\ cms'[n].version <= binding'.version
                      /\ Running' => cms'[n].version <= run'.b.version
    BY DEF NoneLater
  <1>1. /\ binding.version \in Nat /\ run.b.version \in Nat /\ cms[n].version \in Nat
        /\ binding'.version \in Nat
    BY Numbers, BindingNumbers DEF TypeOK
  <1>2. Running => run.b.version <= binding.version
    BY DEF Behind, SeenBinding
  <1>3. /\ cms'[n].version <= binding.version
        /\ Running => cms'[n].version <= run.b.version
    BY <1>1, <1>2, PendingShape DEF NoneLater, Present
  <1>4. cms'[n].version \in Nat
    BY <1>1, PendingShape
  <1>5. /\ binding.version <= binding'.version
        /\ Running' => (run'.b = run.b /\ Running) \/ run'.b = binding
    <2> USE DEF Running
    <2>1. CASE Reconcile
      BY <1>1, <2>1, ReconcileShape DEF SeenBinding
    <2>2. CASE ReconcileNoProfile
      BY <1>1, <2>2 DEF ReconcileNoProfile, hub
    <2>3. ASSUME NEW o, StatusUpdate(o) PROVE binding.version <= binding'.version /\ ~Running'
      BY <1>1, <2>3, StatusShape
    <2>4. CASE Advances \/ Retries \/ Restart
      BY <1>1, <2>4 DEF Advances, Retries, Restart, Again, hub
    <2>5. CASE Unnoticed \/ SyncBinding
      BY <1>1, <2>5 DEF Unnoticed, SyncBinding, hub
    <2>6. CASE RaisesBinding
      BY <1>1, <2>6 DEF RaisesBinding
    <2>7. ASSUME NEW p, EditProfile(p) PROVE UNCHANGED <<binding, pc, run>>
      BY <2>7 DEF EditProfile
    <2> QED
      BY <1>1, <2>1, <2>2, <2>3, <2>4, <2>5, <2>6, <2>7, NextShape
      DEF UpdateStatus, ReadBackFails
  <1> QED
    BY <1>1, <1>3, <1>4, <1>5

\* What the binding a reconcile read asks for, a later one with that version and
\* that status asks for too.
LEMMA WishLater ==
  ASSUME NEW b, NEW c, NeedsUpgrade(b),
         b.stamp \in Nat, c.stamp \in Nat, b.lastAt \in Nat, b.lastAt <= b.stamp,
         c.version = b.version, c.observed = b.observed, c.lastAt = b.lastAt, b.stamp <= c.stamp
  PROVE  Wish(c)
  <1>1. CASE b.version # 0 /\ b.version # b.observed
    BY <1>1 DEF Wish, NeedsUpgrade
  <1>2. CASE b.stamp # 0 /\ b.stamp \notin BadStamp /\ b.lastAt # b.stamp
    <2>1. c.stamp # 0 /\ c.lastAt # c.stamp
      BY <1>2
    <2> QED
      BY <2>1 DEF Wish, NeedsUpgrade
  <1> QED
    BY <1>1, <1>2 DEF NeedsUpgrade

\* No status update takes the wish from an open run.
LEMMA OpenIsWantedStep ==
  ASSUME TypeOK, TypeOK', HasName, Forward, "binding" \notin Lagging, Behind, Branched, OwnVersion,
         OnlyUpgrades, StatusKept, NoneLater, OpenIsWanted, OpenIsSeen, NoneOpen, Next
  PROVE  OpenIsWanted'
  <1> SUFFICES ASSUME NEW n \in ConfigMapName, Open(n, binding.version)'
               PROVE  Wish(binding')
    BY DEF OpenIsWanted, Wish, NeedsUpgrade
  <1>1. /\ binding.version \in Nat /\ binding.stamp \in Nat /\ binding.lastAt \in Nat
        /\ run.b.version \in Nat /\ run.b.stamp \in Nat /\ run.b.lastAt \in Nat
        /\ binding'.version \in Nat /\ binding'.stamp \in Nat
        /\ queued \in BOOLEAN /\ run.up \in BOOLEAN
    BY Numbers, BindingNumbers DEF TypeOK
  <1>2. Present(cms'[n]) /\ cms'[n].status = "pending" /\ cms'[n].version = binding'.version
    BY DEF Open, Present
  <1>3. CASE binding' = binding
    <2>1. CASE cms'[n].status = cms[n].status /\ cms'[n].version = cms[n].version
      BY <1>2, <1>3, <2>1 DEF OpenIsWanted, Open
    <2>2. CASE Running /\ run.up /\ cms'[n].version = run.b.version
      <3>1. NeedsUpgrade(run.b) /\ binding.version = run.b.version
        BY <1>2, <1>3, <2>2 DEF Branched
      <3>2. /\ run.b.stamp <= binding.stamp /\ run.b.lastAt <= run.b.stamp
            /\ binding.observed = run.b.observed /\ binding.lastAt = run.b.lastAt
        BY <2>2 DEF StatusKept
      <3> QED
        BY <1>1, <1>3, <3>1, <3>2, WishLater
    <2> QED
      BY <1>2, <2>1, <2>2, PendingShape
  <1>4. ASSUME NEW o, StatusUpdate(o) PROVE FALSE
    <2>1. /\ pc = "status" /\ Running /\ UNCHANGED cms /\ binding'.version = binding.version
          /\ run.b.stamp \notin BadStamp
      BY <1>4, StatusShape DEF Running
    <2>2. ~run.up
      BY <1>2, <2>1 DEF NoneOpen
    <2>3. cms[n].version <= run.b.version /\ run.b.version <= binding.version
      BY <1>2, <2>1 DEF NoneLater, Behind, SeenBinding
    <2>4. cms[n].version = run.b.version
      BY <1>1, <1>2, <2>1, <2>3
    <2> QED
      BY <1>2, <2>1, <2>2, <2>4 DEF OpenIsSeen, Open
  <1>5. CASE RaisesBinding
    <2>1. /\ binding'.version >= binding.version /\ binding'.stamp >= binding.stamp
          /\ binding'.version > binding.version \/ binding'.stamp > binding.stamp
          /\ binding'.lastAt = binding.lastAt /\ UNCHANGED cms
      BY <1>5 DEF RaisesBinding
    <2>2. cms[n].version <= binding.version
      BY <1>2, <2>1 DEF NoneLater
    <2>3. binding'.stamp > binding.stamp /\ binding.lastAt <= binding.stamp
      BY <1>1, <1>2, <2>1, <2>2 DEF StatusKept
    <2>4. binding'.stamp # 0 /\ binding'.lastAt # binding'.stamp
      BY <1>1, <2>1, <2>3
    <2> QED
      BY <2>4 DEF Wish, NeedsUpgrade
  <1> QED
    BY <1>3, <1>4, <1>5, NextShape, ReconcileShape
    DEF ReconcileNoProfile, UpdateStatus, ReadBackFails, Advances, Retries, Unnoticed, Restart,
        SyncBinding, EditProfile, hub

\* A reconcile that does not upgrade meets no open run it should have resumed.
LEMMA OpenIsSeenStep ==
  ASSUME TypeOK, HasName, Forward, "binding" \notin Lagging, OwnVersion,
         OnlyUpgrades, OpenIsWanted, OpenIsSeen, Next
  PROVE  OpenIsSeen'
  <1> SUFFICES ASSUME Running', ~run'.up, NEW n \in ConfigMapName, Open(n, run.b.version)'
               PROVE  run'.b.stamp \in BadStamp
    BY DEF OpenIsSeen
  <1>1. Present(cms'[n]) /\ cms'[n].status = "pending" /\ cms'[n].version = run'.b.version
    BY DEF Open, Present
  <1>2. CASE Reconcile
    <2>1. run'.b = binding /\ ~NeedsUpgrade(binding) /\ UNCHANGED cms
      BY <1>2, ReconcileShape DEF SeenBinding
    <2> QED
      BY <1>1, <2>1 DEF OpenIsWanted, Open, Wish
  <1>3. ASSUME Running, run'.b = run.b, run'.up = run.up PROVE run'.b.stamp \in BadStamp
    <2>1. cms'[n].status = cms[n].status /\ cms'[n].version = cms[n].version
      BY <1>1, <1>3, PendingShape
    <2> QED
      BY <1>1, <1>3, <2>1 DEF OpenIsSeen, Open
  <1>4. ASSUME NEW o, StatusUpdate(o) PROVE FALSE
    BY <1>4, StatusShape DEF Running
  <1>5. CASE Retries \/ Restart
    BY <1>5 DEF Retries, Restart, Again, Running
  <1> QED
    BY <1>2, <1>3, <1>4, <1>5, NextShape
    DEF ReconcileNoProfile, UpdateStatus, ReadBackFails, Advances, Unnoticed, SyncBinding,
        RaisesBinding, EditProfile, Running

\* finishUpgrade closes the run, and there is no other.
LEMMA FinishedCloses ==
  ASSUME TypeOK, HasName, "configmap" \notin Lagging, OneInv, FinishUpgrade
  PROVE  \A n \in ConfigMapName : cms'[n].status # "pending"
  <1>1. pc \in Holding /\ run.id \in ConfigMapName /\ run.cm \in ConfigMap
    BY DEF FinishUpgrade, Holding, HasName, TypeOK, RunType
  <1>2. Finished \in ConfigMap /\ Finished.status = "completed"
    BY <1>1 DEF Finished, ConfigMap
  <1>3. cms' = [cms EXCEPT ![run.id] = Written(run.id, Finished)]
    BY DEF FinishUpgrade
  <1>4. Present(cms[run.id]) /\ cms[run.id] \in ConfigMap
    BY <1>1 DEF OneInv, HoldsConfigMap, TypeOK
  <1>5. Written(run.id, Finished).status = "completed"
    BY <1>2, <1>4 DEF Written, MergePatch, SeenConfigMaps, ConfigMap
  <1>6. \A n \in ConfigMapName : cms'[n] = IF n = run.id THEN Written(run.id, Finished) ELSE cms[n]
    BY <1>3 DEF TypeOK
  <1>7. \A n \in ConfigMapName : n # run.id => ~Present(cms[n])
    BY <1>1, <1>4 DEF OneInv, OneConfigMap
  <1> QED
    BY <1>5, <1>6, <1>7 DEF Present

\* An upgrade's status update finds no open run.
LEMMA NoneOpenStep ==
  ASSUME TypeOK, HasName, "configmap" \notin Lagging, OneInv, Branched, OwnVersion, OnlyUpgrades,
         NoneOpen, Next
  PROVE  NoneOpen'
  <1> USE DEF hub, others
  <1>1. ASSUME pc' # "status" \/ ~run'.up PROVE NoneOpen'
    BY <1>1 DEF NoneOpen
  <1>2. ASSUME UNCHANGED <<pc, run>> PROVE NoneOpen'
    BY <1>2, PendingShape DEF NoneOpen, Present
  <1>3. CASE FinishUpgrade
    BY <1>3, FinishedCloses DEF NoneOpen
  <1>4. CASE Reconcile
    BY <1>1, <1>4, ReconcileShape
  <1>5. CASE EnableFeatures
    BY <1>1, <1>5 DEF EnableFeatures, Branched
  <1>6. CASE Controller
    <2>1. \A unread \in SUBSET ManifestWork : Observe(unread) => pc' # "status"
      BY DEF Observe, Again
    <2>2. \A w \in ManifestWork : PatchWork(w) => pc' # "status"
      BY DEF PatchWork
    <2> QED
      BY <1>1, <1>2, <1>3, <1>4, <1>5, <1>6, <2>1, <2>2
      DEF Controller, ReconcileNoProfile, ReconcileBadProfile, vars, FindPending, FindNone, Render,
          RenderNoValues, DeleteStale, CreateConfigMap, PatchCore, ListWorks, FeatureNotFound,
          RecordPending, ConfigMapUnseen, EnableNotFound, EnableStopsAt, UpdateStatus,
          StatusUpdate, Done, StatusRejected, Again
  <1>7. CASE Failures
    BY <1>1, <1>2, <1>7 DEF Failures, EnableFails, EnableStopsAt, ReadBackFails, StatusUpdate,
       Done, CallFails, Restart, AgentFails, Again
  <1>8. CASE Informers \/ Spoke \/ Clock \/ Users
    BY <1>2, <1>8 DEF Informers, SyncBinding, SyncWorks, SyncConfigMaps, Spoke, AgentApplies,
       FluxReconciles, AgentReports, Clock, Timeout, Users, SetVersion, SetStamp, EditBinding,
       EditValues, EditChart, EditState, EditProfile
  <1> QED
    BY <1>6, <1>7, <1>8 DEF Next

\* No step puts the reconciler to sleep on an open run.
LEMMA AwakeStep ==
  ASSUME TypeOK, HasName, Forward, "binding" \notin Lagging, Behind, OwnVersion,
         OnlyUpgrades, OpenIsSeen, NoneOpen, Awake, Next
  PROVE  Awake'
  <1> SUFFICES ASSUME ~Running', ~queued', profile'.state # "gone",
                      NEW n \in ConfigMapName, Open(n, binding.version)'
               PROVE  FALSE
    BY DEF Awake
  <1>1. Present(cms'[n]) /\ cms'[n].status = "pending" /\ cms'[n].version = binding'.version
    BY DEF Open, Present
  <1>2. CASE Reconcile
    BY <1>2, ReconcileShape DEF Running
  <1>3. CASE ReconcileNoProfile
    BY <1>3 DEF ReconcileNoProfile, hub
  <1>4. ASSUME NEW o, StatusUpdate(o) PROVE FALSE
    <2>1. pc = "status" /\ Running /\ UNCHANGED cms /\ run.b.stamp \notin BadStamp
      BY <1>4, StatusShape DEF Running
    <2>2. binding' = binding /\ ~queued
      BY <1>4, StatusShape, Numbers
    <2>3. run.b = binding
      BY <2>1, <2>2 DEF Behind, SeenBinding
    <2> QED
      BY <1>1, <2>1, <2>2, <2>3 DEF NoneOpen, OpenIsSeen, Open
  <1>5. CASE Advances \/ Retries \/ Restart \/ SyncBinding
    BY <1>5 DEF Advances, Retries, Restart, Again, SyncBinding, Running
  <1>6. CASE Unnoticed
    BY <1>1, <1>6, PendingShape DEF Unnoticed, Running, Awake, Open
  <1>7. CASE RaisesBinding \/ \E p : EditProfile(p)
    BY <1>7 DEF RaisesBinding, EditProfile
  <1> QED
    BY <1>2, <1>3, <1>4, <1>5, <1>6, <1>7, NextShape DEF UpdateStatus, ReadBackFails

\* While users only raise versions and stamps, and bindings and ConfigMaps are
\* read up to date, no run that the UI reads as pending is slept on unless it is
\* for another version than the binding's: whatever fails, however far the cache
\* of ManifestWorks lags and whenever the process restarts.
THEOREM PendingCorrect ==
  ASSUME Forward, "binding" \notin Lagging, "configmap" \notin Lagging
  PROVE  Spec => []PendingIsServed
  <1>1. Init => Typed /\ PendingInv
    <2> SUFFICES ASSUME Init PROVE Typed /\ PendingInv
      OBVIOUS
    <2>1. Typed /\ StrandInv
      BY TypeInit, StrandInit DEF Typed, HasName, Init
    <2>2. pc = "idle" /\ queued = TRUE /\ binding.lastAt = 0 /\ binding.stamp = 0
      BY DEF Init
    <2>3. \A n \in ConfigMapName : cms[n].status = "absent"
      BY DEF Init, NoConfigMap
    <2>4. OneInv
      BY <2>2, <2>3 DEF OneInv, OneConfigMap, SweptClean, HoldsConfigMap, Holding, Present
    <2>5. OnlyUpgrades /\ StatusKept
      BY <2>2 DEF OnlyUpgrades, Holding, StatusKept, Running
    <2>6. NoneLater /\ OpenIsWanted /\ OpenIsSeen /\ NoneOpen /\ Awake
      BY <2>2, <2>3 DEF NoneLater, OpenIsWanted, OpenIsSeen, NoneOpen, Awake, Open, Present, Running
    <2> QED
      BY <2>1, <2>4, <2>5, <2>6 DEF StrandInv, PendingInv
  <1>2. Typed /\ Typed' /\ PendingInv /\ [Next]_vars => PendingInv'
    <2> SUFFICES ASSUME Typed, Typed', PendingInv, [Next]_vars PROVE PendingInv'
      OBVIOUS
    <2>1. CASE UNCHANGED vars
      <3>1. Behind' /\ Branched' /\ OneVersion' /\ OwnVersion' /\ OneInv'
        BY <2>1, OneKept DEF vars, PendingInv, Behind, Branched, OneVersion, OwnVersion, Running,
           SeenBinding, SeenConfigMaps, NeedsUpgrade, ShouldEnableFeatures
      <3> QED
        BY <2>1, <3>1 DEF vars, PendingInv, OnlyUpgrades, StatusKept, NoneLater, OpenIsWanted,
           OpenIsSeen, NoneOpen, Awake, Open, Wish, NeedsUpgrade, Running
    <2>2. CASE Next
      <3>1. Behind' /\ Branched' /\ OneVersion' /\ OwnVersion'
        BY <2>2, BehindStep, BranchedStep, OneVersionStep, OwnVersionStep DEF Typed, PendingInv
      <3>2. OneInv'
        BY <2>2, OneController, OneOthers DEF Next, Typed, PendingInv
      <3>3. OnlyUpgrades' /\ StatusKept' /\ NoneLater'
        BY <2>2, OnlyUpgradesStep, StatusKeptStep, NoneLaterStep DEF Typed, PendingInv
      <3>4. OpenIsWanted' /\ OpenIsSeen'
        BY <2>2, OpenIsWantedStep, OpenIsSeenStep DEF Typed, PendingInv
      <3>5. NoneOpen' /\ Awake'
        BY <2>2, NoneOpenStep, AwakeStep DEF Typed, PendingInv
      <3> QED
        BY <3>1, <3>2, <3>3, <3>4, <3>5 DEF PendingInv
    <2> QED
      BY <2>1, <2>2
  <1>3. PendingInv => PendingIsServed
    BY DEF PendingInv, Awake, PendingIsServed, Quiet, Running, Open
  <1> QED
    BY <1>1, <1>2, <1>3, TypedStep, PTL DEF Spec
================================================================================

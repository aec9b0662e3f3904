----------------------------- MODULE UpgradeProofs -----------------------------
(***************************************************************************)
(* Theorems about Upgrade, for every set of releases, versions, stamps and *)
(* ConfigMap names and for every bound.                                    *)
(***************************************************************************)
EXTENDS Upgrade, TLAPS

--------------------------------------------------------------------------------
(***************************************************************************)
(* Type correctness: first the operators the actions are built from.       *)
(***************************************************************************)

\* Dropping the half second of a stamp gives a natural number.
LEMMA WholeType == ASSUME NEW t \in Nat PROVE Whole(t) \in Nat
  BY DEF Whole

\* The local variables of a reconcile that has not started are well typed.
LEMMA NoRunType == NoRun \in RunType /\ NoConfigMap \in ConfigMap
  <1> USE ReleaseAssumption, VersionAssumption, RevisionAssumption
  <1>1. NoConfigMap \in ConfigMap
    BY DEF NoConfigMap, ConfigMap
  <1>2. NoBinding \in Binding
    BY DEF NoBinding, Binding
  <1>3. [version |-> Installed, rev |-> 0, state |-> "valid"] \in Profile
    BY DEF Profile
  <1>4. NoManifest \in Manifest
    BY DEF NoManifest, Manifest, HRSpec, Feedback
  <1> QED
    BY <1>1, <1>2, <1>3, <1>4 DEF NoRun, RunType

\* The informer cache returns objects of the right type.
LEMMA SeenType ==
  ASSUME TypeOK
  PROVE  /\ SeenBinding \in Binding
         /\ SeenWorks \in [HelmRelease -> Manifest]
         /\ SeenConfigMaps \in [ConfigMapName -> ConfigMap]
  BY DEF TypeOK, SeenBinding, SeenWorks, SeenConfigMaps

\* CreateOrPatch of a ConfigMap leaves a ConfigMap on the server.
LEMMA WrittenType ==
  ASSUME TypeOK, NEW n \in ConfigMapName, NEW mod \in ConfigMap
  PROVE  Written(n, mod) \in ConfigMap
  <1>1. cms[n] \in ConfigMap /\ SeenConfigMaps[n] \in ConfigMap
    BY SeenType DEF TypeOK
  <1>2. ASSUME NEW cur \in ConfigMap, NEW srv \in ConfigMap
        PROVE  MergePatch(cur, mod, srv) \in ConfigMap
    <2>1. [h \in HelmRelease |-> IF mod.data[h] # cur.data[h] THEN mod.data[h] ELSE srv.data[h]]
             \in [HelmRelease -> BOOLEAN]
      BY <1>2 DEF ConfigMap
    <2> QED
      BY <1>2, <2>1, ZenonT(30) DEF ConfigMap, MergePatch
  <1> QED
    BY <1>1, <1>2 DEF Written, ConfigMap

\* CreateOrPatch of a ManifestWork leaves manifests on the server.
LEMMA PatchedType ==
  ASSUME TypeOK, NEW ws, NEW mod \in [HelmRelease -> Manifest]
  PROVE  Patched(ws, mod) \in [HelmRelease -> Manifest]
  BY ZenonT(30) DEF TypeOK, Patched, Manifest

\* With an up-to-date cache the patched ManifestWorks get the wanted specs.
LEMMA PatchedSpec ==
  ASSUME "work" \notin Lagging, TypeOK, NEW ws, NEW mod \in [HelmRelease -> Manifest],
         NEW h \in HelmRelease
  PROVE  Patched(ws, mod)[h].spec = IF WorkOf[h] \in ws THEN mod[h].spec ELSE works[h].spec
  <1> DEFINE newSpecs == {w \in ws : \E k \in In(w) : mod[k].spec # SeenWorks[k].spec}
  <1>1. works[h] \in Manifest
    BY DEF TypeOK
  <1>2. Patched(ws, mod)[h].spec = IF WorkOf[h] \in newSpecs THEN mod[h].spec ELSE works[h].spec
    BY <1>1 DEF Patched, Manifest
  <1>3. WorkOf[h] \in ws /\ WorkOf[h] \notin newSpecs => mod[h].spec = works[h].spec
    BY DEF In, SeenWorks
  <1> QED
    BY <1>2, <1>3

\* What the chart renders for a release.
LEMMA RenderedType ==
  ASSUME NEW h \in HelmRelease, NEW v \in Version \cup {0}, NEW r \in Revision
  PROVE  Rendered(h, v, r) \in HRSpec
  BY VersionAssumption, RevisionAssumption DEF Rendered, HRSpec

\* The manifests and the targets of a rewritten ManifestWork.
LEMMA RewrittenType ==
  ASSUME TypeOK, NEW hs
  PROVE  /\ Rewritten(hs) \in [HelmRelease -> Manifest]
         /\ Targets(hs) \in [HelmRelease -> Nat]
  <1>1. run.list \in [HelmRelease -> Manifest] /\ run.min \in [HelmRelease -> Nat]
    BY DEF TypeOK, RunType
  <1>2. \A h \in HelmRelease : Rendered(h, run.b.version, run.p.rev) \in HRSpec
    BY RenderedType DEF TypeOK, RunType, Binding, Profile
  <1>3. \A h \in HelmRelease :
           [run.list[h] EXCEPT !.spec = Rendered(h, run.b.version, run.p.rev), !.rules = TRUE]
              \in Manifest
    BY <1>1, <1>2 DEF Manifest
  <1>4. \A h \in HelmRelease :
           MinGeneration(run.list[h], Rendered(h, run.b.version, run.p.rev)) \in Nat
    BY <1>1 DEF MinGeneration, Manifest, Feedback
  <1> QED
    BY <1>1, <1>3, <1>4 DEF Rewritten, Targets

\* The manifests EnableFeatures leaves.
LEMMA InstallsType ==
  ASSUME TypeOK, NEW ws
  PROVE  Installs(ws) \in [HelmRelease -> Manifest]
  <1>1. \A h \in HelmRelease : InstalledSpec(h) \in HRSpec
    BY RenderedType DEF InstalledSpec, TypeOK, RunType, Profile
  <1>2. \A h \in HelmRelease : Exported(h) \in Manifest
    BY <1>1 DEF Exported, TypeOK, Manifest
  <1> QED
    BY <1>2, PatchedType DEF Installs

\* The history of exactness stays a function to BOOLEAN.
LEMMA ForgetsType ==
  ASSUME TypeOK, NEW ws
  PROVE  Forgets(ws) \in [HelmRelease -> BOOLEAN]
  BY DEF TypeOK, Forgets

\* Requeueing and ending leave the typed idle state.
LEMMA AgainType == ASSUME Again PROVE pc' \in Step /\ run' \in RunType /\ queued' \in BOOLEAN
  BY NoRunType DEF Again, Step

\* The initial state is well typed.
LEMMA TypeInit == Init => TypeOK
  <1> SUFFICES ASSUME Init PROVE TypeOK
    OBVIOUS
  <1> USE ReleaseAssumption, VersionAssumption, RevisionAssumption
  <1>1. binding \in Binding
    BY DEF Init, Binding
  <1>2. profile \in Profile
    BY DEF Init, Profile
  <1>3. spoke \in [HelmRelease -> Release]
    <2>1. \A h \in HelmRelease : ChartOf[h][Installed] \in Nat
      OBVIOUS
    <2> QED
      BY <2>1 DEF Init, Release, HRSpec
  <1>4. works \in [HelmRelease -> Manifest]
    <2>1. \A h \in HelmRelease : Report(spoke[h], ~OldBuild) \in Feedback
      BY <1>3 DEF Report, Feedback, Release
    <2> QED
      BY <1>3, <2>1 DEF Init, Manifest, Release
  <1>5. cms \in [ConfigMapName -> ConfigMap]
    BY NoRunType DEF Init
  <1> QED
    BY <1>1, <1>2, <1>3, <1>4, <1>5, NoRunType DEF Init, TypeOK, Step

\* A reconcile past the creation of its ConfigMap knows its name.
HasName == pc \in {"core", "list", "work", "observe", "finish"} => run.id # 0

\* The status update writes a well typed binding.
LEMMA StatusType ==
  ASSUME TypeOK, NEW v \in Nat, StatusUpdate(v), faults' \in Nat
  PROVE  TypeOK'
  <1>1. run.b.stamp \in Nat
    <2>1. run \in RunType
      BY DEF TypeOK
    <2>2. run.b \in Binding
      BY <2>1 DEF RunType
    <2>3. run.b.stamp \in Stamp \cup {0}
      BY <2>2 DEF Binding
    <2>4. \A t \in Stamp \cup {0} : t \in Nat
      BY StampAssumption
    <2> QED
      BY <2>3, <2>4, Zenon
  <1>2. Whole(run.b.stamp) \in Nat
    BY <1>1, WholeType
  <1>3. StatusOf(SeenBinding, v) \in Binding
    BY <1>2, SeenType DEF StatusOf, Binding
  <1>4. binding' \in Binding /\ queued' \in BOOLEAN
    BY <1>3 DEF StatusUpdate, Notified, TypeOK
  <1> QED
    BY <1>4, NoRunType DEF StatusUpdate, Done, TypeOK, Step, others

\* Every step of the reconciler keeps the types.
LEMMA TypeController == ASSUME TypeOK, HasName, Controller PROVE TypeOK'
  <1> USE DEF hub, others
  <1>1. CASE Reconcile
    <2>1. pc' \in Step
      BY <1>1 DEF Reconcile, Branch, Step
    <2>2. run' \in RunType
      <3>1. NeedsUpgrade(SeenBinding) \in BOOLEAN
        BY DEF NeedsUpgrade
      <3> QED
        BY <1>1, <3>1, SeenType, NoRunType DEF Reconcile, RunType, TypeOK
    <2> QED
      BY <1>1, <2>1, <2>2 DEF Reconcile, TypeOK
  <1>2. CASE ReconcileNoProfile
    BY <1>2 DEF ReconcileNoProfile, TypeOK
  <1>3. CASE ReconcileBadProfile
    BY <1>3 DEF ReconcileBadProfile, TypeOK, vars
  <1>4. CASE FindPending
    <2>1. PICK n \in ConfigMapName :
             run' = [run EXCEPT !.id = n, !.cm = SeenConfigMaps[n], !.min = SeenConfigMaps[n].min]
      BY <1>4 DEF FindPending
    <2>2. SeenConfigMaps[n] \in ConfigMap /\ SeenConfigMaps[n].min \in [HelmRelease -> Nat]
      BY SeenType DEF ConfigMap
    <2>3. run' \in RunType
      BY <2>1, <2>2 DEF TypeOK, RunType
    <2> QED
      BY <1>4, <2>3 DEF FindPending, TypeOK, Step
  <1>5. CASE FindNone
    BY <1>5 DEF FindNone, TypeOK, Step
  <1>6. CASE Render
    <2>1. run' \in RunType
      BY <1>6, SeenType DEF Render, TypeOK, RunType
    <2>2. exact' \in [HelmRelease -> BOOLEAN]
      BY <1>6 DEF Render, TypeOK, InStep
    <2> QED
      BY <1>6, <2>1, <2>2 DEF Render, TypeOK, Step
  <1>7. CASE RenderNoValues
    BY <1>7, AgainType DEF RenderNoValues, TypeOK
  <1>8. CASE DeleteStale
    <2>1. cms' \in [ConfigMapName -> ConfigMap]
      BY <1>8, NoRunType DEF DeleteStale, Swept, TypeOK
    <2> QED
      BY <1>8, <2>1 DEF DeleteStale, TypeOK, Step
  <1>9. CASE CreateConfigMap
    <2> DEFINE n == CHOOSE n \in Unused : TRUE
    <2>1. n \in ConfigMapName
      BY <1>9 DEF CreateConfigMap, Unused
    <2>2. NewConfigMap(run.b.version) \in ConfigMap
      BY NoRunType DEF NewConfigMap, ConfigMap, TypeOK, RunType, Binding
    <2>3. /\ cms' = [cms EXCEPT ![n] = NewConfigMap(run.b.version)]
          /\ run' = [run EXCEPT !.id = n, !.cm = NewConfigMap(run.b.version)]
      BY <1>9 DEF CreateConfigMap
    <2> HIDE DEF n
    <2>4. cms' \in [ConfigMapName -> ConfigMap] /\ run' \in RunType
      BY <2>1, <2>2, <2>3 DEF TypeOK, RunType
    <2> QED
      BY <1>9, <2>4 DEF CreateConfigMap, TypeOK, Step
  <1>10. CASE PatchCore
    <2>1. works' \in [HelmRelease -> Manifest]
      BY <1>10, PatchedType, RewrittenType DEF PatchCore
    <2>2. run' \in RunType
      BY <1>10, RewrittenType DEF PatchCore, TypeOK, RunType
    <2> QED
      BY <1>10, <2>1, <2>2 DEF PatchCore, TypeOK, Step
  <1>11. CASE ListWorks
    <2>1. run' \in RunType
      BY <1>11, SeenType DEF ListWorks, TypeOK, RunType
    <2>2. exact' \in [HelmRelease -> BOOLEAN]
      BY <1>11 DEF ListWorks, TypeOK, InStep
    <2> QED
      BY <1>11, <2>1, <2>2 DEF ListWorks, TypeOK, Step
  <1>12. ASSUME NEW w \in ManifestWork, PatchWork(w) PROVE TypeOK'
    <2>1. works' \in [HelmRelease -> Manifest]
      BY <1>12, PatchedType, RewrittenType DEF PatchWork
    <2>2. run' \in RunType
      BY <1>12, RewrittenType DEF PatchWork, TypeOK, RunType
    <2> QED
      BY <1>12, <2>1, <2>2 DEF PatchWork, TypeOK
  <1>13. ASSUME NEW w \in ManifestWork, FeatureNotFound(w) PROVE TypeOK'
    BY <1>13, AgainType DEF FeatureNotFound, TypeOK
  <1>14. CASE RecordPending
    <2> DEFINE mod == [run.cm EXCEPT !.recorded = TRUE, !.min = run.min, !.stamp = run.b.stamp]
    <2>1. mod \in ConfigMap
      BY DEF TypeOK, RunType, ConfigMap, Binding
    <2>2. cms' = [cms EXCEPT ![run.id] = Written(run.id, mod)]
      BY <1>14 DEF RecordPending
    <2> HIDE DEF mod
    <2>3. cms' \in [ConfigMapName -> ConfigMap]
      BY <2>1, <2>2, WrittenType DEF TypeOK
    <2> QED
      BY <1>14, <2>3, AgainType DEF RecordPending, TypeOK
  <1>15. CASE ConfigMapUnseen
    BY <1>15, AgainType DEF ConfigMapUnseen, TypeOK
  <1>16. ASSUME NEW unread \in SUBSET ManifestWork, Observe(unread) PROVE TypeOK'
    <2> DEFINE ready == ReadyNow(unread)
    <2> DEFINE mod == IF NewMarks(ready) THEN Written(run.id, Marked(ready)) ELSE run.cm
    <2>1. Marked(ready) \in ConfigMap
      BY DEF Marked, TypeOK, RunType, ConfigMap
    <2>2. run.id \in ConfigMapName => mod \in ConfigMap
      BY <2>1, WrittenType DEF TypeOK, RunType
    <2>3. cms' = IF NewMarks(ready) THEN [cms EXCEPT ![run.id] = mod] ELSE cms
      BY <1>16 DEF Observe
    <2>4. \/ /\ pc' = "finish" /\ UNCHANGED queued
             /\ run' = [run EXCEPT !.cm = mod, !.err = ~(ready = HelmRelease)]
          \/ Again
      BY <1>16 DEF Observe
    <2> HIDE DEF mod, ready
    <2>5. cms' \in [ConfigMapName -> ConfigMap]
      BY <2>2, <2>3 DEF TypeOK
    <2>6. mod \in ConfigMap
      BY <1>16, <2>2 DEF Observe, TypeOK, RunType, HasName
    <2>7. pc' \in Step /\ run' \in RunType /\ queued' \in BOOLEAN
      BY <2>4, <2>6, AgainType DEF TypeOK, RunType, Step
    <2>8. faults' \in Nat
      BY <1>16 DEF Observe, TypeOK
    <2> QED
      BY <1>16, <2>5, <2>7, <2>8 DEF Observe, TypeOK
  <1>17. CASE FinishUpgrade
    <2>1. Finished \in ConfigMap
      BY DEF Finished, TypeOK, RunType, ConfigMap
    <2>2. cms' \in [ConfigMapName -> ConfigMap]
      BY <1>17, <2>1, WrittenType DEF FinishUpgrade, TypeOK
    <2>3. pc' \in Step /\ run' \in RunType /\ queued' \in BOOLEAN
      BY <1>17, AgainType DEF FinishUpgrade, TypeOK, Step
    <2> QED
      BY <1>17, <2>2, <2>3 DEF FinishUpgrade, TypeOK
  <1>18. CASE EnableFeatures
    BY <1>18, InstallsType, ForgetsType DEF EnableFeatures, TypeOK, Step
  <1>19. ASSUME NEW ws \in SUBSET ManifestWork, EnableNotFound(ws) PROVE TypeOK'
    BY <1>19, InstallsType, ForgetsType, AgainType DEF EnableNotFound, EnableStopsAt, TypeOK
  <1>20. CASE UpdateStatus
    <2>1. SeenWorks[OpscenterFeatures].spec.chart \in Nat
      BY SeenType, ReleaseAssumption DEF Manifest, HRSpec
    <2> QED
      BY <1>20, <2>1, StatusType DEF UpdateStatus, TypeOK
  <1>21. CASE StatusRejected
    BY <1>21, AgainType DEF StatusRejected, TypeOK
  <1> QED
    BY <1>1, <1>2, <1>3, <1>4, <1>5, <1>6, <1>7, <1>8, <1>9, <1>10, <1>11, <1>12, <1>13,
       <1>14, <1>15, <1>16, <1>17, <1>18, <1>19, <1>20, <1>21 DEF Controller

\* Failures keep the types.
LEMMA TypeFailures == ASSUME TypeOK, Failures PROVE TypeOK'
  <1> USE DEF hub, others
  <1>1. ASSUME NEW ws \in SUBSET ManifestWork, EnableFails(ws) PROVE TypeOK'
    BY <1>1, InstallsType, ForgetsType, AgainType DEF EnableFails, EnableStopsAt, Again, TypeOK
  <1>2. CASE ReadBackFails
    BY <1>2, StatusType DEF ReadBackFails, TypeOK
  <1>3. CASE CallFails
    <2>1. cms' \in [ConfigMapName -> ConfigMap]
      BY <1>3, NoRunType DEF CallFails, Swept, TypeOK
    <2> QED
      BY <1>3, <2>1, AgainType DEF CallFails, Again, TypeOK
  <1>4. CASE Restart
    BY <1>4, AgainType DEF Restart, Again, TypeOK
  <1>5. ASSUME NEW h \in HelmRelease, AgentFails(h) PROVE TypeOK'
    <2>1. works' \in [HelmRelease -> Manifest]
      BY <1>5, ZenonT(30) DEF AgentFails, TypeOK, Manifest, Feedback
    <2> QED
      BY <1>5, <2>1 DEF AgentFails, TypeOK
  <1> QED
    BY <1>1, <1>2, <1>3, <1>4, <1>5 DEF Failures

\* The informers, the spoke and the clock keep the types.
LEMMA TypeEnvironment == ASSUME TypeOK, Informers \/ Spoke \/ Clock PROVE TypeOK'
  <1> USE DEF hub, others
  <1>1. CASE SyncBinding
    BY <1>1 DEF SyncBinding, TypeOK
  <1>2. CASE SyncWorks
    BY <1>2 DEF SyncWorks, TypeOK
  <1>3. CASE SyncConfigMaps
    BY <1>3 DEF SyncConfigMaps, TypeOK
  <1>4. ASSUME NEW h \in HelmRelease, AgentApplies(h) PROVE TypeOK'
    <2>1. works[h] \in Manifest /\ spoke[h] \in Release
      BY DEF TypeOK
    <2>4. works[h].spec \in HRSpec
      BY <2>1 DEF Manifest
    <2>5. spoke[h].gen \in Nat /\ spoke[h].gen + 1 \in Nat
      BY <2>1 DEF Release
    <2>6. /\ spoke \in [HelmRelease -> Release]
          /\ \/ spoke' = [spoke EXCEPT ![h].gen = spoke[h].gen + 1, ![h].spec = works[h].spec]
             \/ spoke' = [spoke EXCEPT ![h].gen = spoke[h].gen, ![h].spec = works[h].spec]
      BY <1>4 DEF AgentApplies, TypeOK
    <2>2. spoke' \in [HelmRelease -> Release]
      BY <2>4, <2>5, <2>6 DEF Release
    <2>3. works' \in [HelmRelease -> Manifest]
      BY <1>4, <2>1 DEF AgentApplies, TypeOK, Manifest, Feedback
    <2> QED
      BY <1>4, <2>2, <2>3 DEF AgentApplies, TypeOK
  <1>5. ASSUME NEW h \in HelmRelease, FluxReconciles(h) PROVE TypeOK'
    <2>1. spoke' \in [HelmRelease -> Release]
      BY <1>5, ZenonT(30) DEF FluxReconciles, TypeOK, Release
    <2> QED
      BY <1>5, <2>1 DEF FluxReconciles, TypeOK
  <1>6. ASSUME NEW h \in HelmRelease, AgentReports(h) PROVE TypeOK'
    <2> DEFINE fb == [Report(spoke[h], works[h].rules) EXCEPT !.applied = works[h].fb.applied]
    <2>1. works[h] \in Manifest /\ spoke[h] \in Release
      BY DEF TypeOK
    <2>2. fb \in Feedback
      BY <2>1 DEF Report, Feedback, Manifest, Release
    <2>3. works' = [works EXCEPT ![h].fb = fb]
      BY <1>6 DEF AgentReports
    <2> HIDE DEF fb
    <2>4. works' \in [HelmRelease -> Manifest]
      BY <2>1, <2>2, <2>3 DEF TypeOK, Manifest
    <2> QED
      BY <1>6, <2>4 DEF AgentReports, TypeOK
  <1>7. ASSUME NEW n \in ConfigMapName, Timeout(n) PROVE TypeOK'
    <2>1. cms[n] \in ConfigMap
      BY DEF TypeOK
    <2>2. cms' \in [ConfigMapName -> ConfigMap]
      BY <1>7, <2>1 DEF Timeout, TypeOK, ConfigMap
    <2> QED
      BY <1>7, <2>2 DEF Timeout, TypeOK
  <1> QED
    BY <1>1, <1>2, <1>3, <1>4, <1>5, <1>6, <1>7 DEF Informers, Spoke, Clock

\* The users' edits keep the types.
LEMMA TypeUsers == ASSUME TypeOK, Users PROVE TypeOK'
  <1>1. ASSUME NEW b \in Binding, EditBinding(b) PROVE TypeOK'
    BY <1>1 DEF EditBinding, Notified, TypeOK
  <1>2. ASSUME NEW p \in Profile, EditProfile(p) PROVE TypeOK'
    BY <1>2 DEF EditProfile, TypeOK
  <1>3. ASSUME NEW v \in Version, NEW vals \in BOOLEAN, SetVersion(v, vals) PROVE TypeOK'
    <2>1. [binding EXCEPT !.version = v, !.values = @ \/ vals] \in Binding
      BY DEF TypeOK, Binding
    <2> QED
      BY <1>1, <1>3, <2>1 DEF SetVersion
  <1>4. ASSUME NEW t \in Stamp, SetStamp(t) PROVE TypeOK'
    <2>1. [binding EXCEPT !.stamp = t] \in Binding
      BY DEF TypeOK, Binding
    <2> QED
      BY <1>1, <1>4, <2>1 DEF SetStamp
  <1>5. ASSUME NEW r \in Revision, EditValues(r) PROVE TypeOK'
    <2>1. [profile EXCEPT !.rev = r] \in Profile
      BY DEF TypeOK, Profile
    <2> QED
      BY <1>2, <1>5, <2>1 DEF EditValues
  <1>6. ASSUME NEW v \in Version, EditChart(v) PROVE TypeOK'
    <2>1. [profile EXCEPT !.version = v] \in Profile
      BY DEF TypeOK, Profile
    <2> QED
      BY <1>2, <1>6, <2>1 DEF EditChart
  <1>7. ASSUME NEW s \in {"valid", "invalid", "gone"}, EditState(s) PROVE TypeOK'
    <2>1. [profile EXCEPT !.state = s] \in Profile
      BY DEF TypeOK, Profile
    <2> QED
      BY <1>2, <1>7, <2>1 DEF EditState
  <1> QED
    BY <1>3, <1>4, <1>5, <1>6, <1>7 DEF Users

\* The name is set with the ConfigMap and kept until the reconcile ends.
LEMMA NameStep == ASSUME TypeOK, HasName, Next PROVE HasName'
  <1> USE DEF HasName
  <1>1. Again => HasName'
    BY DEF Again
  <1>2. UNCHANGED <<pc, run>> => HasName'
    OBVIOUS
  <1>3. CASE Controller
    <2>1. Reconcile => HasName'
      BY DEF Reconcile, Branch
    <2>2. FindPending => HasName'
      BY NameAssumption DEF FindPending, TypeOK, RunType
    <2>3. Render \/ FindNone \/ DeleteStale => HasName'
      BY DEF Render, FindNone, DeleteStale
    <2>4. CreateConfigMap => HasName'
      <3> SUFFICES ASSUME CreateConfigMap PROVE HasName'
        OBVIOUS
      <3> DEFINE n == CHOOSE n \in Unused : TRUE
      <3>1. n \in ConfigMapName
        BY DEF CreateConfigMap, Unused
      <3>2. run' = [run EXCEPT !.id = n, !.cm = NewConfigMap(run.b.version)]
        BY DEF CreateConfigMap
      <3> HIDE DEF n
      <3> QED
        BY <3>1, <3>2, NameAssumption DEF TypeOK, RunType
    <2>5. PatchCore \/ ListWorks => HasName'
      BY DEF PatchCore, ListWorks, TypeOK, RunType
    <2>6. ASSUME NEW w \in ManifestWork, PatchWork(w) PROVE HasName'
      BY <2>6 DEF PatchWork, TypeOK, RunType
    <2>7. ASSUME NEW unread \in SUBSET ManifestWork, Observe(unread) PROVE HasName'
      BY <2>7, <1>1 DEF Observe, TypeOK, RunType
    <2>8. FinishUpgrade => HasName'
      BY <1>1 DEF FinishUpgrade
    <2>9. EnableFeatures \/ UpdateStatus => HasName'
      BY DEF EnableFeatures, UpdateStatus, StatusUpdate, Done
    <2> QED
      BY <1>1, <1>2, <1>3, <2>1, <2>2, <2>3, <2>4, <2>5, <2>6, <2>7, <2>8, <2>9
      DEF Controller, ReconcileNoProfile, ReconcileBadProfile, vars, RenderNoValues,
          FeatureNotFound, RecordPending, ConfigMapUnseen, EnableNotFound, EnableStopsAt,
          StatusRejected
  <1>4. CASE Failures
    BY <1>1, <1>2, <1>4 DEF Failures, EnableFails, EnableStopsAt, ReadBackFails, StatusUpdate,
       Done, CallFails, Restart, AgentFails
  <1>5. CASE Informers \/ Spoke \/ Clock
    BY <1>2, <1>5 DEF Informers, SyncBinding, SyncWorks, SyncConfigMaps, Spoke, AgentApplies,
       FluxReconciles, AgentReports, Clock, Timeout
  <1>6. CASE Users
    BY <1>2, <1>6 DEF Users, SetVersion, SetStamp, EditBinding, EditValues, EditChart, EditState,
       EditProfile
  <1> QED
    BY <1>3, <1>4, <1>5, <1>6 DEF Next

\* Typed states in which a reconcile knows the ConfigMap it writes.
Typed == TypeOK /\ HasName

\* No step leaves the typed states.
LEMMA TypedStep == Typed /\ [Next]_vars => Typed'
  <1> SUFFICES ASSUME Typed, [Next]_vars PROVE Typed'
    OBVIOUS
  <1>1. CASE UNCHANGED vars
    BY <1>1 DEF vars, Typed, TypeOK, HasName
  <1>2. CASE Next
    BY <1>2, TypeController, TypeFailures, TypeEnvironment, TypeUsers, NameStep DEF Next, Typed
  <1> QED
    BY <1>1, <1>2

\* Every reachable state is well typed; for the copy of the ConfigMap in the
\* reconciler's memory this needs that the reconcile knows its name.
THEOREM TypeCorrect == Spec => []TypeOK
  <1>1. Init => Typed
    BY TypeInit DEF Typed, HasName, Init
  <1>2. Typed => TypeOK
    BY DEF Typed
  <1> QED
    BY <1>1, <1>2, TypedStep, PTL DEF Spec
--------------------------------------------------------------------------------
(***************************************************************************)
(* What the steps change, for the proofs about single variables.           *)
(***************************************************************************)

\* A reconcile that starts has chosen its branch by the binding it read.
LEMMA ReconcileShape ==
  ASSUME TypeOK, Reconcile
  PROVE  /\ run'.b = SeenBinding /\ run'.p = profile
         /\ run'.up = NeedsUpgrade(SeenBinding)
         /\ \/ pc' = "find" /\ run'.up
            \/ pc' = "enable" /\ ~run'.up /\ ShouldEnableFeatures(SeenBinding, profile)
            \/ pc' = "status" /\ ~run'.up
         /\ ~queued'
         /\ UNCHANGED <<binding, profile, works, cms, cache>>
  <1>1. run' = [NoRun EXCEPT !.b = SeenBinding, !.p = profile, !.up = NeedsUpgrade(SeenBinding)]
    BY DEF Reconcile
  <1>2. run'.b = SeenBinding /\ run'.p = profile /\ run'.up = NeedsUpgrade(SeenBinding)
    BY <1>1 DEF NoRun
  <1>3. \/ pc' = "find" /\ NeedsUpgrade(SeenBinding)
        \/ pc' = "enable" /\ ~NeedsUpgrade(SeenBinding)
           /\ ShouldEnableFeatures(SeenBinding, profile)
        \/ pc' = "status" /\ ~NeedsUpgrade(SeenBinding)
    BY DEF Reconcile, Branch
  <1> QED
    BY <1>2, <1>3 DEF Reconcile, hub, others

\* The ConfigMap created is a new one.
LEMMA CreatedShape ==
  ASSUME TypeOK, CreateConfigMap
  PROVE  \E n \in ConfigMapName :
            /\ ~Present(cms[n]) /\ ~Present(cache.cms[n])
            /\ cms' = [cms EXCEPT ![n] = NewConfigMap(run.b.version)]
            /\ run'.id = n /\ run'.cm = NewConfigMap(run.b.version) /\ run'.b = run.b
            /\ pc = "create" /\ pc' = "core"
            /\ UNCHANGED <<works, binding, cache>>
  <1> DEFINE n == CHOOSE n \in Unused : TRUE
  <1>1. n \in Unused
    BY DEF CreateConfigMap
  <1>2. n \in ConfigMapName /\ ~Present(cms[n]) /\ ~Present(cache.cms[n])
    BY <1>1 DEF Unused
  <1>3. /\ cms' = [cms EXCEPT ![n] = NewConfigMap(run.b.version)]
        /\ run' = [run EXCEPT !.id = n, !.cm = NewConfigMap(run.b.version)]
        /\ pc = "create" /\ pc' = "core"
        /\ UNCHANGED <<works, binding, cache>>
    BY DEF CreateConfigMap, others
  <1> HIDE DEF n
  <1>4. run'.id = n /\ run'.cm = NewConfigMap(run.b.version) /\ run'.b = run.b
    BY <1>3 DEF TypeOK, RunType
  <1> QED
    BY <1>2, <1>3, <1>4

\* The manifests keep their specs; feedback may change.
SameSpecs == \A h \in HelmRelease : works'[h].spec = works[h].spec

\* The work agent only reports.
LEMMA AgentKeepsSpecs ==
  ASSUME TypeOK, NEW h \in HelmRelease, AgentApplies(h) \/ AgentReports(h) \/ AgentFails(h)
  PROVE  SameSpecs
  <1>1. works[h] \in Manifest
    BY DEF TypeOK
  <1>2. \E fb : works' = [works EXCEPT ![h].fb = fb]
    BY DEF AgentReports, AgentApplies, AgentFails
  <1> QED
    BY <1>1, <1>2 DEF SameSpecs, TypeOK, Manifest

\* EnableFeatures wrote the ManifestWorks ws, all of them or the first ones.
InstallsSome(ws) ==
    /\ pc = "enable"
    /\ works' = Installs(ws) /\ exact' = Forgets(ws)
    /\ \/ pc' = "status" /\ run' = run
       \/ pc' = "idle"
    /\ UNCHANGED <<binding, cms, cache, spoke>>

\* Every step, by what it does to the manifests.
LEMMA SpecsShape ==
  ASSUME TypeOK, Next
  PROVE  \/ SameSpecs
         \/ PatchCore
         \/ \E w \in ManifestWork : PatchWork(w)
         \/ \E ws \in SUBSET ManifestWork : InstallsSome(ws)
  <1> USE DEF hub, others
  <1>1. ASSUME UNCHANGED works PROVE SameSpecs
    BY <1>1 DEF SameSpecs
  <1>2. CASE EnableFeatures
    <2>1. InstallsSome(ManifestWork)
      BY <1>2 DEF EnableFeatures, InstallsSome
    <2> QED
      BY <2>1
  <1>3. ASSUME NEW ws \in SUBSET ManifestWork, EnableStopsAt(ws) PROVE InstallsSome(ws)
    BY <1>3 DEF EnableStopsAt, InstallsSome, Again
  <1>4. CASE Controller
    BY <1>1, <1>2, <1>3, <1>4
    DEF Controller, Reconcile, ReconcileNoProfile, ReconcileBadProfile, vars, FindPending,
        FindNone, Render, RenderNoValues, DeleteStale, CreateConfigMap, ListWorks,
        FeatureNotFound, RecordPending, ConfigMapUnseen, Observe, FinishUpgrade, EnableNotFound,
        UpdateStatus, StatusUpdate, StatusRejected
  <1>5. \A h \in HelmRelease : AgentApplies(h) \/ AgentReports(h) \/ AgentFails(h) => SameSpecs
    BY AgentKeepsSpecs
  <1>6. CASE Failures
    BY <1>1, <1>3, <1>5, <1>6 DEF Failures, EnableFails, ReadBackFails, StatusUpdate, CallFails,
       Restart
  <1>7. CASE Spoke
    BY <1>1, <1>5, <1>7 DEF Spoke, FluxReconciles
  <1>8. CASE Informers \/ Clock \/ Users
    BY <1>1, <1>8 DEF Informers, SyncBinding, SyncWorks, SyncConfigMaps, Clock, Timeout, Users,
       SetVersion, SetStamp, EditBinding, EditValues, EditChart, EditState, EditProfile
  <1> QED
    BY <1>4, <1>6, <1>7, <1>8 DEF Next
--------------------------------------------------------------------------------
(***************************************************************************)
(* One upgrader ConfigMap, if the ConfigMap cache does not lag.  Between   *)
(* the sweep and the creation there is none, and the one a reconcile holds *)
(* stays on the server until the reconcile ends: without that, a patch of  *)
(* the run's ConfigMap could create a second one.                          *)
(***************************************************************************)

\* The steps that write the run's ConfigMap.
Holding == {"core", "list", "work", "observe", "finish"}

\* The sweep left no ConfigMap.
SweptClean == pc = "create" => \A n \in ConfigMapName : ~Present(cms[n])

\* The ConfigMap of the running upgrade is there.
HoldsConfigMap == pc \in Holding => Present(cms[run.id]) /\ Present(run.cm)

OneInv == OneConfigMap /\ SweptClean /\ HoldsConfigMap

\* Deleting and patching ConfigMaps adds none.
LEMMA FewerConfigMaps ==
  ASSUME OneConfigMap, \A n \in ConfigMapName : Present(cms'[n]) => Present(cms[n])
  PROVE  OneConfigMap'
  BY DEF OneConfigMap

\* A patch of the run's ConfigMap leaves the set of ConfigMaps as it was.
LEMMA WrittenPresent ==
  ASSUME TypeOK, "configmap" \notin Lagging, OneInv, HasName, pc \in Holding,
         NEW mod \in ConfigMap, Present(mod),
         cms' = [cms EXCEPT ![run.id] = Written(run.id, mod)]
  PROVE  /\ OneConfigMap'
         /\ Present(cms'[run.id])
         /\ Present(Written(run.id, mod))
  <1>1. run.id \in ConfigMapName
    BY DEF HasName, Holding, TypeOK, RunType
  <1>2. Present(cms[run.id])
    BY DEF OneInv, HoldsConfigMap
  <1>3. Written(run.id, mod) = MergePatch(SeenConfigMaps[run.id], mod, cms[run.id])
    BY <1>2 DEF Written
  <1>4. Present(Written(run.id, mod))
    <2>1. cms[run.id] \in ConfigMap
      BY <1>1 DEF TypeOK
    <2>2. MergePatch(SeenConfigMaps[run.id], mod, cms[run.id]).status
             \in {mod.status, cms[run.id].status}
      BY <2>1 DEF MergePatch, ConfigMap
    <2> QED
      BY <1>2, <1>3, <2>2 DEF Present
  <1>5. \A n \in ConfigMapName :
           cms'[n] = IF n = run.id THEN Written(run.id, mod) ELSE cms[n]
    BY DEF TypeOK
  <1>6. Present(cms'[run.id])
    BY <1>1, <1>4, <1>5
  <1>7. \A n \in ConfigMapName : Present(cms'[n]) => Present(cms[n])
    BY <1>2, <1>5
  <1> QED
    BY <1>4, <1>6, <1>7, FewerConfigMaps DEF OneInv

\* The steps that leave the ConfigMaps and the reconcile's memory of its own.
LEMMA OneKept ==
  ASSUME OneInv, UNCHANGED cms, run'.id = run.id, run'.cm = run.cm,
         pc' # "create" \/ pc = "create", pc' \in Holding => pc \in Holding
  PROVE  OneInv'
  BY DEF OneInv, OneConfigMap, SweptClean, HoldsConfigMap

\* The steps that end the reconcile.
LEMMA OneEnded ==
  ASSUME OneConfigMap', pc' = "idle"
  PROVE  OneInv'
  BY DEF OneInv, SweptClean, HoldsConfigMap, Holding

\* No step of the reconciler makes a second ConfigMap.
LEMMA OneController ==
  ASSUME TypeOK, HasName, "configmap" \notin Lagging, OneInv, Controller
  PROVE  OneInv'
  <1> USE DEF hub, others
  <1>1. ASSUME Again, UNCHANGED cms PROVE OneInv'
    BY <1>1, OneEnded DEF Again, OneInv, OneConfigMap
  <1>2. CASE Reconcile
    <2>1. pc' \in {"find", "enable", "status"}
      BY <1>2 DEF Reconcile, Branch
    <2> QED
      BY <1>2, <2>1 DEF Reconcile, OneInv, OneConfigMap, SweptClean, HoldsConfigMap, Holding
  <1>3. CASE ReconcileNoProfile \/ ReconcileBadProfile
    BY <1>3, OneKept DEF ReconcileNoProfile, ReconcileBadProfile, vars
  <1>4. CASE FindPending
    <2>1. PICK n \in ConfigMapName :
             /\ Resumable(SeenConfigMaps[n], run.b)
             /\ run' = [run EXCEPT !.id = n, !.cm = SeenConfigMaps[n], !.min = SeenConfigMaps[n].min]
      BY <1>4 DEF FindPending
    <2>2. run'.id = n /\ run'.cm = cms[n]
      BY <2>1 DEF TypeOK, RunType, SeenConfigMaps
    <2>3. Present(cms[n])
      BY <2>1 DEF Resumable, Present, SeenConfigMaps
    <2>4. pc' = "observe" /\ UNCHANGED cms
      BY <1>4 DEF FindPending
    <2> QED
      BY <2>2, <2>3, <2>4 DEF OneInv, OneConfigMap, SweptClean, HoldsConfigMap
  <1>5. CASE FindNone \/ Render
    BY <1>5 DEF FindNone, Render, OneInv, OneConfigMap, SweptClean, HoldsConfigMap, Holding
  <1>6. CASE RenderNoValues \/ ConfigMapUnseen \/ StatusRejected
    BY <1>1, <1>6 DEF RenderNoValues, ConfigMapUnseen, StatusRejected
  <1>7. CASE DeleteStale
    <2>1. \A n \in ConfigMapName : ~Present(cms'[n])
      BY <1>7 DEF DeleteStale, Swept, Stale, SeenConfigMaps, Present, NoConfigMap
    <2> QED
      BY <1>7, <2>1 DEF DeleteStale, OneInv, OneConfigMap, SweptClean, HoldsConfigMap, Holding
  <1>8. CASE CreateConfigMap
    <2> DEFINE n == CHOOSE n \in Unused : TRUE
    <2>1. n \in ConfigMapName
      BY <1>8 DEF CreateConfigMap, Unused
    <2>2. Present(NewConfigMap(run.b.version))
      BY DEF NewConfigMap, NoConfigMap, Present
    <2>3. /\ cms' = [cms EXCEPT ![n] = NewConfigMap(run.b.version)]
          /\ run' = [run EXCEPT !.id = n, !.cm = NewConfigMap(run.b.version)]
          /\ pc = "create" /\ pc' = "core"
      BY <1>8 DEF CreateConfigMap
    <2> HIDE DEF n
    <2>4. run'.id = n /\ run'.cm = NewConfigMap(run.b.version)
      BY <2>3 DEF TypeOK, RunType
    <2>5. \A m \in ConfigMapName :
             cms'[m] = IF m = n THEN NewConfigMap(run.b.version) ELSE cms[m]
      BY <2>3 DEF TypeOK
    <2>6. \A m \in ConfigMapName : Present(cms'[m]) => m = n
      BY <2>3, <2>5 DEF OneInv, SweptClean
    <2>7. OneConfigMap'
      BY <2>6 DEF OneConfigMap
    <2>8. HoldsConfigMap'
      BY <2>1, <2>2, <2>4, <2>5 DEF HoldsConfigMap
    <2> QED
      BY <2>3, <2>7, <2>8 DEF OneInv, SweptClean
  <1>9. CASE PatchCore \/ ListWorks
    BY <1>9, OneKept DEF PatchCore, ListWorks, TypeOK, RunType, Holding
  <1>10. ASSUME NEW w \in ManifestWork, PatchWork(w) \/ FeatureNotFound(w) PROVE OneInv'
    <2>1. CASE PatchWork(w)
      BY <2>1, OneKept DEF PatchWork, TypeOK, RunType
    <2>2. CASE FeatureNotFound(w)
      BY <1>1, <2>2 DEF FeatureNotFound
    <2> QED
      BY <1>10, <2>1, <2>2
  <1>11. CASE RecordPending
    <2> DEFINE mod == [run.cm EXCEPT !.recorded = TRUE, !.min = run.min, !.stamp = run.b.stamp]
    <2>1. run.cm \in ConfigMap /\ Present(run.cm)
      BY <1>11 DEF RecordPending, OneInv, HoldsConfigMap, Holding, TypeOK, RunType
    <2>2. mod \in ConfigMap
      BY DEF TypeOK, RunType, ConfigMap, Binding
    <2>3. Present(mod)
      BY <2>1 DEF Present, ConfigMap
    <2>4. cms' = [cms EXCEPT ![run.id] = Written(run.id, mod)] /\ pc \in Holding /\ Again
      BY <1>11 DEF RecordPending, Holding
    <2> HIDE DEF mod
    <2> QED
      BY <2>2, <2>3, <2>4, WrittenPresent, OneEnded DEF Again
  <1>12. ASSUME NEW unread \in SUBSET ManifestWork, Observe(unread) PROVE OneInv'
    <2> DEFINE ready == ReadyNow(unread)
    <2> DEFINE mod == IF NewMarks(ready) THEN Written(run.id, Marked(ready)) ELSE run.cm
    <2>1. pc \in Holding /\ run.cm \in ConfigMap /\ Present(run.cm) /\ Present(cms[run.id])
      BY <1>12 DEF Observe, OneInv, HoldsConfigMap, Holding, TypeOK, RunType
    <2>2. Marked(ready) \in ConfigMap
      BY DEF Marked, TypeOK, RunType, ConfigMap
    <2>3. Present(Marked(ready))
      BY <2>1 DEF Marked, Present, ConfigMap
    <2>4. cms' = IF NewMarks(ready) THEN [cms EXCEPT ![run.id] = mod] ELSE cms
      BY <1>12 DEF Observe
    <2>5. \/ /\ pc' = "finish"
             /\ run' = [run EXCEPT !.cm = mod, !.err = ~(ready = HelmRelease)]
          \/ pc' = "idle"
      BY <1>12 DEF Observe, Again
    <2>6. OneConfigMap' /\ Present(cms'[run.id]) /\ Present(mod)
      <3>1. CASE NewMarks(ready)
        BY <2>1, <2>2, <2>3, <2>4, <3>1, WrittenPresent
      <3>2. CASE ~NewMarks(ready)
        BY <2>1, <2>4, <3>2 DEF OneInv, OneConfigMap
      <3> QED
        BY <3>1, <3>2
    <2> HIDE DEF mod, ready
    <2>7. CASE pc' = "idle"
      BY <2>6, <2>7, OneEnded
    <2>8. CASE pc' = "finish" /\ run' = [run EXCEPT !.cm = mod, !.err = ~(ready = HelmRelease)]
      <3>1. run'.id = run.id /\ run'.cm = mod
        BY <2>8 DEF TypeOK, RunType
      <3> QED
        BY <2>6, <2>8, <3>1 DEF OneInv, SweptClean, HoldsConfigMap
    <2> QED
      BY <2>5, <2>7, <2>8
  <1>13. CASE FinishUpgrade
    <2>1. run.cm \in ConfigMap /\ pc \in Holding
      BY <1>13 DEF FinishUpgrade, Holding, TypeOK, RunType
    <2>2. Finished \in ConfigMap /\ Present(Finished)
      BY <2>1 DEF Finished, ConfigMap, Present
    <2>3. OneConfigMap'
      BY <1>13, <2>1, <2>2, WrittenPresent DEF FinishUpgrade
    <2> QED
      BY <1>13, <2>3 DEF FinishUpgrade, Again, OneInv, SweptClean, HoldsConfigMap, Holding
  <1>14. CASE EnableFeatures
    BY <1>14 DEF EnableFeatures, OneInv, OneConfigMap, SweptClean, HoldsConfigMap, Holding
  <1>15. ASSUME NEW ws \in SUBSET ManifestWork, EnableNotFound(ws) PROVE OneInv'
    BY <1>1, <1>15 DEF EnableNotFound, EnableStopsAt
  <1>16. CASE UpdateStatus
    BY <1>16, OneEnded DEF UpdateStatus, StatusUpdate, Done, OneInv, OneConfigMap
  <1> QED
    BY <1>2, <1>3, <1>4, <1>5, <1>6, <1>7, <1>8, <1>9, <1>10, <1>11, <1>12, <1>13, <1>14,
       <1>15, <1>16 DEF Controller

\* Nor does any other step.
LEMMA OneOthers ==
  ASSUME TypeOK, HasName, OneInv, Informers \/ Spoke \/ Clock \/ Failures \/ Users
  PROVE  OneInv'
  <1> USE DEF hub, others
  <1>1. ASSUME UNCHANGED <<cms, pc, run>> PROVE OneInv'
    BY <1>1 DEF OneInv, OneConfigMap, SweptClean, HoldsConfigMap
  <1>2. CASE Informers \/ Spoke
    BY <1>1, <1>2 DEF Informers, SyncBinding, SyncWorks, SyncConfigMaps, Spoke, AgentApplies,
       FluxReconciles, AgentReports
  <1>3. ASSUME NEW n \in ConfigMapName, Timeout(n) PROVE OneInv'
    <2>1. \A m \in ConfigMapName : cms'[m].status = cms[m].status
      BY <1>3 DEF Timeout, TypeOK, ConfigMap
    <2>2. pc \in Holding => run.id \in ConfigMapName
      BY DEF HasName, Holding, TypeOK, RunType
    <2> QED
      BY <1>3, <2>1, <2>2 DEF Timeout, OneInv, OneConfigMap, SweptClean, HoldsConfigMap, Present
  <1>4. CASE Failures
    <2>1. CASE CallFails
      <3>1. \A n \in ConfigMapName : Present(cms'[n]) => Present(cms[n])
        BY <2>1 DEF CallFails, Swept, NoConfigMap, Present
      <3> QED
        BY <2>1, <3>1, FewerConfigMaps, OneEnded DEF CallFails, Again, OneInv
    <2>2. ASSUME UNCHANGED cms, pc' = "idle" PROVE OneInv'
      BY <2>2, OneEnded DEF OneInv, OneConfigMap
    <2>3. ASSUME NEW h \in HelmRelease, AgentFails(h) PROVE OneInv'
      BY <1>1, <2>3 DEF AgentFails
    <2> QED
      BY <1>4, <2>1, <2>2, <2>3 DEF Failures, EnableFails, EnableStopsAt, ReadBackFails,
         StatusUpdate, Restart, Again, Done
  <1>5. CASE Users
    BY <1>1, <1>5 DEF Users, SetVersion, SetStamp, EditBinding, EditValues, EditChart, EditState,
       EditProfile
  <1> QED
    BY <1>2, <1>3, <1>4, <1>5 DEF Clock

\* deleteStaleUpgraderConfigMaps keeps its promise when the ConfigMap cache is
\* up to date: whatever fails and whenever the process restarts, the UI never
\* finds two upgrader ConfigMaps.
THEOREM OneConfigMapCorrect ==
  ASSUME "configmap" \notin Lagging
  PROVE  Spec => []OneConfigMap
  <1>1. Init => Typed /\ OneInv
    BY TypeInit DEF Typed, HasName, Init, OneInv, OneConfigMap, SweptClean, HoldsConfigMap,
       Holding, NoConfigMap, Present
  <1>2. Typed /\ OneInv /\ [Next]_vars => OneInv'
    <2> SUFFICES ASSUME Typed, OneInv, [Next]_vars PROVE OneInv'
      OBVIOUS
    <2>1. CASE UNCHANGED vars
      BY <2>1, OneKept DEF vars
    <2>2. CASE Next
      BY <2>2, OneController, OneOthers DEF Next, Typed
    <2> QED
      BY <2>1, <2>2
  <1>3. OneInv => OneConfigMap
    BY DEF OneInv
  <1> QED
    BY <1>1, <1>2, <1>3, TypedStep, PTL DEF Spec
================================================================================

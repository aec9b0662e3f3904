--------------------------- MODULE UpgradeReadyProofs --------------------------
(***************************************************************************)
(* What "ready" is worth.  First: an upgrade's status update is reached    *)
(* only through a run that saw every release ready.  Second: a mark whose  *)
(* target was derived from exact feedback means that the spoke has the     *)
(* manifest that the hub asks for.                                         *)
(***************************************************************************)
EXTENDS UpgradeRefinementProofs

\* A reconcile's ConfigMap is for the version and, once recorded, for the
\* stamp of the binding it read.
OwnRun ==
    /\ pc \in Holding => run.cm.version = run.b.version
    /\ pc \in {"observe", "finish"} => run.cm.stamp = run.b.stamp

\* A run that ended without an error saw every release ready.
AllReady ==
    pc = "finish" /\ ~run.err => \A h \in HelmRelease : run.cm.data[h]

\* An upgrade goes on to the status update with a completed, ready run.
ReadyAtStatus ==
    /\ pc = "status" /\ run.up
          => \E n \in ConfigMapName : ReadyRun(cms[n], run.b.version, run.b.stamp)
    /\ pc = "enable" => ~run.up

ReadyInv == OwnRun /\ AllReady /\ ReadyAtStatus

\* The steps that leave the reconcile and, but for the deadline, the ConfigMaps
\* alone.
LEMMA ReadyUnnoticed ==
  ASSUME ReadyInv, UNCHANGED <<pc, run>>,
         \A n \in ConfigMapName : Same(cms'[n], cms[n])
  PROVE  ReadyInv'
  BY DEF ReadyInv, OwnRun, AllReady, ReadyAtStatus, ReadyRun, Same

\* The steps that hold no ConfigMap.
LEMMA ReadyOutside ==
  ASSUME pc' \notin Holding \cup {"status", "enable"}
  PROVE  ReadyInv'
  BY DEF ReadyInv, OwnRun, AllReady, ReadyAtStatus, Holding

\* The steps that write the ManifestWorks of an upgrade.
LEMMA ReadyApplying ==
  ASSUME ReadyInv, pc \in Holding, pc' \in {"core", "list", "work"},
         run'.b = run.b, run'.cm = run.cm
  PROVE  ReadyInv'
  BY DEF ReadyInv, OwnRun, AllReady, ReadyAtStatus

\* The observation that ends a run without an error has marked every release.
LEMMA ReadyObserve ==
  ASSUME TypeOK, HasName, "configmap" \notin Lagging, OneInv, CopyInv, ReadyInv,
         NEW unread \in SUBSET ManifestWork, Observe(unread)
  PROVE  ReadyInv'
  <1> DEFINE ready == ReadyNow(unread)
  <1> DEFINE mod == IF NewMarks(ready) THEN Written(run.id, Marked(ready)) ELSE run.cm
  <1>1. CASE pc' = "idle"
    BY <1>1, ReadyOutside DEF Holding
  <1>2. CASE pc' = "finish"
    <2>1. pc = "observe" /\ run' = [run EXCEPT !.cm = mod, !.err = ~(ready = HelmRelease)]
      BY <1>2 DEF Observe, Again
    <2>2. /\ run.id \in ConfigMapName /\ run.cm \in ConfigMap /\ Present(cms[run.id])
          /\ Same(run.cm, cms[run.id])
      BY <2>1, HeldJob DEF CopyInv, CopyExact, Holding
    <2>3. run.cm.version = run.b.version /\ run.cm.stamp = run.b.stamp
      BY <2>1 DEF ReadyInv, OwnRun, Holding
    <2>4. /\ Marked(ready) \in ConfigMap
          /\ Marked(ready).version = run.cm.version /\ Marked(ready).stamp = run.cm.stamp
          /\ ready = HelmRelease => \A h \in HelmRelease : Marked(ready).data[h]
      BY <2>2 DEF Marked, ConfigMap
    <2>5. /\ mod.version = run.b.version /\ mod.stamp = run.b.stamp
          /\ ready = HelmRelease => \A h \in HelmRelease : mod.data[h]
      <3>1. CASE NewMarks(ready)
        <4> DEFINE new == Written(run.id, Marked(ready))
        <4>1. /\ new.version = cms[run.id].version /\ new.stamp = Marked(ready).stamp
              /\ new.data = Marked(ready).data
          BY <2>2, <2>4, WrittenExact
        <4>2. mod = new
          BY <3>1
        <4> HIDE DEF new, mod
        <4> QED
          BY <2>2, <2>3, <2>4, <4>1, <4>2 DEF Same
      <3>2. CASE ~NewMarks(ready)
        BY <2>3, <2>4, <3>2 DEF NewMarks
      <3> QED
        BY <3>1, <3>2
    <2> HIDE DEF mod, ready
    <2>6. run'.b = run.b /\ run'.cm = mod /\ run'.err = ~(ready = HelmRelease)
      BY <2>1 DEF TypeOK, RunType
    <2> QED
      BY <1>2, <2>5, <2>6 DEF ReadyInv, OwnRun, AllReady, ReadyAtStatus
  <1> QED
    BY <1>1, <1>2 DEF Observe, Again

\* finishUpgrade completes the run for the reconcile's version and stamp.
LEMMA ReadyFinish ==
  ASSUME TypeOK, HasName, "configmap" \notin Lagging, OneInv, CopyInv, ReadyInv, FinishUpgrade
  PROVE  ReadyInv'
  <1>1. CASE pc' = "idle"
    BY <1>1, ReadyOutside DEF Holding
  <1>2. CASE pc' = "status"
    <2>1. pc = "finish" /\ run' = run /\ ~run.err
      BY <1>2 DEF FinishUpgrade, Again
    <2>2. /\ run.id \in ConfigMapName /\ run.cm \in ConfigMap /\ Present(cms[run.id])
          /\ Same(run.cm, cms[run.id])
      BY <2>1, HeldJob DEF CopyInv, CopyExact, Holding
    <2>3. /\ Finished \in ConfigMap /\ Finished.status = "completed"
          /\ Finished.stamp = run.cm.stamp /\ Finished.data = run.cm.data
      BY <2>2 DEF Finished, ConfigMap
    <2>4. ReadyRun(Written(run.id, Finished), run.b.version, run.b.stamp)
      <3> DEFINE new == Written(run.id, Finished)
      <3>1. /\ new.status = "completed" /\ new.version = cms[run.id].version
            /\ new.stamp = run.cm.stamp /\ new.data = run.cm.data
        BY <2>2, <2>3, WrittenExact
      <3>2. /\ cms[run.id].version = run.b.version /\ run.cm.stamp = run.b.stamp
            /\ \A h \in HelmRelease : run.cm.data[h]
        BY <2>1, <2>2 DEF Same, ReadyInv, OwnRun, AllReady, Holding
      <3> HIDE DEF new
      <3>3. ReadyRun(new, run.b.version, run.b.stamp)
        BY <3>1, <3>2 DEF ReadyRun
      <3> QED
        BY <3>3 DEF new
    <2>5. cms'[run.id] = Written(run.id, Finished)
      BY <2>2 DEF FinishUpgrade, TypeOK
    <2> QED
      BY <1>2, <2>1, <2>2, <2>4, <2>5 DEF ReadyInv, OwnRun, AllReady, ReadyAtStatus, Holding
  <1> QED
    BY <1>1, <1>2 DEF FinishUpgrade, Again

\* Every step keeps the invariant.
LEMMA ReadyStep ==
  ASSUME TypeOK, HasName, "configmap" \notin Lagging, OneInv, CopyInv, ReadyInv, Next
  PROVE  ReadyInv'
  <1> USE DEF hub, others
  <1>1. ASSUME UNCHANGED <<pc, run, cms>> PROVE ReadyInv'
    BY <1>1, ReadyUnnoticed DEF Same
  <1>2. ASSUME pc' = "idle" PROVE ReadyInv'
    BY <1>2, ReadyOutside DEF Holding
  <1>3. CASE Reconcile
    BY <1>3, ReconcileShape DEF ReadyInv, OwnRun, AllReady, ReadyAtStatus, Holding
  <1>4. CASE FindPending
    <2>1. PICK n \in ConfigMapName :
             /\ Resumable(SeenConfigMaps[n], run.b)
             /\ run' = [run EXCEPT !.id = n, !.cm = SeenConfigMaps[n], !.min = SeenConfigMaps[n].min]
      BY <1>4 DEF FindPending
    <2>2. run'.cm = SeenConfigMaps[n] /\ run'.b = run.b
      BY <2>1 DEF TypeOK, RunType
    <2> QED
      BY <1>4, <2>1, <2>2 DEF FindPending, Resumable, ReadyInv, OwnRun, AllReady, ReadyAtStatus
  <1>5. CASE FindNone \/ Render \/ DeleteStale
    BY <1>5, ReadyOutside DEF FindNone, Render, DeleteStale, Holding
  <1>6. CASE CreateConfigMap
    <2>1. run'.cm = NewConfigMap(run.b.version) /\ run'.b = run.b /\ pc' = "core"
      BY <1>6, CreatedShape
    <2>2. NewConfigMap(run.b.version).version = run.b.version
      BY DEF NewConfigMap, NoConfigMap
    <2> QED
      BY <2>1, <2>2 DEF ReadyInv, OwnRun, AllReady, ReadyAtStatus
  <1>7. CASE PatchCore \/ ListWorks
    BY <1>7, ReadyApplying DEF PatchCore, ListWorks, Holding, TypeOK, RunType
  <1>8. ASSUME NEW w \in ManifestWork, PatchWork(w) PROVE ReadyInv'
    BY <1>8, ReadyApplying DEF PatchWork, Holding, TypeOK, RunType
  <1>9. CASE EnableFeatures
    BY <1>9 DEF EnableFeatures, ReadyInv, OwnRun, AllReady, ReadyAtStatus, Holding
  <1>10. CASE Controller
    BY <1>1, <1>2, <1>3, <1>4, <1>5, <1>6, <1>7, <1>8, <1>9, <1>10, ReadyObserve, ReadyFinish
    DEF Controller, ReconcileNoProfile, ReconcileBadProfile, vars, RenderNoValues,
        FeatureNotFound, RecordPending, ConfigMapUnseen, EnableNotFound, EnableStopsAt,
        UpdateStatus, StatusUpdate, Done, StatusRejected, Again
  <1>11. CASE Failures
    BY <1>1, <1>2, <1>11 DEF Failures, EnableFails, EnableStopsAt, ReadBackFails, StatusUpdate,
       Done, CallFails, Restart, AgentFails, Again
  <1>12. ASSUME NEW n \in ConfigMapName, Timeout(n) PROVE ReadyInv'
    BY <1>12, TimeoutSame, ReadyUnnoticed DEF Timeout
  <1>13. CASE Informers \/ Spoke \/ Users
    BY <1>1, <1>13 DEF Informers, SyncBinding, SyncWorks, SyncConfigMaps, Spoke, AgentApplies,
       FluxReconciles, AgentReports, Users, SetVersion, SetStamp, EditBinding, EditValues,
       EditChart, EditState, EditProfile
  <1> QED
    BY <1>10, <1>11, <1>12, <1>13 DEF Next, Clock

\* The invariants of the refinement.
HeldInv == Typed /\ OneInv /\ CopyInv

\* They hold in every reachable state.
LEMMA HeldCorrect ==
  ASSUME "configmap" \notin Lagging
  PROVE  (Init => HeldInv) /\ (HeldInv /\ [Next]_vars => HeldInv')
  <1>1. Init => HeldInv
    BY TypeInit DEF HeldInv, Typed, HasName, Init, OneInv, OneConfigMap, SweptClean,
       HoldsConfigMap, CopyInv, CopyExact, InPhase, Holding, NoConfigMap, Present
  <1>2. ASSUME HeldInv, [Next]_vars PROVE HeldInv'
    <2>1. Typed'
      BY <1>2, TypedStep DEF HeldInv
    <2>2. CASE UNCHANGED vars
      BY <1>2, <2>1, <2>2, OneKept, CopyKept DEF HeldInv, vars
    <2>3. CASE Next
      BY <1>2, <2>1, <2>3, OneController, OneOthers, CopyController, CopyOthers
      DEF Next, HeldInv, Typed
    <2> QED
      BY <1>2, <2>2, <2>3
  <1> QED
    BY <1>1, <1>2

\* setOpscenterFeaturesVersion ends an upgrade only after a run that reported
\* every release ready for the binding's version and stamp, if the ConfigMap
\* cache is up to date: also when observations were made by several
\* reconciles, with timeouts, failures and restarts in between.
THEOREM NeedClearedCorrect ==
  ASSUME "configmap" \notin Lagging
  PROVE  Spec => NeedClearedByReadyRun
  <1>1. Init => HeldInv /\ ReadyInv
    BY HeldCorrect DEF Init, ReadyInv, OwnRun, AllReady, ReadyAtStatus, Holding
  <1>2. HeldInv /\ ReadyInv /\ [Next]_vars => HeldInv' /\ ReadyInv'
    <2> SUFFICES ASSUME HeldInv, ReadyInv, [Next]_vars PROVE HeldInv' /\ ReadyInv'
      OBVIOUS
    <2>1. HeldInv'
      BY HeldCorrect
    <2>2. CASE UNCHANGED vars
      BY <2>1, <2>2, ReadyUnnoticed DEF vars, Same
    <2>3. CASE Next
      BY <2>1, <2>3, ReadyStep DEF HeldInv, Typed
    <2> QED
      BY <2>2, <2>3
  <1>3. ReadyInv /\ [Next]_vars
           => [ pc = "status" /\ run.up /\ NeedsUpgrade(binding) /\ ~NeedsUpgrade(binding')
                => \E n \in ConfigMapName : ReadyRun(cms[n], run.b.version, run.b.stamp) ]_vars
    BY DEF ReadyInv, ReadyAtStatus
  <1> QED
    BY <1>1, <1>2, <1>3, PTL DEF Spec, NeedClearedByReadyRun
--------------------------------------------------------------------------------

\* No generation is reported before the spoke reached it.
ReportsPast == \A h \in HelmRelease : works[h].fb.gen <= spoke[h].gen

\* For a release whose feedback is exact if e: m, read from the hub, is still
\* its manifest w there and describes the release s on the spoke.
Fresh(e, s, w, m) ==
    /\ m.spec = w.spec
    /\ e => m.fb.gen = s.gen /\ s.spec = w.spec

\* What a reconcile read stays true until it derives the targets from it.
ListFresh ==
    /\ pc \in {"sweep", "create", "core"} =>
          /\ \A h \in HelmRelease : run.list[h].spec = works[h].spec
          /\ Fresh(exact[OpscenterFeatures], spoke[OpscenterFeatures], works[OpscenterFeatures],
                   run.list[OpscenterFeatures])
    /\ pc = "work" =>
          /\ run.list[OpscenterFeatures].spec = works[OpscenterFeatures].spec
          /\ \A h \in HelmRelease \ {OpscenterFeatures} :
                WorkOf[h] \in run.todo => Fresh(exact[h], spoke[h], works[h], run.list[h])

\* The running reconcile has derived or resumed the target of h.
Derived(h) ==
    \/ pc = "list" /\ h = OpscenterFeatures
    \/ pc = "work" /\ (h = OpscenterFeatures \/ WorkOf[h] \notin run.todo)
    \/ pc \in {"observe", "finish"}

\* A ConfigMap that a reconcile may resume.
Pending(m) == m.status = "pending" /\ m.recorded

\* With exact feedback, while the spoke has not got the manifest, the target is
\* ahead of its generation.
Ahead(e, s, w, min) == e /\ s.spec # w.spec => s.gen < min

TargetsAhead ==
    \A h \in HelmRelease :
        /\ Derived(h) => Ahead(exact[h], spoke[h], works[h], run.min[h])
        /\ \A n \in ConfigMapName :
              Pending(cms[n]) => Ahead(exact[h], spoke[h], works[h], cms[n].min[h])

\* The copy of the ConfigMap has the resumed targets.
CopyTargets == pc \in {"observe", "finish"} => run.cm.min = run.min

ExactInv == ReportsPast /\ ListFresh /\ TargetsAhead /\ CopyTargets

\* A patch leaves the feedback alone.
LEMMA PatchedFeedback ==
  ASSUME TypeOK, NEW ws, NEW mod, NEW h \in HelmRelease
  PROVE  Patched(ws, mod)[h].fb = works[h].fb
  BY DEF Patched, TypeOK, Manifest

\* A patch computed from an up-to-date copy leaves the wanted targets.
LEMMA WrittenTargets ==
  ASSUME "configmap" \notin Lagging, TypeOK, NEW n \in ConfigMapName, Present(cms[n]),
         NEW mod \in ConfigMap
  PROVE  Written(n, mod).min = mod.min
  <1>1. cms[n] \in ConfigMap
    BY DEF TypeOK
  <1>2. Written(n, mod) = MergePatch(cms[n], mod, cms[n])
    BY DEF Written, SeenConfigMaps
  <1> QED
    BY <1>1, <1>2 DEF MergePatch, ConfigMap

\* Until recordPendingUpgrade there is no ConfigMap to resume.
LEMMA NonePending ==
  ASSUME TypeOK, HasName, OneInv, CopyInv, pc \in {"core", "list", "work"}
  PROVE  \A n \in ConfigMapName : ~Pending(cms[n])
  <1>1. pc \in Holding
    BY DEF Holding
  <1>2. \A n \in ConfigMapName : Present(cms[n]) => n = run.id
    BY <1>1, HeldJob
  <1>3. ~cms[run.id].recorded
    BY <1>1 DEF CopyInv, CopyExact, InPhase, Same
  <1> QED
    BY <1>2, <1>3 DEF Pending, Present

\* The releases of the spoke: nothing happens to h, or it gets its manifest.
SpokeMoves(h) ==
    \/ spoke'[h].spec = spoke[h].spec /\ spoke'[h].gen = spoke[h].gen
    \/ /\ spoke[h].spec # works[h].spec
       /\ spoke'[h].spec = works[h].spec /\ spoke'[h].gen >= spoke[h].gen

\* What the work agent and flux do.
LEMMA SpokeShape ==
  ASSUME TypeOK, Next
  PROVE  \A h \in HelmRelease : SpokeMoves(h)
  <1> USE DEF hub, others
  <1>1. ASSUME UNCHANGED spoke PROVE \A h \in HelmRelease : SpokeMoves(h)
    BY <1>1 DEF SpokeMoves
  <1>2. ASSUME NEW k \in HelmRelease, AgentApplies(k) PROVE \A h \in HelmRelease : SpokeMoves(h)
    <2>1. spoke[k] \in Release /\ spoke[k].gen \in Nat
      BY DEF TypeOK, Release
    <2>2. CASE works[k].spec # spoke[k].spec
      <3>1. spoke' = [spoke EXCEPT ![k].gen = spoke[k].gen + 1, ![k].spec = works[k].spec]
        BY <1>2, <2>2 DEF AgentApplies, TypeOK
      <3>2. \A h \in HelmRelease : h # k => spoke'[h] = spoke[h]
        BY <3>1 DEF TypeOK
      <3>3. spoke'[k].spec = works[k].spec /\ spoke'[k].gen = spoke[k].gen + 1
        BY <2>1, <3>1 DEF TypeOK, Release
      <3> QED
        BY <2>1, <2>2, <3>2, <3>3 DEF SpokeMoves
    <2>3. CASE works[k].spec = spoke[k].spec
      <3>1. spoke' = [spoke EXCEPT ![k].gen = spoke[k].gen, ![k].spec = spoke[k].spec]
        BY <1>2, <2>3 DEF AgentApplies, TypeOK
      <3>2. \A h \in HelmRelease : spoke'[h].spec = spoke[h].spec /\ spoke'[h].gen = spoke[h].gen
        BY <2>1, <3>1 DEF TypeOK, Release
      <3> QED
        BY <3>2 DEF SpokeMoves
    <2> QED
      BY <2>2, <2>3
  <1>3. ASSUME NEW k \in HelmRelease, FluxReconciles(k) PROVE \A h \in HelmRelease : SpokeMoves(h)
    <2>1. \A h \in HelmRelease : spoke'[h].spec = spoke[h].spec /\ spoke'[h].gen = spoke[h].gen
      BY <1>3 DEF FluxReconciles, TypeOK, Release
    <2> QED
      BY <2>1 DEF SpokeMoves
  <1>4. CASE Controller
    BY <1>1, <1>4
    DEF Controller, Reconcile, ReconcileNoProfile, ReconcileBadProfile, vars, FindPending,
        FindNone, Render, RenderNoValues, DeleteStale, CreateConfigMap, PatchCore, ListWorks,
        PatchWork, FeatureNotFound, RecordPending, ConfigMapUnseen, Observe, FinishUpgrade,
        EnableFeatures, EnableNotFound, EnableStopsAt, UpdateStatus, StatusUpdate, StatusRejected
  <1>5. CASE Failures
    BY <1>1, <1>5 DEF Failures, EnableFails, EnableStopsAt, ReadBackFails, StatusUpdate, CallFails,
       Restart, AgentFails
  <1>6. CASE Informers \/ Clock \/ Users
    BY <1>1, <1>6 DEF Informers, SyncBinding, SyncWorks, SyncConfigMaps, Clock, Timeout, Users,
       SetVersion, SetStamp, EditBinding, EditValues, EditChart, EditState, EditProfile
  <1>7. CASE Spoke
    BY <1>1, <1>2, <1>3, <1>7 DEF Spoke, AgentReports
  <1> QED
    BY <1>4, <1>5, <1>6, <1>7 DEF Next

\* Feedback follows the spoke.
LEMMA ReportsStep ==
  ASSUME TypeOK, TypeOK', ReportsPast, Next
  PROVE  ReportsPast'
  <1> USE DEF hub, others
  <1>1. \A h \in HelmRelease :
           /\ works[h].fb.gen \in Nat /\ spoke[h].gen \in Nat /\ spoke'[h].gen \in Nat
           /\ works[h].fb.gen <= spoke[h].gen /\ spoke[h].gen <= spoke'[h].gen
    <2>1. \A h \in HelmRelease :
             /\ works[h].fb.gen \in Nat /\ spoke[h].gen \in Nat /\ spoke'[h].gen \in Nat
             /\ works[h].fb.gen <= spoke[h].gen
      BY DEF TypeOK, Manifest, Feedback, Release, ReportsPast
    <2> QED
      BY <2>1, SpokeShape DEF SpokeMoves
  <1>2. ASSUME \A h \in HelmRelease : works'[h].fb.gen = works[h].fb.gen
        PROVE  ReportsPast'
    BY <1>1, <1>2 DEF ReportsPast
  <1>3. ASSUME UNCHANGED works PROVE ReportsPast'
    BY <1>2, <1>3
  <1>4. ASSUME NEW ws, NEW mod, works' = Patched(ws, mod) PROVE ReportsPast'
    BY <1>2, <1>4, PatchedFeedback
  <1>5. ASSUME NEW k \in HelmRelease, AgentApplies(k) \/ AgentFails(k) PROVE ReportsPast'
    <2>1. works[k] \in Manifest /\ works[k].fb \in Feedback
      BY DEF TypeOK, Manifest
    <2>2. \E b : works' = [works EXCEPT ![k].fb.applied = b]
      BY <1>5 DEF AgentApplies, AgentFails
    <2>3. \A h \in HelmRelease : works'[h].fb.gen = works[h].fb.gen
      BY <2>1, <2>2 DEF TypeOK, Manifest, Feedback
    <2> QED
      BY <1>2, <2>3
  <1>6. ASSUME NEW k \in HelmRelease, AgentReports(k) PROVE ReportsPast'
    <2> DEFINE fb == [Report(spoke[k], works[k].rules) EXCEPT !.applied = works[k].fb.applied]
    <2>1. works' = [works EXCEPT ![k].fb = fb] /\ UNCHANGED spoke
      BY <1>6 DEF AgentReports
    <2>2. fb.gen = IF works[k].rules THEN spoke[k].gen ELSE 0
      BY DEF Report
    <2> HIDE DEF fb
    <2>3. works[k] \in Manifest
      BY DEF TypeOK
    <2>4. \A h \in HelmRelease : works'[h].fb = IF h = k THEN fb ELSE works[h].fb
      BY <2>1, <2>3 DEF TypeOK, Manifest
    <2> QED
      BY <1>1, <2>1, <2>2, <2>4 DEF ReportsPast
  <1>7. CASE Controller
    BY <1>3, <1>4, <1>7
    DEF Controller, Reconcile, ReconcileNoProfile, ReconcileBadProfile, vars, FindPending,
        FindNone, Render, RenderNoValues, DeleteStale, CreateConfigMap, PatchCore, ListWorks,
        PatchWork, FeatureNotFound, RecordPending, ConfigMapUnseen, Observe, FinishUpgrade,
        EnableFeatures, EnableNotFound, EnableStopsAt, Installs, UpdateStatus, StatusUpdate,
        StatusRejected
  <1>8. CASE Failures
    BY <1>3, <1>4, <1>5, <1>8 DEF Failures, EnableFails, EnableStopsAt, Installs, ReadBackFails,
       StatusUpdate, CallFails, Restart
  <1>9. CASE Informers \/ Clock \/ Users
    BY <1>3, <1>9 DEF Informers, SyncBinding, SyncWorks, SyncConfigMaps, Clock, Timeout, Users,
       SetVersion, SetStamp, EditBinding, EditValues, EditChart, EditState, EditProfile
  <1>10. CASE Spoke
    BY <1>3, <1>5, <1>6, <1>10 DEF Spoke, FluxReconciles
  <1> QED
    BY <1>7, <1>8, <1>9, <1>10 DEF Next

\* The invariant but for the feedback.
TargetInv == ListFresh /\ TargetsAhead /\ CopyTargets

\* Whatever happens to a release on the spoke, its target stays ahead and what
\* was read of it stays fresh.
LEMMA MovesKeep ==
  ASSUME TypeOK, TypeOK', NEW h \in HelmRelease, SpokeMoves(h),
         works'[h].spec = works[h].spec, exact'[h] => exact[h]
  PROVE  /\ \A min \in Nat : Ahead(exact[h], spoke[h], works[h], min)
                                => Ahead(exact'[h], spoke'[h], works'[h], min)
         /\ \A m : Fresh(exact[h], spoke[h], works[h], m)
                      => Fresh(exact'[h], spoke'[h], works'[h], m)
  BY DEF SpokeMoves, Ahead, Fresh

\* The steps of the others.
LEMMA ExactUnnoticed ==
  ASSUME TypeOK, TypeOK', TargetInv, UNCHANGED <<pc, run, exact>>, SameSpecs,
         \A h \in HelmRelease : SpokeMoves(h),
         \A n \in ConfigMapName : Pending(cms'[n]) => Pending(cms[n]) /\ cms'[n].min = cms[n].min
  PROVE  TargetInv'
  <1>1. \A h \in HelmRelease :
           /\ \A min \in Nat : Ahead(exact[h], spoke[h], works[h], min)
                                  => Ahead(exact'[h], spoke'[h], works'[h], min)
           /\ \A m : Fresh(exact[h], spoke[h], works[h], m)
                        => Fresh(exact'[h], spoke'[h], works'[h], m)
    BY MovesKeep DEF SameSpecs
  <1>2. run.min \in [HelmRelease -> Nat]
    BY DEF TypeOK, RunType
  <1>3. \A n \in ConfigMapName : cms[n].min \in [HelmRelease -> Nat]
    BY DEF TypeOK, ConfigMap
  <1>4. ListFresh'
    BY <1>1, ReleaseAssumption DEF TargetInv, ListFresh, SameSpecs
  <1>5. TargetsAhead'
    BY <1>1, <1>2, <1>3 DEF TargetInv, TargetsAhead, Derived
  <1> QED
    BY <1>4, <1>5 DEF TargetInv, CopyTargets

\* The steps after which the reconcile has no targets in memory.
LEMMA ExactOutside ==
  ASSUME TypeOK, TypeOK', TargetInv,
         pc' \notin {"sweep", "create", "core", "list", "work", "observe", "finish"},
         \A h \in HelmRelease : exact'[h] => exact[h] /\ works'[h].spec = works[h].spec,
         UNCHANGED spoke,
         \A n \in ConfigMapName : Pending(cms'[n]) => Pending(cms[n]) /\ cms'[n].min = cms[n].min
  PROVE  TargetInv'
  <1>1. ListFresh' /\ CopyTargets'
    BY DEF ListFresh, CopyTargets
  <1>2. \A h \in HelmRelease : ~Derived(h)'
    BY DEF Derived
  <1>3. ASSUME NEW h \in HelmRelease, NEW n \in ConfigMapName, Pending(cms'[n])
        PROVE  Ahead(exact'[h], spoke'[h], works'[h], cms'[n].min[h])
    BY <1>3 DEF TargetInv, TargetsAhead, Ahead
  <1> QED
    BY <1>1, <1>2, <1>3 DEF TargetInv, TargetsAhead

\* applyUpgrade reads opscenter-core.
LEMMA ExactRender ==
  ASSUME TypeOK, "work" \notin Lagging, TargetInv, Render
  PROVE  TargetInv'
  <1>1. /\ run'.list = works /\ pc' = "sweep"
        /\ UNCHANGED <<works, spoke, cms>>
    BY DEF Render, SeenWorks, hub, TypeOK, RunType
  <1>2. \A h \in HelmRelease :
           exact'[h] = IF h = OpscenterFeatures THEN InStep(h) ELSE exact[h]
    BY DEF Render, TypeOK
  <1>3. InStep(OpscenterFeatures) =>
           /\ works[OpscenterFeatures].fb.gen = spoke[OpscenterFeatures].gen
           /\ works[OpscenterFeatures].spec = spoke[OpscenterFeatures].spec
    BY DEF InStep, SeenWorks
  <1>4. ListFresh'
    BY <1>1, <1>2, <1>3, ReleaseAssumption DEF ListFresh, Fresh
  <1>5. TargetsAhead'
    BY <1>1, <1>2, <1>3 DEF TargetInv, TargetsAhead, Derived, Ahead
  <1> QED
    BY <1>1, <1>4, <1>5 DEF TargetInv, CopyTargets

\* The ConfigMap is replaced before the targets are derived.
LEMMA ExactReplace ==
  ASSUME TypeOK, TargetInv, DeleteStale \/ CreateConfigMap
  PROVE  TargetInv'
  <1>1. /\ run'.list = run.list
        /\ pc \in {"sweep", "create"} /\ pc' \in {"create", "core"}
        /\ UNCHANGED <<works, spoke, exact>>
    <2>1. CASE DeleteStale
      BY <2>1 DEF DeleteStale, others
    <2>2. CASE CreateConfigMap
      BY <2>2 DEF CreateConfigMap, others, TypeOK, RunType
    <2> QED
      BY <2>1, <2>2
  <1>2. \A n \in ConfigMapName : Pending(cms'[n]) => Pending(cms[n]) /\ cms'[n] = cms[n]
    <2>1. CASE DeleteStale
      BY <2>1 DEF DeleteStale, Swept, Pending, NoConfigMap
    <2>2. CASE CreateConfigMap
      <3>1. PICK k \in ConfigMapName : cms' = [cms EXCEPT ![k] = NewConfigMap(run.b.version)]
        BY <2>2, CreatedShape
      <3>2. ~NewConfigMap(run.b.version).recorded
        BY DEF NewConfigMap, NoConfigMap
      <3> QED
        BY <3>1, <3>2 DEF TypeOK, Pending
    <2> QED
      BY <2>1, <2>2
  <1>3. ListFresh'
    BY <1>1 DEF TargetInv, ListFresh
  <1>4. TargetsAhead'
    BY <1>1, <1>2 DEF TargetInv, TargetsAhead, Derived
  <1> QED
    BY <1>1, <1>3, <1>4 DEF TargetInv, CopyTargets

\* newUpgradeTarget: a target derived from fresh feedback is ahead of the spoke
\* unless the spoke has the rendered manifest already.
LEMMA TargetAhead ==
  ASSUME NEW e, NEW s \in Release, NEW w, NEW m \in Manifest, NEW w2,
         Fresh(e, s, w, m)
  PROVE  Ahead(e, s, w2, MinGeneration(m, w2.spec))
  BY DEF Ahead, Fresh, MinGeneration, Release, Manifest, Feedback

\* Rewritten releases get the rendered spec, the others keep the listed one.
LEMMA RewrittenSpec ==
  ASSUME TypeOK, NEW hs, NEW h \in HelmRelease
  PROVE  Rewritten(hs)[h].spec = IF h \in hs THEN Rendered(h, run.b.version, run.p.rev)
                                             ELSE run.list[h].spec
  <1>1. run.list[h] \in Manifest
    BY DEF TypeOK, RunType
  <1> QED
    BY <1>1 DEF Rewritten, Manifest

\* The patch of opscenter-core derives the target of opscenter-features.
LEMMA ExactPatchCore ==
  ASSUME TypeOK, HasName, "work" \notin Lagging, OneInv, CopyInv, TargetInv, PatchCore
  PROVE  TargetInv'
  <1> DEFINE mod == Rewritten({OpscenterFeatures})
  <1>1. /\ pc = "core" /\ pc' = "list"
        /\ works' = Patched({Core}, mod)
        /\ run'.min = Targets({OpscenterFeatures})
        /\ UNCHANGED <<spoke, exact, cms>>
    BY DEF PatchCore, others, TypeOK, RunType
  <1>2. OpscenterFeatures \in HelmRelease /\ mod \in [HelmRelease -> Manifest]
    BY ReleaseAssumption, RewrittenType
  <1>3. \A n \in ConfigMapName : ~Pending(cms'[n])
    BY <1>1, NonePending
  <1>4. works'[OpscenterFeatures].spec = Rendered(OpscenterFeatures, run.b.version, run.p.rev)
    <2>1. mod[OpscenterFeatures].spec = Rendered(OpscenterFeatures, run.b.version, run.p.rev)
      BY <1>2, RewrittenSpec
    <2> HIDE DEF mod
    <2>2. Patched({Core}, mod)[OpscenterFeatures].spec = mod[OpscenterFeatures].spec
      BY <1>2, PatchedSpec DEF Core
    <2> QED
      BY <1>1, <2>1, <2>2
  <1>5. run'.min[OpscenterFeatures]
           = MinGeneration(run.list[OpscenterFeatures], works'[OpscenterFeatures].spec)
    BY <1>1, <1>2, <1>4 DEF Targets
  <1>6. Ahead(exact[OpscenterFeatures], spoke[OpscenterFeatures], works'[OpscenterFeatures],
              run'.min[OpscenterFeatures])
    <2>1. /\ spoke[OpscenterFeatures] \in Release
          /\ run.list[OpscenterFeatures] \in Manifest
      BY <1>2 DEF TypeOK, RunType
    <2>2. Fresh(exact[OpscenterFeatures], spoke[OpscenterFeatures], works[OpscenterFeatures],
                run.list[OpscenterFeatures])
      BY <1>1 DEF TargetInv, ListFresh
    <2> QED
      BY <1>5, <2>1, <2>2, TargetAhead
  <1> HIDE DEF mod
  <1>7. TargetsAhead'
    BY <1>1, <1>3, <1>6 DEF TargetsAhead, Derived
  <1> QED
    BY <1>1, <1>7 DEF TargetInv, ListFresh, CopyTargets

\* All ManifestWorks are read.
LEMMA ExactList ==
  ASSUME TypeOK, HasName, "work" \notin Lagging, OneInv, CopyInv, TargetInv, ListWorks
  PROVE  TargetInv'
  <1>1. /\ pc = "list" /\ pc' = "work"
        /\ run'.list = works /\ run'.todo = ManifestWork /\ run'.min = run.min
        /\ UNCHANGED <<works, spoke, cms>>
    BY DEF ListWorks, hub, SeenWorks, TypeOK, RunType
  <1>2. \A n \in ConfigMapName : ~Pending(cms'[n])
    BY <1>1, NonePending
  <1>3. \A h \in HelmRelease :
           exact'[h] = IF h = OpscenterFeatures THEN exact[h] ELSE InStep(h)
    BY DEF ListWorks
  <1>4. \A h \in HelmRelease : InStep(h) =>
           works[h].fb.gen = spoke[h].gen /\ works[h].spec = spoke[h].spec
    BY DEF InStep, SeenWorks
  <1>5. ListFresh'
    BY <1>1, <1>3, <1>4 DEF ListFresh, Fresh
  <1>6. TargetsAhead'
    <2>1. \A h \in HelmRelease : WorkOf[h] \in run'.todo
      BY <1>1, ReleaseAssumption
    <2> QED
      BY <1>1, <1>2, <1>3, <2>1 DEF TargetInv, TargetsAhead, Derived
  <1> QED
    BY <1>1, <1>5, <1>6 DEF TargetInv, CopyTargets

\* The patch of a ManifestWork derives the targets of its features and leaves
\* opscenter-features as it was listed.
LEMMA ExactPatchWork ==
  ASSUME TypeOK, HasName, "work" \notin Lagging, OneInv, CopyInv, TargetInv,
         NEW w \in ManifestWork, PatchWork(w)
  PROVE  TargetInv'
  <1> DEFINE mod == Rewritten(Features(w))
  <1>1. /\ pc = "work" /\ pc' = "work" /\ w \in run.todo
        /\ works' = Patched({w}, mod)
        /\ run'.min = Targets(Features(w))
        /\ run'.todo = run.todo \ {w} /\ run'.list = run.list
        /\ UNCHANGED <<spoke, exact, cms>>
    BY DEF PatchWork, others, TypeOK, RunType
  <1>2. mod \in [HelmRelease -> Manifest]
    BY RewrittenType
  <1>3. \A n \in ConfigMapName : ~Pending(cms'[n])
    BY <1>1, NonePending
  <1>4. /\ run.list[OpscenterFeatures].spec = works[OpscenterFeatures].spec
        /\ \A h \in HelmRelease \ {OpscenterFeatures} :
              WorkOf[h] \in run.todo => Fresh(exact[h], spoke[h], works[h], run.list[h])
    BY <1>1 DEF TargetInv, ListFresh
  <1>5. \A h \in HelmRelease :
           works'[h].spec = IF h \in Features(w) THEN Rendered(h, run.b.version, run.p.rev)
                                                 ELSE works[h].spec
    <2> TAKE h \in HelmRelease
    <2>1. mod[h].spec = IF h \in Features(w) THEN Rendered(h, run.b.version, run.p.rev)
                                             ELSE run.list[h].spec
      BY RewrittenSpec
    <2> HIDE DEF mod
    <2>2. Patched({w}, mod)[h].spec = IF WorkOf[h] \in {w} THEN mod[h].spec ELSE works[h].spec
      BY <1>2, PatchedSpec
    <2> QED
      BY <1>1, <1>4, <2>1, <2>2 DEF Features, In
  <1> HIDE DEF mod
  <1>6. \A h \in HelmRelease : h \notin Features(w) => run'.min[h] = run.min[h]
    BY <1>1 DEF Targets
  <1>7. \A h \in Features(w) :
           Ahead(exact[h], spoke[h], works'[h], run'.min[h])
    <2> TAKE h \in Features(w)
    <2>1. h \in HelmRelease \ {OpscenterFeatures} /\ WorkOf[h] = w
      BY DEF Features, In
    <2>2. run'.min[h] = MinGeneration(run.list[h], works'[h].spec)
      BY <1>1, <1>5, <2>1 DEF Targets
    <2>3. spoke[h] \in Release /\ run.list[h] \in Manifest
      BY <2>1 DEF TypeOK, RunType
    <2>4. Fresh(exact[h], spoke[h], works[h], run.list[h])
      BY <1>1, <1>4, <2>1
    <2> QED
      BY <2>2, <2>3, <2>4, TargetAhead
  <1>8. ListFresh'
    <2>1. works'[OpscenterFeatures].spec = works[OpscenterFeatures].spec
      BY <1>5, ReleaseAssumption DEF Features
    <2>2. \A h \in HelmRelease \ {OpscenterFeatures} :
             WorkOf[h] \in run'.todo => Fresh(exact[h], spoke[h], works'[h], run.list[h])
      BY <1>1, <1>4, <1>5 DEF Features, In, Fresh
    <2> QED
      BY <1>1, <1>4, <2>1, <2>2 DEF ListFresh
  <1>9. TargetsAhead'
    <2>1. ASSUME NEW h \in HelmRelease, Derived(h)', h \notin Features(w)
          PROVE  Ahead(exact[h], spoke[h], works'[h], run'.min[h])
      <3>1. Derived(h)
        BY <1>1, <2>1 DEF Derived, Features, In
      <3>2. Ahead(exact[h], spoke[h], works[h], run.min[h])
        BY <3>1 DEF TargetInv, TargetsAhead
      <3> QED
        BY <1>5, <1>6, <2>1, <3>2 DEF Ahead
    <2> QED
      BY <1>1, <1>3, <1>7, <2>1 DEF TargetsAhead
  <1> QED
    BY <1>1, <1>8, <1>9 DEF TargetInv, CopyTargets

\* recordPendingUpgrade stores the targets once all are derived.
LEMMA ExactRecord ==
  ASSUME TypeOK, HasName, "configmap" \notin Lagging, OneInv, CopyInv, TargetInv, RecordPending
  PROVE  TargetInv'
  <1> DEFINE mod == [run.cm EXCEPT !.recorded = TRUE, !.min = run.min, !.stamp = run.b.stamp]
  <1>1. /\ pc = "work" /\ run.todo = {} /\ pc' = "idle"
        /\ cms' = [cms EXCEPT ![run.id] = Written(run.id, mod)]
        /\ UNCHANGED <<works, spoke, exact>>
    BY DEF RecordPending, Again, others
  <1>2. run.id \in ConfigMapName /\ Present(cms[run.id])
    BY <1>1, HeldJob DEF Holding
  <1>3. mod \in ConfigMap
    BY DEF TypeOK, RunType, ConfigMap, Binding
  <1>4. mod.min = run.min
    BY DEF TypeOK, RunType, ConfigMap
  <1> HIDE DEF mod
  <1>5. cms'[run.id].min = run.min
    BY <1>1, <1>2, <1>3, <1>4, WrittenTargets DEF TypeOK
  <1>6. \A n \in ConfigMapName : n # run.id => ~Pending(cms'[n])
    BY <1>1, NonePending DEF TypeOK
  <1>7. \A h \in HelmRelease : Ahead(exact[h], spoke[h], works[h], run.min[h])
    BY <1>1 DEF TargetInv, TargetsAhead, Derived
  <1>8. TargetsAhead'
    BY <1>1, <1>5, <1>6, <1>7 DEF TargetsAhead, Derived
  <1> QED
    BY <1>1, <1>8 DEF TargetInv, ListFresh, CopyTargets

\* findPendingUpgrade reads the targets back.
LEMMA ExactFind ==
  ASSUME TypeOK, "configmap" \notin Lagging, TargetInv, FindPending
  PROVE  TargetInv'
  <1>1. PICK n \in ConfigMapName :
           /\ Resumable(SeenConfigMaps[n], run.b)
           /\ run' = [run EXCEPT !.id = n, !.cm = SeenConfigMaps[n], !.min = SeenConfigMaps[n].min]
    BY DEF FindPending
  <1>2. Pending(cms[n])
    BY <1>1 DEF Resumable, Pending, SeenConfigMaps
  <1>3. run'.cm = cms[n] /\ run'.min = cms[n].min
    BY <1>1 DEF TypeOK, RunType, SeenConfigMaps
  <1>4. pc' = "observe" /\ UNCHANGED <<works, spoke, exact, cms>>
    BY DEF FindPending, hub, others
  <1>5. TargetsAhead'
    BY <1>2, <1>3, <1>4 DEF TargetInv, TargetsAhead
  <1> QED
    BY <1>3, <1>4, <1>5 DEF TargetInv, ListFresh, CopyTargets

\* Marks leave the targets alone.
LEMMA ExactObserve ==
  ASSUME TypeOK, HasName, "configmap" \notin Lagging, OneInv, CopyInv, TargetInv,
         NEW unread \in SUBSET ManifestWork, Observe(unread)
  PROVE  TargetInv'
  <1> DEFINE ready == ReadyNow(unread)
  <1> DEFINE mod == IF NewMarks(ready) THEN Written(run.id, Marked(ready)) ELSE run.cm
  <1>1. /\ pc = "observe"
        /\ cms' = IF NewMarks(ready) THEN [cms EXCEPT ![run.id] = mod] ELSE cms
        /\ UNCHANGED <<works, spoke, exact>>
    BY DEF Observe, others
  <1>2. /\ run.id \in ConfigMapName /\ Present(cms[run.id]) /\ run.cm \in ConfigMap
    BY <1>1, HeldJob DEF Holding
  <1>3. Marked(ready) \in ConfigMap /\ Marked(ready).min = run.cm.min
    BY <1>2 DEF Marked, ConfigMap
  <1>4. mod.min = run.min
    BY <1>1, <1>2, <1>3, WrittenTargets DEF TargetInv, CopyTargets
  <1>5. \/ pc' = "idle"
        \/ pc' = "finish" /\ run' = [run EXCEPT !.cm = mod, !.err = ~(ready = HelmRelease)]
    BY DEF Observe, Again
  <1> HIDE DEF mod, ready
  <1>6. pc' = "finish" => run'.cm = mod /\ run'.min = run.min
    BY <1>5 DEF TypeOK, RunType
  <1>7. \A h \in HelmRelease : Ahead(exact[h], spoke[h], works[h], run.min[h])
    BY <1>1 DEF TargetInv, TargetsAhead, Derived
  <1>8. \A n \in ConfigMapName : cms'[n].min = run.min \/ cms'[n] = cms[n]
    BY <1>1, <1>2, <1>4 DEF TypeOK
  <1>9. TargetsAhead'
    <2>1. \A h \in HelmRelease : Derived(h)' => Ahead(exact'[h], spoke'[h], works'[h], run'.min[h])
      BY <1>1, <1>5, <1>6, <1>7 DEF Derived
    <2>2. ASSUME NEW h \in HelmRelease, NEW n \in ConfigMapName, Pending(cms'[n])
          PROVE  Ahead(exact'[h], spoke'[h], works'[h], cms'[n].min[h])
      BY <1>1, <1>7, <1>8, <2>2 DEF TargetInv, TargetsAhead
    <2> QED
      BY <2>1, <2>2 DEF TargetsAhead
  <1> QED
    BY <1>4, <1>5, <1>6, <1>9 DEF TargetInv, ListFresh, CopyTargets

\* Every step keeps the targets ahead.
LEMMA ExactStep ==
  ASSUME TypeOK, TypeOK', HasName, "configmap" \notin Lagging, "work" \notin Lagging, OneInv,
         CopyInv, TargetInv, Next
  PROVE  TargetInv'
  <1> USE DEF hub, others
  <1> DEFINE SameTargets ==
        \A n \in ConfigMapName : Pending(cms'[n]) => Pending(cms[n]) /\ cms'[n].min = cms[n].min
  <1>1. ASSUME UNCHANGED cms PROVE SameTargets
    BY <1>1
  <1>2. ASSUME UNCHANGED <<pc, run, exact, cms>>, SameSpecs PROVE TargetInv'
    BY <1>2, ExactUnnoticed, SpokeShape
  <1>3. ASSUME pc' \notin {"sweep", "create", "core", "list", "work", "observe", "finish"},
               UNCHANGED <<works, exact, spoke>>, SameTargets
        PROVE  TargetInv'
    BY <1>3, ExactOutside
  <1>4. ASSUME Again, UNCHANGED <<works, exact, spoke, cms>> PROVE TargetInv'
    BY <1>1, <1>3, <1>4 DEF Again
  <1>5. ASSUME NEW ws, InstallsSome(ws) PROVE TargetInv'
    <2>1. \A h \in HelmRelease : exact'[h] => exact[h] /\ works'[h].spec = works[h].spec
      BY <1>5 DEF InstallsSome, Forgets
    <2>2. pc' \in {"status", "idle"} /\ UNCHANGED <<spoke, cms>>
      BY <1>5 DEF InstallsSome
    <2> QED
      BY <1>1, <2>1, <2>2, ExactOutside
  <1>6. ASSUME NEW ws, EnableStopsAt(ws) PROVE InstallsSome(ws)
    BY <1>6 DEF EnableStopsAt, InstallsSome, Again
  <1>7. CASE Reconcile
    <2>1. pc' \in {"find", "enable", "status"} /\ UNCHANGED cms
      BY <1>7, ReconcileShape
    <2> QED
      BY <1>1, <1>3, <1>7, <2>1 DEF Reconcile
  <1>8. CASE ReconcileNoProfile \/ ReconcileBadProfile
    BY <1>2, <1>8 DEF ReconcileNoProfile, ReconcileBadProfile, vars, SameSpecs
  <1>9. CASE FindNone
    BY <1>1, <1>3, <1>9 DEF FindNone
  <1>10. CASE FinishUpgrade
    <2>1. pc = "finish" /\ pc' \in {"status", "idle"} /\ UNCHANGED <<works, exact, spoke>>
      BY <1>10 DEF FinishUpgrade, Again
    <2>2. run.id \in ConfigMapName /\ Present(cms[run.id]) /\ run.cm \in ConfigMap
      BY <2>1, HeldJob DEF Holding
    <2>3. Finished \in ConfigMap /\ Finished.status = "completed"
      BY <2>2 DEF Finished, ConfigMap
    <2>4. Written(run.id, Finished).status = "completed"
      BY <2>2, <2>3, WrittenExact
    <2>5. SameTargets
      BY <1>10, <2>2, <2>4 DEF FinishUpgrade, Pending, TypeOK
    <2> QED
      BY <1>3, <2>1, <2>5
  <1>11. CASE EnableFeatures
    <2>1. InstallsSome(ManifestWork)
      BY <1>11 DEF EnableFeatures, InstallsSome
    <2> QED
      BY <1>5, <2>1
  <1>12. ASSUME NEW o, StatusUpdate(o) PROVE TargetInv'
    BY <1>1, <1>3, <1>12 DEF StatusUpdate, Done
  <1>13. CASE RenderNoValues \/ ConfigMapUnseen \/ StatusRejected
    BY <1>4, <1>13 DEF RenderNoValues, ConfigMapUnseen, StatusRejected
  <1>14. ASSUME NEW w \in ManifestWork, FeatureNotFound(w) PROVE TargetInv'
    BY <1>4, <1>14 DEF FeatureNotFound
  <1>15. CASE Controller
    BY <1>5, <1>6, <1>7, <1>8, <1>9, <1>10, <1>11, <1>12, <1>13, <1>14, <1>15, ExactRender,
       ExactReplace, ExactPatchCore, ExactList, ExactPatchWork, ExactRecord, ExactFind,
       ExactObserve
    DEF Controller, EnableNotFound, UpdateStatus
  <1>16. CASE CallFails
    <2>1. SameTargets
      BY <1>1, <1>16 DEF CallFails, Swept, NoConfigMap, Pending
    <2> QED
      BY <1>3, <1>16, <2>1 DEF CallFails, Again
  <1>17. ASSUME NEW h \in HelmRelease,
                AgentFails(h) \/ AgentApplies(h) \/ FluxReconciles(h) \/ AgentReports(h)
         PROVE  TargetInv'
    <2>1. UNCHANGED <<pc, run, exact, cms>>
      BY <1>17 DEF AgentFails, AgentApplies, FluxReconciles, AgentReports
    <2>2. SameSpecs
      BY <1>17, AgentKeepsSpecs DEF FluxReconciles, SameSpecs
    <2> QED
      BY <1>2, <2>1, <2>2
  <1>18. CASE Failures
    BY <1>4, <1>5, <1>6, <1>12, <1>16, <1>17, <1>18
    DEF Failures, EnableFails, ReadBackFails, Restart
  <1>19. ASSUME NEW n \in ConfigMapName, Timeout(n) PROVE TargetInv'
    <2>1. SameTargets
      BY <1>19 DEF Timeout, Pending, TypeOK, ConfigMap
    <2>2. SameSpecs
      BY <1>19 DEF Timeout, SameSpecs
    <2> QED
      BY <1>19, <2>1, <2>2, ExactUnnoticed, SpokeShape DEF Timeout
  <1>20. CASE Informers \/ Users
    BY <1>2, <1>20 DEF Informers, SyncBinding, SyncWorks, SyncConfigMaps, Users, SetVersion,
       SetStamp, EditBinding, EditValues, EditChart, EditState, EditProfile, SameSpecs
  <1> QED
    BY <1>15, <1>17, <1>18, <1>19, <1>20 DEF Next, Spoke, Clock

\* Only evaluateTargets marks releases, and only those it finds ready.
LEMMA MarksReady ==
  ASSUME TypeOK, HasName, "configmap" \notin Lagging, OneInv, CopyInv, Next,
         NEW n \in ConfigMapName, NEW h \in HelmRelease, Marks(n, h)
  PROVE  \E unread \in SUBSET ManifestWork : Observe(unread) /\ h \in ReadyNow(unread)
  <1> USE DEF hub, others
  <1>1. cms'[n] # cms[n] /\ cms'[n].data[h]
    BY DEF Marks
  <1>2. ASSUME NEW gone, cms' = Swept(gone) PROVE FALSE
    BY <1>1, <1>2 DEF Swept, NoConfigMap
  <1>3. ASSUME NEW mod \in ConfigMap, pc \in Holding, mod.data = run.cm.data,
               cms' = [cms EXCEPT ![run.id] = Written(run.id, mod)]
        PROVE  FALSE
    <2>1. /\ run.id \in ConfigMapName /\ Present(cms[run.id])
          /\ run.cm.data = cms[run.id].data
      BY <1>3, HeldJob DEF CopyInv, CopyExact, Same
    <2>2. Written(run.id, mod).data = cms[run.id].data
      BY <1>3, <2>1, WrittenExact
    <2>3. cms'[n].data = cms[n].data
      BY <1>3, <2>1, <2>2 DEF TypeOK
    <2> QED
      BY <2>3 DEF Marks
  <1>4. CASE RecordPending
    <2> DEFINE mod == [run.cm EXCEPT !.recorded = TRUE, !.min = run.min, !.stamp = run.b.stamp]
    <2>1. mod \in ConfigMap /\ mod.data = run.cm.data
      BY DEF TypeOK, RunType, ConfigMap, Binding
    <2>2. cms' = [cms EXCEPT ![run.id] = Written(run.id, mod)] /\ pc \in Holding
      BY <1>4 DEF RecordPending, Holding
    <2> HIDE DEF mod
    <2> QED
      BY <1>3, <2>1, <2>2
  <1>5. CASE FinishUpgrade
    <2>1. Finished \in ConfigMap /\ Finished.data = run.cm.data
      BY DEF Finished, TypeOK, RunType, ConfigMap
    <2> QED
      BY <1>3, <1>5, <2>1 DEF FinishUpgrade, Holding
  <1>6. CASE CreateConfigMap
    <2>1. PICK k \in ConfigMapName : cms' = [cms EXCEPT ![k] = NewConfigMap(run.b.version)]
      BY <1>6, CreatedShape
    <2>2. ~NewConfigMap(run.b.version).data[h]
      BY DEF NewConfigMap, NoConfigMap
    <2> QED
      BY <1>1, <2>1, <2>2 DEF TypeOK
  <1>7. ASSUME NEW unread \in SUBSET ManifestWork, Observe(unread)
        PROVE  h \in ReadyNow(unread)
    <2> DEFINE ready == ReadyNow(unread)
    <2>1. NewMarks(ready) /\ pc \in Holding
      BY <1>1, <1>7 DEF Observe, Holding
    <2>2. cms' = [cms EXCEPT ![run.id] = Written(run.id, Marked(ready))]
      BY <1>7, <2>1 DEF Observe
    <2>3. /\ run.id \in ConfigMapName /\ Present(cms[run.id]) /\ run.cm \in ConfigMap
          /\ run.cm.data = cms[run.id].data
      BY <2>1, HeldJob DEF CopyInv, CopyExact, Same
    <2>4. /\ Marked(ready) \in ConfigMap
          /\ Marked(ready).data[h] = (run.cm.data[h] \/ h \in ready)
      BY <2>3 DEF Marked, ConfigMap
    <2>5. Written(run.id, Marked(ready)).data = Marked(ready).data
      BY <2>3, <2>4, WrittenExact
    <2> HIDE DEF ready
    <2>6. n = run.id
      BY <1>1, <2>2 DEF TypeOK
    <2>7. cms'[n].data[h] = Marked(ready).data[h]
      BY <2>2, <2>3, <2>5, <2>6 DEF TypeOK
    <2>8. ~run.cm.data[h]
      BY <2>3, <2>6 DEF Marks
    <2> QED
      BY <1>1, <2>4, <2>7, <2>8 DEF ready
  <1>8. CASE Controller
    BY <1>1, <1>2, <1>4, <1>5, <1>6, <1>7, <1>8
    DEF Controller, Reconcile, ReconcileNoProfile, ReconcileBadProfile, vars, FindPending,
        FindNone, Render, RenderNoValues, DeleteStale, PatchCore, ListWorks, PatchWork,
        FeatureNotFound, ConfigMapUnseen, EnableFeatures, EnableNotFound, EnableStopsAt,
        UpdateStatus, StatusUpdate, StatusRejected
  <1>9. CASE Failures
    BY <1>1, <1>2, <1>9 DEF Failures, EnableFails, EnableStopsAt, ReadBackFails, StatusUpdate,
       CallFails, Restart, AgentFails
  <1>10. ASSUME NEW k \in ConfigMapName, Timeout(k) PROVE FALSE
    BY <1>10, TimeoutSame DEF Marks, Same
  <1>11. CASE Informers \/ Spoke \/ Users
    BY <1>1, <1>11 DEF Informers, SyncBinding, SyncWorks, SyncConfigMaps, Spoke, AgentApplies,
       FluxReconciles, AgentReports, Users, SetVersion, SetStamp, EditBinding, EditValues,
       EditChart, EditState, EditProfile
  <1> QED
    BY <1>8, <1>9, <1>10, <1>11 DEF Next, Clock

\* A release found ready with exact feedback runs the hub's manifest.
LEMMA ReadyIsExact ==
  ASSUME TypeOK, HasName, "configmap" \notin Lagging, "work" \notin Lagging, OneInv, CopyInv,
         ExactInv, Next, NEW n \in ConfigMapName, NEW h \in HelmRelease, Marks(n, h), exact[h]
  PROVE  spoke[h].spec = works[h].spec
  <1>1. PICK unread \in SUBSET ManifestWork : Observe(unread) /\ h \in ReadyNow(unread)
    BY MarksReady
  <1>2. works[h].fb.gen >= run.min[h]
    BY <1>1 DEF ReadyNow, HelmReleaseReady, SeenWorks
  <1>3. Ahead(exact[h], spoke[h], works[h], run.min[h])
    BY <1>1 DEF Observe, ExactInv, TargetsAhead, Derived
  <1>4. works[h].fb.gen <= spoke[h].gen
    BY DEF ExactInv, ReportsPast
  <1>5. works[h].fb.gen \in Nat /\ spoke[h].gen \in Nat /\ run.min[h] \in Nat
    BY DEF TypeOK, Manifest, Feedback, Release, RunType
  <1> QED
    BY <1>2, <1>3, <1>4, <1>5 DEF Ahead

\* The initial state: nothing is exact, and the reported generation is the
\* spoke's or none.
LEMMA ExactInit == Init => ExactInv
  <1> SUFFICES ASSUME Init PROVE ExactInv
    OBVIOUS
  <1>1. ReportsPast
    <2> SUFFICES ASSUME NEW h \in HelmRelease PROVE works[h].fb.gen <= spoke[h].gen
      BY DEF ReportsPast
    <2>1. spoke[h].gen = 1
      BY DEF Init
    <2>2. works[h].fb = Report(spoke[h], ~OldBuild)
      BY DEF Init
    <2>3. works[h].fb.gen = IF ~OldBuild THEN spoke[h].gen ELSE 0
      BY <2>2 DEF Report
    <2> QED
      BY <2>1, <2>3
  <1>2. ListFresh /\ CopyTargets
    BY DEF Init, ListFresh, CopyTargets
  <1>3. TargetsAhead
    BY DEF Init, TargetsAhead, Ahead
  <1> QED
    BY <1>1, <1>2, <1>3 DEF ExactInv

\* MinGeneration proves what its comment says, if the caches of ManifestWorks
\* and ConfigMaps are up to date: a release whose target was derived from exact
\* feedback is marked ready only when the spoke has the manifest that the hub
\* asks for, in whatever order edits, agent, flux, feedback, failures and
\* restarts happen.
THEOREM ExactReadyCorrect ==
  ASSUME "configmap" \notin Lagging, "work" \notin Lagging
  PROVE  Spec => ExactReady
  <1>1. Init => HeldInv /\ ExactInv
    BY HeldCorrect, ExactInit
  <1>2. HeldInv /\ ExactInv /\ [Next]_vars => HeldInv' /\ ExactInv'
    <2> SUFFICES ASSUME HeldInv, ExactInv, [Next]_vars PROVE HeldInv' /\ ExactInv'
      OBVIOUS
    <2>1. HeldInv'
      BY HeldCorrect
    <2>2. CASE UNCHANGED vars
      BY <2>1, <2>2 DEF vars, ExactInv, ReportsPast, ListFresh, TargetsAhead, Derived, CopyTargets
    <2>3. CASE Next
      BY <2>1, <2>3, ExactStep, ReportsStep DEF HeldInv, Typed, ExactInv, TargetInv
    <2> QED
      BY <2>2, <2>3
  <1>3. HeldInv /\ ExactInv /\ [Next]_vars
           => [\A n \in ConfigMapName, h \in HelmRelease :
                  Marks(n, h) /\ exact[h] => spoke[h].spec = works[h].spec]_vars
    BY ReadyIsExact DEF HeldInv, Typed
  <1> QED
    BY <1>1, <1>2, <1>3, PTL DEF Spec, ExactReady
================================================================================

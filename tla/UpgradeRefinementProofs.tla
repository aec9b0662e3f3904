----------------------- MODULE UpgradeRefinementProofs -------------------------
(***************************************************************************)
(* Upgrade implements UpgradeJob whenever the ConfigMap cache is up to     *)
(* date.  Beside the invariants of UpgradeProofs the proof needs that the  *)
(* reconciler's copy of the ConfigMap is the one on the server, and in     *)
(* which phase of its run each step finds it.                              *)
(***************************************************************************)
EXTENDS UpgradeRefinement, UpgradeProofs

\* m and c differ at most in whether the deadline has passed.
Same(m, c) ==
    /\ m.status = c.status /\ m.version = c.version /\ m.stamp = c.stamp
    /\ m.recorded = c.recorded /\ m.data = c.data

CopyExact == pc \in Holding => Same(run.cm, cms[run.id])

InPhase ==
    /\ pc \in {"core", "list", "work"} => run.cm.status = "pending" /\ ~run.cm.recorded
    /\ pc \in {"observe", "finish"} => run.cm.status = "pending" /\ run.cm.recorded

CopyInv == CopyExact /\ InPhase
--------------------------------------------------------------------------------
\* With one ConfigMap there is one job to read.
LEMMA JobOfTheOne ==
  ASSUME NEW maps, NEW n \in ConfigMapName, Present(maps[n]),
         \A m \in ConfigMapName : Present(maps[m]) => m = n
  PROVE  JobIn(maps) = JobOf(maps[n])
  <1>1. There(maps) = {n}
    BY DEF There
  <1>2. (CHOOSE m \in There(maps) : TRUE) = n
    BY <1>1
  <1> QED
    BY <1>1, <1>2 DEF JobIn

\* Without one there is no job.
LEMMA NoJobThere ==
  ASSUME NEW maps, \A m \in ConfigMapName : ~Present(maps[m])
  PROVE  JobIn(maps) = Abstract!NoJob
  BY DEF JobIn, There, Abstract!NoJob

\* A patch computed from an up-to-date copy leaves what was wanted.
LEMMA WrittenExact ==
  ASSUME "configmap" \notin Lagging, TypeOK, NEW n \in ConfigMapName, Present(cms[n]),
         NEW mod \in ConfigMap
  PROVE  LET w == Written(n, mod)
         IN  /\ w \in ConfigMap
             /\ w.status = mod.status /\ w.stamp = mod.stamp
             /\ w.recorded = mod.recorded /\ w.data = mod.data
             /\ w.version = cms[n].version
  <1> DEFINE w == Written(n, mod)
  <1>1. cms[n] \in ConfigMap /\ w \in ConfigMap
    BY WrittenType DEF TypeOK
  <1>2. w = MergePatch(cms[n], mod, cms[n])
    BY DEF Written, SeenConfigMaps
  <1>3. /\ w.status = mod.status /\ w.stamp = mod.stamp
        /\ w.recorded = mod.recorded /\ w.version = cms[n].version
    BY <1>1, <1>2 DEF MergePatch, ConfigMap
  <1>4. w.data = [h \in HelmRelease |->
                     IF mod.data[h] # cms[n].data[h] THEN mod.data[h] ELSE cms[n].data[h]]
    BY <1>1, <1>2 DEF MergePatch, ConfigMap
  <1>5. w.data = mod.data
    BY <1>4 DEF ConfigMap
  <1> QED
    BY <1>1, <1>3, <1>5

\* A reconcile that holds a ConfigMap holds the only one.
LEMMA HeldJob ==
  ASSUME TypeOK, HasName, OneInv, pc \in Holding
  PROVE  /\ run.id \in ConfigMapName /\ run.cm \in ConfigMap
         /\ Present(cms[run.id]) /\ cms[run.id] \in ConfigMap
         /\ \A m \in ConfigMapName : Present(cms[m]) => m = run.id
         /\ Job = JobOf(cms[run.id])
  <1>1. run.id \in ConfigMapName /\ run.cm \in ConfigMap
    BY DEF HasName, Holding, TypeOK, RunType
  <1>2. Present(cms[run.id]) /\ cms[run.id] \in ConfigMap
    BY <1>1 DEF OneInv, HoldsConfigMap, TypeOK
  <1>3. \A m \in ConfigMapName : Present(cms[m]) => m = run.id
    BY <1>1, <1>2 DEF OneInv, OneConfigMap
  <1> QED
    BY <1>1, <1>2, <1>3, JobOfTheOne DEF Job
--------------------------------------------------------------------------------
(***************************************************************************)
(* The copy is kept.                                                       *)
(***************************************************************************)

\* The steps that leave the ConfigMap and its copy alone.
LEMMA CopyKept ==
  ASSUME CopyInv, UNCHANGED cms, run'.id = run.id, run'.cm = run.cm,
         pc' \in Holding => pc \in Holding,
         pc' \in {"core", "list", "work"} => pc \in {"core", "list", "work"},
         pc' \in {"observe", "finish"} => pc \in {"observe", "finish"}
  PROVE  CopyInv'
  BY DEF CopyInv, CopyExact, InPhase, Same

\* The steps that hold no ConfigMap.
LEMMA CopyEnded == ASSUME pc' \notin Holding PROVE CopyInv'
  BY DEF CopyInv, CopyExact, InPhase, Holding

\* The reconciler's steps keep its copy in step with the server.
LEMMA CopyController ==
  ASSUME TypeOK, HasName, "configmap" \notin Lagging, OneInv, CopyInv, Controller
  PROVE  CopyInv'
  <1> USE DEF hub, others
  <1>1. ASSUME Again PROVE CopyInv'
    BY <1>1, CopyEnded DEF Again, Holding
  <1>2. CASE Reconcile
    <2>1. pc' \in {"find", "enable", "status"}
      BY <1>2 DEF Reconcile, Branch
    <2> QED
      BY <2>1, CopyEnded DEF Holding
  <1>3. CASE ReconcileNoProfile \/ ReconcileBadProfile
    BY <1>3, CopyKept DEF ReconcileNoProfile, ReconcileBadProfile, vars
  <1>4. CASE FindPending
    <2>1. PICK n \in ConfigMapName :
             /\ Resumable(SeenConfigMaps[n], run.b)
             /\ run' = [run EXCEPT !.id = n, !.cm = SeenConfigMaps[n], !.min = SeenConfigMaps[n].min]
      BY <1>4 DEF FindPending
    <2>2. run'.id = n /\ run'.cm = cms[n]
      BY <2>1 DEF TypeOK, RunType, SeenConfigMaps
    <2>3. cms[n].status = "pending" /\ cms[n].recorded
      BY <2>1 DEF Resumable, SeenConfigMaps
    <2>4. pc' = "observe" /\ UNCHANGED cms
      BY <1>4 DEF FindPending
    <2> QED
      BY <2>2, <2>3, <2>4 DEF CopyInv, CopyExact, InPhase, Same
  <1>5. CASE FindNone \/ Render \/ DeleteStale
    BY <1>5, CopyEnded DEF FindNone, Render, DeleteStale, Holding
  <1>6. CASE RenderNoValues \/ ConfigMapUnseen \/ StatusRejected \/ RecordPending
    BY <1>1, <1>6 DEF RenderNoValues, ConfigMapUnseen, StatusRejected, RecordPending
  <1>7. CASE CreateConfigMap
    <2> DEFINE n == CHOOSE n \in Unused : TRUE
    <2>1. n \in ConfigMapName
      BY <1>7 DEF CreateConfigMap, Unused
    <2>2. NewConfigMap(run.b.version).status = "pending" /\ ~NewConfigMap(run.b.version).recorded
      BY DEF NewConfigMap, NoConfigMap
    <2>3. /\ cms' = [cms EXCEPT ![n] = NewConfigMap(run.b.version)]
          /\ run' = [run EXCEPT !.id = n, !.cm = NewConfigMap(run.b.version)]
          /\ pc' = "core"
      BY <1>7 DEF CreateConfigMap
    <2> HIDE DEF n
    <2>4. run'.id = n /\ run'.cm = NewConfigMap(run.b.version)
      BY <2>3 DEF TypeOK, RunType
    <2>5. cms'[n] = NewConfigMap(run.b.version)
      BY <2>1, <2>3 DEF TypeOK
    <2> QED
      BY <2>2, <2>3, <2>4, <2>5 DEF CopyInv, CopyExact, InPhase, Same
  <1>8. CASE PatchCore \/ ListWorks
    BY <1>8, CopyKept DEF PatchCore, ListWorks, TypeOK, RunType, Holding
  <1>9. ASSUME NEW w \in ManifestWork, PatchWork(w) \/ FeatureNotFound(w) PROVE CopyInv'
    <2>1. CASE PatchWork(w)
      BY <2>1, CopyKept DEF PatchWork, TypeOK, RunType
    <2>2. CASE FeatureNotFound(w)
      BY <1>1, <2>2 DEF FeatureNotFound
    <2> QED
      BY <1>9, <2>1, <2>2
  <1>10. ASSUME NEW unread \in SUBSET ManifestWork, Observe(unread) PROVE CopyInv'
    <2> DEFINE ready == ReadyNow(unread)
    <2> DEFINE new == Written(run.id, Marked(ready))
    <2>1. /\ run.id \in ConfigMapName /\ Present(cms[run.id]) /\ Same(run.cm, cms[run.id])
          /\ run.cm \in ConfigMap /\ run.cm.status = "pending" /\ run.cm.recorded
      BY <1>10, HeldJob DEF Observe, Holding, CopyInv, CopyExact, InPhase
    <2>2. /\ Marked(ready) \in ConfigMap
          /\ Marked(ready).status = "pending" /\ Marked(ready).recorded
      BY <2>1 DEF Marked, ConfigMap
    <2>3. new.status = "pending" /\ new.recorded
      BY <2>1, <2>2, WrittenExact
    <2>4. CASE pc' = "idle"
      BY <2>4, CopyEnded DEF Holding
    <2>5. CASE pc' = "finish" /\ NewMarks(ready)
      <3>1. run' = [run EXCEPT !.cm = new, !.err = ~(ready = HelmRelease)]
        BY <1>10, <2>5 DEF Observe, Again
      <3>2. cms' = [cms EXCEPT ![run.id] = new]
        BY <1>10, <2>5 DEF Observe
      <3> HIDE DEF new
      <3>3. run'.id = run.id /\ run'.cm = new /\ cms'[run.id] = new
        BY <2>1, <3>1, <3>2 DEF TypeOK, RunType
      <3> QED
        BY <2>3, <2>5, <3>3 DEF CopyInv, CopyExact, InPhase, Same
    <2>6. CASE pc' = "finish" /\ ~NewMarks(ready)
      <3>1. run' = [run EXCEPT !.cm = run.cm, !.err = ~(ready = HelmRelease)]
        BY <1>10, <2>6 DEF Observe, Again
      <3>2. cms' = cms
        BY <1>10, <2>6 DEF Observe
      <3>3. run'.id = run.id /\ run'.cm = run.cm
        BY <3>1 DEF TypeOK, RunType
      <3> QED
        BY <2>1, <2>6, <3>2, <3>3 DEF CopyInv, CopyExact, InPhase, Same
    <2> QED
      BY <1>10, <2>4, <2>5, <2>6 DEF Observe, Again
  <1>11. CASE FinishUpgrade \/ EnableFeatures \/ UpdateStatus
    BY <1>11, CopyEnded DEF FinishUpgrade, EnableFeatures, UpdateStatus, StatusUpdate, Done,
       Again, Holding
  <1>12. ASSUME NEW ws \in SUBSET ManifestWork, EnableNotFound(ws) PROVE CopyInv'
    BY <1>1, <1>12 DEF EnableNotFound, EnableStopsAt
  <1> QED
    BY <1>2, <1>3, <1>4, <1>5, <1>6, <1>7, <1>8, <1>9, <1>10, <1>11, <1>12 DEF Controller

\* The deadline of a ConfigMap passes; nothing else of it changes.
LEMMA TimeoutSame ==
  ASSUME TypeOK, NEW n \in ConfigMapName, Timeout(n), NEW m \in ConfigMapName
  PROVE  Same(cms'[m], cms[m])
  BY DEF Timeout, TypeOK, ConfigMap, Same

\* Nobody else writes the ConfigMap while a reconcile holds it.
LEMMA CopyOthers ==
  ASSUME TypeOK, HasName, OneInv, CopyInv, Informers \/ Spoke \/ Clock \/ Failures \/ Users
  PROVE  CopyInv'
  <1> USE DEF hub, others
  <1>1. ASSUME UNCHANGED <<cms, pc, run>> PROVE CopyInv'
    BY <1>1, CopyKept
  <1>2. CASE Informers \/ Spoke
    BY <1>1, <1>2 DEF Informers, SyncBinding, SyncWorks, SyncConfigMaps, Spoke, AgentApplies,
       FluxReconciles, AgentReports
  <1>3. ASSUME NEW n \in ConfigMapName, Timeout(n) PROVE CopyInv'
    <2>1. pc' = pc /\ run' = run
      BY <1>3 DEF Timeout
    <2>2. ASSUME pc \in Holding PROVE Same(run.cm, cms'[run.id])
      BY <1>3, <2>2, HeldJob, TimeoutSame DEF CopyInv, CopyExact, Same
    <2> QED
      BY <2>1, <2>2 DEF CopyInv, CopyExact, InPhase
  <1>4. CASE Failures
    <2>1. ASSUME NEW h \in HelmRelease, AgentFails(h) PROVE CopyInv'
      BY <1>1, <2>1 DEF AgentFails
    <2> QED
      BY <1>4, <2>1, CopyEnded DEF Failures, EnableFails, EnableStopsAt, ReadBackFails,
         StatusUpdate, Restart, CallFails, Again, Done, Holding
  <1>5. CASE Users
    BY <1>1, <1>5 DEF Users, SetVersion, SetStamp, EditBinding, EditValues, EditChart, EditState,
       EditProfile
  <1> QED
    BY <1>2, <1>3, <1>4, <1>5 DEF Clock
--------------------------------------------------------------------------------
(***************************************************************************)
(* Every step of Upgrade is a step of the job or leaves it alone.          *)
(***************************************************************************)

\* A patch of the held ConfigMap is the job's new state.
LEMMA PatchedJob ==
  ASSUME TypeOK, HasName, "configmap" \notin Lagging, OneInv, pc \in Holding,
         NEW mod \in ConfigMap, Present(mod),
         cms' = [cms EXCEPT ![run.id] = Written(run.id, mod)]
  PROVE  Job' = JobOf([mod EXCEPT !.version = cms[run.id].version])
  <1> DEFINE w == Written(run.id, mod)
  <1>1. /\ run.id \in ConfigMapName /\ Present(cms[run.id]) /\ cms[run.id] \in ConfigMap
        /\ \A m \in ConfigMapName : Present(cms[m]) => m = run.id
    BY HeldJob
  <1>2. /\ w.status = mod.status /\ w.stamp = mod.stamp /\ w.recorded = mod.recorded
        /\ w.data = mod.data /\ w.version = cms[run.id].version
    BY <1>1, WrittenExact
  <1>3. \A m \in ConfigMapName : cms'[m] = IF m = run.id THEN w ELSE cms[m]
    BY DEF TypeOK
  <1> HIDE DEF w
  <1>4. Present(cms'[run.id]) /\ \A m \in ConfigMapName : Present(cms'[m]) => m = run.id
    BY <1>1, <1>2, <1>3 DEF Present
  <1>5. cms'[run.id] = w
    BY <1>1, <1>3
  <1>6. JobIn(cms') = JobOf(cms'[run.id])
    BY <1>1, <1>4, JobOfTheOne
  <1>7. Job' = JobOf(w)
    BY <1>5, <1>6 DEF Job
  <1> QED
    BY <1>2, <1>7 DEF JobOf, ConfigMap

\* recordPendingUpgrade launches the announced job.
LEMMA RecordLaunches ==
  ASSUME TypeOK, HasName, "configmap" \notin Lagging, OneInv, CopyInv, RecordPending
  PROVE  Abstract!Launch(run.b.stamp) /\ run.b.stamp \in Stamp \cup {0}
  <1> DEFINE mod == [run.cm EXCEPT !.recorded = TRUE, !.min = run.min, !.stamp = run.b.stamp]
  <1>1. pc \in Holding /\ cms' = [cms EXCEPT ![run.id] = Written(run.id, mod)]
    BY DEF RecordPending, Holding
  <1>2. /\ run.cm \in ConfigMap /\ cms[run.id] \in ConfigMap /\ Job = JobOf(cms[run.id])
        /\ Same(run.cm, cms[run.id]) /\ run.cm.status = "pending" /\ ~run.cm.recorded
    BY <1>1, HeldJob DEF RecordPending, CopyInv, CopyExact, InPhase
  <1>3. run.b.stamp \in Stamp \cup {0} /\ run.min \in [HelmRelease -> Nat]
    BY DEF TypeOK, RunType, Binding
  <1>4. /\ mod \in ConfigMap /\ mod.status = "pending" /\ mod.recorded
        /\ mod.stamp = run.b.stamp /\ mod.data = cms[run.id].data
    BY <1>2, <1>3 DEF ConfigMap, Same
  <1> HIDE DEF mod
  <1>5. Job' = JobOf([mod EXCEPT !.version = cms[run.id].version])
    BY <1>1, <1>4, PatchedJob DEF Present
  <1>6. Job' = [phase |-> "waiting", version |-> {cms[run.id].version},
                stamp |-> {run.b.stamp}, ready |-> {h \in HelmRelease : cms[run.id].data[h]}]
    BY <1>4, <1>5 DEF JobOf, ConfigMap
  <1>7. Job = [phase |-> "announced", version |-> {cms[run.id].version},
               stamp |-> {}, ready |-> {h \in HelmRelease : cms[run.id].data[h]}]
    BY <1>2 DEF JobOf, Same, ConfigMap
  <1> QED
    BY <1>3, <1>6, <1>7 DEF Abstract!Launch

\* evaluateTargets marks releases of the waiting job.
LEMMA ObserveMarks ==
  ASSUME TypeOK, HasName, "configmap" \notin Lagging, OneInv, CopyInv,
         NEW unread \in SUBSET ManifestWork, Observe(unread)
  PROVE  UNCHANGED Job \/ Abstract!Mark(ReadyNow(unread))
  <1> DEFINE ready == ReadyNow(unread)
  <1>1. pc \in Holding
    BY DEF Observe, Holding
  <1>2. CASE ~NewMarks(ready)
    BY <1>2 DEF Observe, Job
  <1>3. CASE NewMarks(ready)
    <2>1. cms' = [cms EXCEPT ![run.id] = Written(run.id, Marked(ready))]
      BY <1>3 DEF Observe
    <2>2. /\ run.cm \in ConfigMap /\ cms[run.id] \in ConfigMap /\ Job = JobOf(cms[run.id])
          /\ Same(run.cm, cms[run.id]) /\ run.cm.status = "pending" /\ run.cm.recorded
      BY <1>1, HeldJob DEF Observe, CopyInv, CopyExact, InPhase
    <2>3. /\ Marked(ready) \in ConfigMap /\ Marked(ready).status = "pending"
          /\ Marked(ready).recorded /\ Marked(ready).stamp = cms[run.id].stamp
          /\ Marked(ready).data = [h \in HelmRelease |-> cms[run.id].data[h] \/ h \in ready]
      BY <2>2 DEF Marked, ConfigMap, Same
    <2>4. Job' = JobOf([Marked(ready) EXCEPT !.version = cms[run.id].version])
      BY <1>1, <2>1, <2>3, PatchedJob DEF Present
    <2> HIDE DEF ready
    <2>5. Job' = [phase |-> "waiting", version |-> {cms[run.id].version},
                  stamp |-> {cms[run.id].stamp},
                  ready |-> {h \in HelmRelease : Marked(ready).data[h]}]
      BY <2>3, <2>4 DEF JobOf, ConfigMap
    <2>6. Job = [phase |-> "waiting", version |-> {cms[run.id].version},
                 stamp |-> {cms[run.id].stamp}, ready |-> {h \in HelmRelease : cms[run.id].data[h]}]
      BY <2>2 DEF JobOf, Same, ConfigMap
    <2>7. ready \subseteq HelmRelease
      BY DEF ready, ReadyNow
    <2>8. {h \in HelmRelease : Marked(ready).data[h]}
             = {h \in HelmRelease : cms[run.id].data[h]} \cup ready
      BY <2>3, <2>7
    <2>9. Job.phase = "waiting" /\ Job' = [Job EXCEPT !.ready = @ \cup ready]
      <3>1. ASSUME NEW v, NEW t, NEW old, NEW more
            PROVE  LET job == [phase |-> "waiting", version |-> v, stamp |-> t, ready |-> old]
                   IN  /\ job.phase = "waiting"
                       /\ [job EXCEPT !.ready = @ \cup more]
                             = [phase |-> "waiting", version |-> v, stamp |-> t,
                                ready |-> old \cup more]
        OBVIOUS
      <3> DEFINE old == {h \in HelmRelease : cms[run.id].data[h]}
      <3>2. Job = [phase |-> "waiting", version |-> {cms[run.id].version},
                   stamp |-> {cms[run.id].stamp}, ready |-> old]
        BY <2>6
      <3>3. Job' = [phase |-> "waiting", version |-> {cms[run.id].version},
                    stamp |-> {cms[run.id].stamp}, ready |-> old \cup ready]
        BY <2>5, <2>8, Zenon
      <3> HIDE DEF old
      <3> QED
        BY <3>1, <3>2, <3>3
    <2> QED
      BY <2>9 DEF Abstract!Mark, ready
  <1> QED
    BY <1>2, <1>3

\* finishUpgrade closes the waiting job.
LEMMA FinishCloses ==
  ASSUME TypeOK, HasName, "configmap" \notin Lagging, OneInv, CopyInv, FinishUpgrade
  PROVE  Abstract!Close
  <1>1. pc \in Holding /\ cms' = [cms EXCEPT ![run.id] = Written(run.id, Finished)]
    BY DEF FinishUpgrade, Holding
  <1>2. /\ run.cm \in ConfigMap /\ cms[run.id] \in ConfigMap /\ Job = JobOf(cms[run.id])
        /\ Same(run.cm, cms[run.id]) /\ run.cm.status = "pending" /\ run.cm.recorded
    BY <1>1, HeldJob DEF FinishUpgrade, CopyInv, CopyExact, InPhase
  <1>3. /\ Finished \in ConfigMap /\ Finished.status = "completed"
        /\ Finished.stamp = cms[run.id].stamp /\ Finished.data = cms[run.id].data
    BY <1>2 DEF Finished, ConfigMap, Same
  <1>4. Job' = JobOf([Finished EXCEPT !.version = cms[run.id].version])
    BY <1>1, <1>3, PatchedJob DEF Present
  <1>5. Job' = [phase |-> "closed", version |-> {cms[run.id].version},
                stamp |-> {cms[run.id].stamp}, ready |-> {h \in HelmRelease : cms[run.id].data[h]}]
    BY <1>3, <1>4 DEF JobOf, ConfigMap
  <1>6. Job = [phase |-> "waiting", version |-> {cms[run.id].version},
               stamp |-> {cms[run.id].stamp}, ready |-> {h \in HelmRelease : cms[run.id].data[h]}]
    BY <1>2 DEF JobOf, Same, ConfigMap
  <1>7. Job.phase = "waiting"
    BY <1>6
  <1>8. Job' = [Job EXCEPT !.phase = "closed"]
    <2>1. PICK rs : rs = {h \in HelmRelease : cms[run.id].data[h]}
      OBVIOUS
    <2>2. Job' = [phase |-> "closed", version |-> {cms[run.id].version},
                  stamp |-> {cms[run.id].stamp}, ready |-> rs]
      BY <1>5, <2>1
    <2>3. Job = [phase |-> "waiting", version |-> {cms[run.id].version},
                 stamp |-> {cms[run.id].stamp}, ready |-> rs]
      BY <1>6, <2>1
    <2> QED
      BY <2>2, <2>3
  <1> QED
    BY <1>7, <1>8 DEF Abstract!Close

\* createConfigMapInSpokeClusterNamespace announces a job.
LEMMA CreateAnnounces ==
  ASSUME TypeOK, OneInv, CreateConfigMap
  PROVE  Abstract!Announce(run.b.version) /\ run.b.version \in Version \cup {0}
  <1> DEFINE n == CHOOSE n \in Unused : TRUE
  <1> DEFINE new == NewConfigMap(run.b.version)
  <1>1. n \in ConfigMapName /\ \A m \in ConfigMapName : ~Present(cms[m])
    BY DEF CreateConfigMap, Unused, OneInv, SweptClean
  <1>2. cms' = [cms EXCEPT ![n] = new]
    BY DEF CreateConfigMap
  <1>3. /\ new.status = "pending" /\ ~new.recorded /\ new.version = run.b.version
        /\ new.data = [h \in HelmRelease |-> FALSE]
    BY DEF NewConfigMap, NoConfigMap
  <1> HIDE DEF n, new
  <1>4. \A m \in ConfigMapName : cms'[m] = IF m = n THEN new ELSE cms[m]
    BY <1>2 DEF TypeOK
  <1>5. Present(cms'[n]) /\ \A m \in ConfigMapName : Present(cms'[m]) => m = n
    BY <1>1, <1>3, <1>4 DEF Present
  <1>6. Job' = JobOf(new)
    BY <1>1, <1>4, <1>5, JobOfTheOne DEF Job
  <1>7. Job' = [phase |-> "announced", version |-> {run.b.version}, stamp |-> {}, ready |-> {}]
    BY <1>3, <1>6 DEF JobOf
  <1>8. Job = Abstract!NoJob
    BY <1>1, NoJobThere DEF Job
  <1>9. run.b.version \in Version \cup {0}
    BY DEF TypeOK, RunType, Binding
  <1> QED
    BY <1>7, <1>8, <1>9 DEF Abstract!Announce, Abstract!NoJob

\* Removing ConfigMaps, when there is one at most, discards its job.
LEMMA SweepDiscards ==
  ASSUME TypeOK, OneInv, NEW gone, cms' = Swept(gone)
  PROVE  UNCHANGED Job \/ Abstract!Discard
  <1>1. \A m \in ConfigMapName : cms'[m] = IF m \in gone THEN NoConfigMap ELSE cms[m]
    BY DEF Swept
  <1>2. \A m \in ConfigMapName : Present(cms'[m]) => Present(cms[m]) /\ cms'[m] = cms[m]
    BY <1>1 DEF Present, NoConfigMap
  <1>3. CASE \A m \in ConfigMapName : ~Present(cms'[m])
    <2>1. JobIn(cms') = Abstract!NoJob
      BY <1>3, NoJobThere
    <2>2. Job' = Abstract!NoJob
      BY <2>1 DEF Job
    <2> QED
      BY <2>2 DEF Abstract!Discard
  <1>4. ASSUME NEW n \in ConfigMapName, Present(cms'[n]) PROVE UNCHANGED Job
    <2>1. Present(cms[n]) /\ cms'[n] = cms[n]
      BY <1>2, <1>4
    <2>2. \A m \in ConfigMapName : Present(cms[m]) => m = n
      BY <2>1 DEF OneInv, OneConfigMap
    <2>3. \A m \in ConfigMapName : Present(cms'[m]) => m = n
      BY <1>2, <2>2
    <2>4. JobIn(cms) = JobOf(cms[n])
      BY <2>1, <2>2, JobOfTheOne
    <2>5. JobIn(cms') = JobOf(cms'[n])
      BY <1>4, <2>3, JobOfTheOne
    <2> QED
      BY <2>1, <2>4, <2>5 DEF Job
  <1> QED
    BY <1>3, <1>4

\* A deadline is not part of the job.
LEMMA TimeoutKeeps ==
  ASSUME TypeOK, OneInv, NEW n \in ConfigMapName, Timeout(n)
  PROVE  UNCHANGED Job
  <1>1. Present(cms[n]) /\ \A m \in ConfigMapName : Present(cms[m]) => m = n
    BY DEF Timeout, Present, OneInv, OneConfigMap
  <1>2. \A m \in ConfigMapName : Same(cms'[m], cms[m])
    BY TimeoutSame
  <1>3. Present(cms'[n]) /\ \A m \in ConfigMapName : Present(cms'[m]) => m = n
    BY <1>1, <1>2 DEF Same, Present
  <1>4. JobIn(cms) = JobOf(cms[n])
    BY <1>1, JobOfTheOne
  <1>5. JobIn(cms') = JobOf(cms'[n])
    BY <1>3, JobOfTheOne
  <1>6. JobOf(cms'[n]) = JobOf(cms[n])
    BY <1>2 DEF JobOf, Same
  <1> QED
    BY <1>4, <1>5, <1>6 DEF Job

\* Every step is a step of the job or leaves it alone.
LEMMA JobStep ==
  ASSUME TypeOK, HasName, "configmap" \notin Lagging, OneInv, CopyInv, Next
  PROVE  UNCHANGED Job \/ Abstract!Next
  <1> USE DEF hub, others
  <1>1. ASSUME UNCHANGED cms PROVE UNCHANGED Job
    BY <1>1 DEF Job
  <1>2. CASE DeleteStale
    BY <1>2, SweepDiscards DEF DeleteStale, Abstract!Next
  <1>3. CASE CreateConfigMap
    BY <1>3, CreateAnnounces DEF Abstract!Next
  <1>4. CASE RecordPending
    BY <1>4, RecordLaunches DEF Abstract!Next
  <1>5. ASSUME NEW unread \in SUBSET ManifestWork, Observe(unread)
        PROVE  UNCHANGED Job \/ Abstract!Next
    <2>1. ReadyNow(unread) \in SUBSET HelmRelease
      BY DEF ReadyNow
    <2> QED
      BY <1>5, <2>1, ObserveMarks DEF Abstract!Next
  <1>6. CASE FinishUpgrade
    BY <1>6, FinishCloses DEF Abstract!Next
  <1>7. CASE CallFails
    <2>1. CASE pc = "sweep"
      <3>1. PICK gone \in SUBSET Stale : cms' = Swept(gone)
        BY <1>7, <2>1 DEF CallFails
      <3> QED
        BY <3>1, SweepDiscards DEF Abstract!Next
    <2>2. CASE pc # "sweep"
      BY <1>1, <1>7, <2>2 DEF CallFails
    <2> QED
      BY <2>1, <2>2
  <1>8. ASSUME NEW n \in ConfigMapName, Timeout(n) PROVE UNCHANGED Job
    BY <1>8, TimeoutKeeps
  <1>9. CASE Controller
    <2>1. \/ UNCHANGED cms \/ DeleteStale \/ CreateConfigMap \/ RecordPending \/ FinishUpgrade
          \/ \E unread \in SUBSET ManifestWork : Observe(unread)
      BY <1>9 DEF Controller, Reconcile, ReconcileNoProfile, ReconcileBadProfile, vars,
         FindPending, FindNone, Render, RenderNoValues, PatchCore, ListWorks, PatchWork,
         FeatureNotFound, ConfigMapUnseen, EnableFeatures, EnableNotFound, EnableStopsAt,
         UpdateStatus, StatusUpdate, StatusRejected
    <2> QED
      BY <1>1, <1>2, <1>3, <1>4, <1>5, <1>6, <2>1
  <1>10. CASE Informers \/ Spoke \/ Users
    BY <1>1, <1>10 DEF Informers, SyncBinding, SyncWorks, SyncConfigMaps, Spoke, AgentApplies,
       FluxReconciles, AgentReports, Users, SetVersion, SetStamp, EditBinding, EditValues,
       EditChart, EditState, EditProfile
  <1>11. CASE Failures
    <2>1. UNCHANGED cms \/ CallFails
      BY <1>11 DEF Failures, EnableFails, EnableStopsAt, ReadBackFails, StatusUpdate, Restart,
         AgentFails
    <2> QED
      BY <1>1, <1>7, <2>1
  <1> QED
    BY <1>8, <1>9, <1>10, <1>11 DEF Next, Clock

\* Upgrade implements UpgradeJob if the ConfigMap cache is up to date: however
\* stale the other caches are, whatever calls fail and whenever the process
\* restarts, the ConfigMap the UI reads is announced, launched, marked and
\* closed in this order and is not changed once closed.
THEOREM Refinement ==
  ASSUME "configmap" \notin Lagging
  PROVE  Spec => ImplementsJob
  <1> DEFINE IInv == Typed /\ OneInv /\ CopyInv
  <1>1. Init => IInv
    <2> SUFFICES ASSUME Init PROVE IInv
      OBVIOUS
    <2>1. Typed
      BY TypeInit DEF Typed, HasName, Init
    <2>2. OneInv
      BY DEF Init, OneInv, OneConfigMap, SweptClean, HoldsConfigMap, Holding, NoConfigMap, Present
    <2>3. CopyInv
      BY DEF Init, CopyInv, CopyExact, InPhase, Holding
    <2> QED
      BY <2>1, <2>2, <2>3
  <1>2. IInv /\ [Next]_vars => IInv' /\ [Abstract!Next]_Job
    <2> SUFFICES ASSUME IInv, [Next]_vars PROVE IInv' /\ [Abstract!Next]_Job
      OBVIOUS
    <2>1. Typed'
      BY TypedStep
    <2>2. CASE UNCHANGED vars
      BY <2>1, <2>2, OneKept, CopyKept DEF vars, Job
    <2>3. CASE Next
      BY <2>1, <2>3, OneController, OneOthers, CopyController, CopyOthers, JobStep
         DEF Next, Typed
    <2> QED
      BY <2>2, <2>3
  <1>3. Init => Abstract!Init
    <2> SUFFICES ASSUME Init PROVE Abstract!Init
      OBVIOUS
    <2>1. \A n \in ConfigMapName : ~Present(cms[n])
      BY DEF Init, NoConfigMap, Present
    <2>2. JobIn(cms) = Abstract!NoJob
      BY <2>1, NoJobThere
    <2> QED
      BY <2>2 DEF Abstract!Init, Job
  <1> QED
    BY <1>1, <1>2, <1>3, PTL DEF Spec, ImplementsJob, Abstract!Spec
================================================================================

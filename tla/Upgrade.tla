-------------------------------- MODULE Upgrade --------------------------------
(***************************************************************************)
(* One ManagedClusterProfileBinding and its reconciler: the upgrade of the *)
(* opscenter-features chart and of the features it ships on one managed    *)
(* cluster, together with everything the reconciler reads and writes on    *)
(* the hub (the binding, its profile, the ManifestWorks, the upgrader      *)
(* ConfigMaps), the informer cache it reads through, the work agent and    *)
(* flux on the spoke, and the users who edit the binding and the profile.  *)
(*                                                                         *)
(* A reconcile is split at its API calls: pc names the next call.          *)
(* controller-runtime never runs two reconciles of one binding at once, so *)
(* there is one pc.  Version 0 stands for the empty string, stamp 0 for a  *)
(* missing ace.cloud.com/upgradeAt annotation, generation 0 for a missing  *)
(* feedback value.                                                         *)
(***************************************************************************)
EXTENDS Naturals

CONSTANTS
    HelmRelease,        \* the HelmReleases the feature sets of the cluster install
    OpscenterFeatures,  \* the one that carries the feature catalogue itself
    ManifestWork,       \* the ManifestWorks, one per feature set
    WorkOf,             \* the ManifestWork whose manifests hold a HelmRelease
    Version,            \* versions of the opscenter-features chart
    Installed,          \* the version the cluster was installed with
    ChartOf,            \* ChartOf[h][v]: chart version of h in catalogue v, 0 if it has no h
    Stamp,              \* force-upgrade times, in half seconds
    BadStamp,           \* the ones that do not parse as RFC3339
    Revision,           \* revisions of the values the profile gives its features
    BrokenRevision,     \* the ones flux cannot roll out
    ConfigMapName,      \* names of upgrader ConfigMaps
    Lagging,            \* kinds of object whose informer cache may be stale
    Fault,              \* kinds of failure that may happen
    MaxFaults,          \* bound on the number of failures
    Edit,               \* kinds of edit the users make
    MaxEdits,           \* bound on the number of user edits
    MaxGeneration,      \* bound on the generation of a HelmRelease on the spoke
    Forward,            \* TRUE: users only raise versions and stamps
    OldBuild            \* TRUE: the ManifestWorks lack generation feedback rules

(***************************************************************************)
(* opscenter-features is deployed with the version the binding names, and  *)
(* its own ManifestWork is opscenter-core.                                 *)
(***************************************************************************)
Core == WorkOf[OpscenterFeatures]

ASSUME ReleaseAssumption ==
    /\ OpscenterFeatures \in HelmRelease
    /\ WorkOf \in [HelmRelease -> ManifestWork]

ASSUME VersionAssumption ==
    /\ Version \subseteq Nat \ {0}
    /\ Installed \in Version
    /\ ChartOf \in [HelmRelease -> [Version \cup {0} -> Nat]]
    /\ \A v \in Version \cup {0} : ChartOf[OpscenterFeatures][v] = v

ASSUME StampAssumption == Stamp \subseteq Nat \ {0} /\ BadStamp \subseteq Stamp

ASSUME RevisionAssumption == Revision \subseteq Nat /\ 0 \in Revision

ASSUME NameAssumption == ConfigMapName \subseteq Nat \ {0}

ASSUME BoundAssumption ==
    /\ MaxFaults \in Nat
    /\ MaxEdits \in Nat
    /\ MaxGeneration \in Nat
    /\ Forward \in BOOLEAN
    /\ OldBuild \in BOOLEAN

VARIABLES
    binding,    \* the ManagedClusterProfileBinding on the hub
    profile,    \* the ManagedClusterSetProfile it refers to
    works,      \* per HelmRelease: manifest, feedback rules, reported feedback
    cms,        \* the upgrader ConfigMaps of the cluster's namespace
    cache,      \* what the informers have seen of binding, works and cms
    spoke,      \* the HelmReleases on the managed cluster
    queued,     \* the work queue holds the binding's key
    pc,         \* the next API call of the running reconcile
    run,        \* the local variables of the running reconcile
    exact,      \* history: feedback was up to date when the target was derived
    faults,     \* failures so far
    edits       \* user edits so far

vars == <<binding, profile, works, cms, cache, spoke, queued, pc, run, exact,
          faults, edits>>

hub    == <<binding, profile, works, cms>>
others == <<spoke, cache, exact, edits>>

--------------------------------------------------------------------------------
(***************************************************************************)
(* The types of the state.                                                 *)
(***************************************************************************)
Binding == [version  : Version \cup {0},   \* spec.opscenterFeaturesVersion
            stamp    : Stamp \cup {0},     \* the upgradeAt annotation
            values   : BOOLEAN,            \* spec.features has opscenter-features values
            observed : Nat,                \* status.observedOpscenterFeaturesVersion
            lastAt   : Nat]                \* status.lastUpgradeAt

Profile == [version : Version, rev : Revision, state : {"valid", "invalid", "gone"}]

HRSpec == [chart : Nat, rev : Nat]

Feedback == [applied : BOOLEAN, ready : BOOLEAN, gen : Nat, obs : Nat]

Manifest == [spec : HRSpec, rules : BOOLEAN, fb : Feedback]

ConfigMap == [status   : {"absent", "pending", "completed"},
              version  : Version \cup {0},        \* the ace.cloud.com/version label
              stamp    : Stamp \cup {0},          \* the upgradeAt annotation
              recorded : BOOLEAN,                 \* has the upgrade-targets annotation
              min      : [HelmRelease -> Nat],    \* MinGeneration of its targets
              data     : [HelmRelease -> BOOLEAN],
              expired  : BOOLEAN]                 \* older than helmReleaseReadyTimeout

Release == [spec : HRSpec, gen : Nat, obs : Nat, ready : BOOLEAN]

Step == {"idle", "find", "render", "sweep", "create", "core", "list", "work",
         "observe", "finish", "enable", "status"}

NoConfigMap == [status |-> "absent", version |-> 0, stamp |-> 0, recorded |-> FALSE,
                min |-> [h \in HelmRelease |-> 0],
                data |-> [h \in HelmRelease |-> FALSE], expired |-> FALSE]

NoBinding == [version |-> 0, stamp |-> 0, values |-> FALSE, observed |-> 0, lastAt |-> 0]

NoManifest == [spec |-> [chart |-> 0, rev |-> 0], rules |-> FALSE,
               fb |-> [applied |-> FALSE, ready |-> FALSE, gen |-> 0, obs |-> 0]]

NoRun == [b    |-> NoBinding,
          p    |-> [version |-> Installed, rev |-> 0, state |-> "valid"],
          up   |-> FALSE,
          id   |-> 0,
          cm   |-> NoConfigMap,
          list |-> [h \in HelmRelease |-> NoManifest],
          min  |-> [h \in HelmRelease |-> 0],
          todo |-> {},
          err  |-> FALSE]

RunType == [b    : Binding,                         \* the binding as read
            p    : Profile,                         \* the profile as read
            up   : BOOLEAN,                         \* this reconcile upgrades
            id   : ConfigMapName \cup {0},          \* the run's ConfigMap,
            cm   : ConfigMap,                       \* and its copy in memory
            list : [HelmRelease -> Manifest],       \* ManifestWorks as read
            min  : [HelmRelease -> Nat],            \* the targets derived so far
            todo : SUBSET ManifestWork,             \* works still to patch
            err  : BOOLEAN]                         \* the run timed out

TypeOK ==
    /\ binding \in Binding
    /\ profile \in Profile
    /\ works \in [HelmRelease -> Manifest]
    /\ cms \in [ConfigMapName -> ConfigMap]
    /\ cache \in [binding : Binding, works : [HelmRelease -> Manifest],
                  cms : [ConfigMapName -> ConfigMap]]
    /\ spoke \in [HelmRelease -> Release]
    /\ queued \in BOOLEAN
    /\ pc \in Step
    /\ run \in RunType
    /\ exact \in [HelmRelease -> BOOLEAN]
    /\ faults \in Nat
    /\ edits \in Nat

Whole(t) == 2 * (t \div 2)

Report(r, rules) == [ready |-> r.ready,
                     gen |-> IF rules THEN r.gen ELSE 0,
                     obs |-> IF rules THEN r.obs ELSE 0,
                     applied |-> TRUE]

(***************************************************************************)
(* A cluster on which Installed was rolled out and reported back.  Its     *)
(* binding may name that version or none, and may already carry the        *)
(* opscenter-features values an upgrade needs.                             *)
(***************************************************************************)
Init ==
    /\ \E v \in {0, Installed}, vals \in BOOLEAN :
          binding = [version |-> v, stamp |-> 0, values |-> vals,
                     observed |-> Installed, lastAt |-> 0]
    /\ profile = [version |-> Installed, rev |-> 0, state |-> "valid"]
    /\ spoke = [h \in HelmRelease |->
                   [spec |-> [chart |-> ChartOf[h][Installed], rev |-> 0],
                    gen |-> 1, obs |-> 1, ready |-> 0 \notin BrokenRevision]]
    /\ works = [h \in HelmRelease |->
                   [spec |-> spoke[h].spec, rules |-> ~OldBuild,
                    fb |-> Report(spoke[h], ~OldBuild)]]
    /\ cms = [n \in ConfigMapName |-> NoConfigMap]
    /\ cache = [binding |-> binding, works |-> works, cms |-> cms]
    /\ queued = TRUE
    /\ pc = "idle"
    /\ run = NoRun
    /\ exact = [h \in HelmRelease |-> FALSE]
    /\ faults = 0
    /\ edits = 0

--------------------------------------------------------------------------------
(***************************************************************************)
(* Reads go through the informer cache; a kind that does not lag is read   *)
(* as it is on the server.                                                 *)
(***************************************************************************)
SeenBinding    == IF "binding" \in Lagging THEN cache.binding ELSE binding
SeenWorks      == IF "work" \in Lagging THEN cache.works ELSE works
SeenConfigMaps == IF "configmap" \in Lagging THEN cache.cms ELSE cms

\* The key is enqueued when the informer delivers the binding's change.
Notified(b) == queued \/ ("binding" \notin Lagging /\ b # binding)

(***************************************************************************)
(* How a reconcile ends: with an error or RequeueAfter the key goes back   *)
(* to the work queue; with an empty result and no error it is forgotten,   *)
(* unless an event arrived meanwhile.                                      *)
(***************************************************************************)
Again == pc' = "idle" /\ run' = NoRun /\ queued' = TRUE
Done  == pc' = "idle" /\ run' = NoRun

(***************************************************************************)
(* CreateOrPatch of a ConfigMap: a merge patch from the object in the      *)
(* cache to the wanted one, applied to the object on the server.  Only     *)
(* keys that differ in the first two are written.  An object missing from  *)
(* the cache is created instead, which fails if it exists after all; a     *)
(* patch of an object that is gone fails too.                              *)
(***************************************************************************)
MergePatch(cur, mod, srv) ==
    [srv EXCEPT
        !.status   = IF mod.status # cur.status THEN mod.status ELSE @,
        !.stamp    = IF mod.stamp # cur.stamp THEN mod.stamp ELSE @,
        !.recorded = IF mod.recorded # cur.recorded THEN mod.recorded ELSE @,
        !.min      = IF mod.min # cur.min THEN mod.min ELSE @,
        !.data     = [h \in HelmRelease |->
                         IF mod.data[h] # cur.data[h] THEN mod.data[h] ELSE @[h]]]

Present(m) == m.status # "absent"

Writable(n) == Present(SeenConfigMaps[n]) <=> Present(cms[n])

Written(n, mod) ==
    IF Present(cms[n]) THEN MergePatch(SeenConfigMaps[n], mod, cms[n])
                       ELSE [mod EXCEPT !.expired = FALSE]

(***************************************************************************)
(* CreateOrPatch of the ManifestWorks ws.  The manifests and the           *)
(* manifestConfigs are lists, so a merge patch replaces each of them as a  *)
(* whole, and only if some element differs from the cached object's.       *)
(***************************************************************************)
In(w) == {h \in HelmRelease : WorkOf[h] = w}

Patched(ws, mod) ==
    LET newSpecs == {w \in ws : \E h \in In(w) : mod[h].spec # SeenWorks[h].spec}
        newRules == {w \in ws : \E h \in In(w) : mod[h].rules # SeenWorks[h].rules}
    IN  [h \in HelmRelease |->
            [works[h] EXCEPT
                !.spec  = IF WorkOf[h] \in newSpecs THEN mod[h].spec ELSE @,
                !.rules = IF WorkOf[h] \in newRules THEN mod[h].rules ELSE @]]
--------------------------------------------------------------------------------
(***************************************************************************)
(* Reconcile: read the binding and its profile, then choose between the    *)
(* upgrade, the installation of features and the bare status update.       *)
(***************************************************************************)
NeedsUpgrade(b) ==
    \/ b.version # 0 /\ b.version # b.observed
    \/ b.stamp # 0 /\ b.stamp \notin BadStamp /\ b.lastAt # b.stamp

ShouldEnableFeatures(b, p) == p.version = b.version \/ b.version = 0

Branch(b, p) ==
    CASE NeedsUpgrade(b)             -> "find"
      [] ~NeedsUpgrade(b) /\ ShouldEnableFeatures(b, p)  -> "enable"
      [] ~NeedsUpgrade(b) /\ ~ShouldEnableFeatures(b, p) -> "status"

Reconcile ==
    /\ pc = "idle" /\ queued
    /\ profile.state = "valid"
    /\ pc' = Branch(SeenBinding, profile)
    /\ run' = [NoRun EXCEPT !.b = SeenBinding, !.p = profile,
                            !.up = NeedsUpgrade(SeenBinding)]
    /\ queued' = FALSE
    /\ UNCHANGED <<hub, others, faults>>

\* The profile does not exist: IgnoreNotFound, the key is forgotten.
ReconcileNoProfile ==
    /\ pc = "idle" /\ queued
    /\ profile.state = "gone"
    /\ queued' = FALSE
    /\ UNCHANGED <<hub, others, pc, run, faults>>

\* validateFeatureList fails: the error puts the key back on the queue.
ReconcileBadProfile ==
    /\ pc = "idle" /\ queued
    /\ profile.state = "invalid"
    /\ UNCHANGED vars

(***************************************************************************)
(* findPendingUpgrade: resume the run whose ConfigMap matches the binding. *)
(***************************************************************************)
Resumable(m, b) ==
    /\ m.status = "pending"
    /\ m.version = b.version
    /\ m.stamp = b.stamp
    /\ m.recorded

FindPending ==
    /\ pc = "find"
    /\ \E n \in ConfigMapName :
          /\ Resumable(SeenConfigMaps[n], run.b)
          /\ run' = [run EXCEPT !.id = n, !.cm = SeenConfigMaps[n],
                                !.min = SeenConfigMaps[n].min]
    /\ pc' = "observe"
    /\ UNCHANGED <<hub, others, queued, faults>>

FindNone ==
    /\ pc = "find"
    /\ \A n \in ConfigMapName : ~Resumable(SeenConfigMaps[n], run.b)
    /\ pc' = "render"
    /\ UNCHANGED <<hub, others, run, queued, faults>>
--------------------------------------------------------------------------------
(***************************************************************************)
(* applyUpgrade.  The chart of the wanted version is rendered on a fake    *)
(* API server, which touches nothing on the hub; then opscenter-core is    *)
(* read.  What the render gives each HelmRelease is Rendered.              *)
(***************************************************************************)
Rendered(h, v, r) == [chart |-> ChartOf[h][v], rev |-> r]

\* The feedback of h describes the manifest the hub holds.
InStep(h) ==
    /\ SeenWorks[h].fb.gen = spoke[h].gen
    /\ SeenWorks[h].spec = spoke[h].spec
    /\ works[h].spec = spoke[h].spec

Render ==
    /\ pc = "render"
    /\ run.b.values
    /\ run' = [run EXCEPT !.list = SeenWorks]
    /\ exact' = [exact EXCEPT ![OpscenterFeatures] = InStep(OpscenterFeatures)]
    /\ pc' = "sweep"
    /\ UNCHANGED <<hub, spoke, cache, edits, queued, faults>>

\* "no values found in profileBinding"
RenderNoValues ==
    /\ pc = "render"
    /\ ~run.b.values
    /\ Again
    /\ UNCHANGED <<hub, others, faults>>

(***************************************************************************)
(* createConfigMapInSpokeClusterNamespace: every upgrader ConfigMap in the *)
(* cache is deleted, then a new one is created under a random, that is,    *)
(* unused name.                                                            *)
(***************************************************************************)
Swept(gone) == [n \in ConfigMapName |-> IF n \in gone THEN NoConfigMap ELSE cms[n]]

\* Mutant: only the ConfigMaps of completed runs are listed.
StaleCompleted == {n \in ConfigMapName : SeenConfigMaps[n].status = "completed"}

Stale == {n \in ConfigMapName : Present(SeenConfigMaps[n])}

DeleteStale ==
    /\ pc = "sweep"
    /\ cms' = Swept(Stale)
    /\ pc' = "create"
    /\ UNCHANGED <<binding, profile, works, others, queued, run, faults>>

Unused == {n \in ConfigMapName : ~Present(cms[n]) /\ ~Present(cache.cms[n])}

NewConfigMap(v) == [NoConfigMap EXCEPT !.status = "pending", !.version = v]

CreateConfigMap ==
    /\ pc = "create"
    /\ Unused # {}
    /\ LET n == CHOOSE n \in Unused : TRUE
       IN  /\ cms' = [cms EXCEPT ![n] = NewConfigMap(run.b.version)]
           /\ run' = [run EXCEPT !.id = n, !.cm = NewConfigMap(run.b.version)]
    /\ pc' = "core"
    /\ UNCHANGED <<binding, profile, works, others, queued, faults>>

(***************************************************************************)
(* newUpgradeTarget: the generation that proves that the spoke has the new *)
(* manifest, from the feedback in the ManifestWork as it was read.         *)
(***************************************************************************)
\* Mutants: the generation is not raised for a changed spec, or always is.
MinGenerationSame(m, spec) == m.fb.gen
MinGenerationNext(m, spec) == m.fb.gen + 1

MinGeneration(m, spec) == m.fb.gen + (IF spec # m.spec THEN 1 ELSE 0)

\* The manifests of ManifestWork w once the releases in hs are rewritten.
Rewritten(hs) ==
    [h \in HelmRelease |->
        IF h \in hs
          THEN [run.list[h] EXCEPT !.spec = Rendered(h, run.b.version, run.p.rev),
                                   !.rules = TRUE]
          ELSE run.list[h]]

\* Mutant: each ManifestWork starts a new list of targets.
TargetsAnew(hs) ==
    [h \in hs |-> MinGeneration(run.list[h], Rendered(h, run.b.version, run.p.rev))]

Targets(hs) ==
    [h \in HelmRelease |->
        IF h \in hs
          THEN MinGeneration(run.list[h], Rendered(h, run.b.version, run.p.rev))
          ELSE run.min[h]]

PatchCore ==
    /\ pc = "core"
    /\ works' = Patched({Core}, Rewritten({OpscenterFeatures}))
    /\ run' = [run EXCEPT !.min = Targets({OpscenterFeatures})]
    /\ pc' = "list"
    /\ UNCHANGED <<binding, profile, cms, others, queued, faults>>

(***************************************************************************)
(* The ConfigMap's data is patched after each ManifestWork; its keys are   *)
(* "false" already, so nothing changes, but the call fails while the cache *)
(* has not seen the ConfigMap yet; later in the reconcile it has.  List    *)
(* then reads all ManifestWorks.                                           *)
(***************************************************************************)
Features(w) == In(w) \ {OpscenterFeatures}

Lacks(w, v) == \E h \in Features(w) : ChartOf[h][v] = 0

ListWorks ==
    /\ pc = "list"
    /\ Writable(run.id)
    /\ run' = [run EXCEPT !.list = SeenWorks, !.todo = ManifestWork]
    /\ exact' = [h \in HelmRelease |->
                    IF h = OpscenterFeatures THEN exact[h] ELSE InStep(h)]
    /\ pc' = "work"
    /\ UNCHANGED <<hub, spoke, cache, edits, queued, faults>>

PatchWork(w) ==
    /\ pc = "work"
    /\ w \in run.todo
    /\ ~Lacks(w, run.b.version)
    /\ works' = Patched({w}, Rewritten(Features(w)))
    /\ run' = [run EXCEPT !.min = Targets(Features(w)), !.todo = @ \ {w}]
    /\ UNCHANGED <<binding, profile, cms, others, queued, pc, faults>>

\* The rendered catalogue has no Feature for a release that w installs.
FeatureNotFound(w) ==
    /\ pc = "work"
    /\ w \in run.todo
    /\ Lacks(w, run.b.version)
    /\ Again
    /\ UNCHANGED <<hub, others, faults>>

(***************************************************************************)
(* recordPendingUpgrade makes the run resumable; the reconcile then ends   *)
(* with RequeueAfter.                                                      *)
(***************************************************************************)
\* Mutant: the run is recorded but RequeueAfter is not set.
RecordNoRequeue ==
    /\ pc = "work"
    /\ run.todo = {}
    /\ Writable(run.id)
    /\ LET mod == [run.cm EXCEPT !.recorded = TRUE, !.min = run.min,
                                 !.stamp = run.b.stamp]
       IN  cms' = [cms EXCEPT ![run.id] = Written(run.id, mod)]
    /\ Done
    /\ UNCHANGED <<binding, profile, works, others, queued, faults>>

RecordPending ==
    /\ pc = "work"
    /\ run.todo = {}
    /\ Writable(run.id)
    /\ LET mod == [run.cm EXCEPT !.recorded = TRUE, !.min = run.min,
                                 !.stamp = run.b.stamp]
       IN  cms' = [cms EXCEPT ![run.id] = Written(run.id, mod)]
    /\ Again
    /\ UNCHANGED <<binding, profile, works, others, faults>>

--------------------------------------------------------------------------------
(***************************************************************************)
(* observeUpgrade: evaluateTargets marks the releases that are ready in    *)
(* the ConfigMap.  unread are the ManifestWorks that could not be read,    *)
(* whose targets stay pending.                                             *)
(***************************************************************************)
HelmReleaseReady(fb, min) ==
    /\ fb.applied
    /\ fb.ready
    /\ fb.gen # 0 /\ fb.gen >= min
    /\ fb.obs # 0 /\ fb.obs = fb.gen

ReadyNow(unread) ==
    {h \in HelmRelease : /\ WorkOf[h] \notin unread
                         /\ HelmReleaseReady(SeenWorks[h].fb, run.min[h])}

\* Mutant: the marks are computed anew on every observation.
MarkedAnew(hs) == [run.cm EXCEPT !.data = [h \in HelmRelease |-> h \in hs]]

Marked(hs) == [run.cm EXCEPT !.data = [h \in HelmRelease |-> @[h] \/ h \in hs]]

\* A ConfigMap is patched by evaluateTargets only when a mark was added.
NewMarks(hs) == Marked(hs) # run.cm

\* Mutant: AlreadyExists from the create is swallowed.
ConfigMapUnseenIgnored ==
    /\ pc \in {"list", "work", "observe", "finish"}
    /\ ~Writable(run.id)
    /\ pc = "work" => run.todo = {}
    /\ pc = "observe" => NewMarks(ReadyNow({}))
    /\ Done
    /\ UNCHANGED <<hub, others, queued, faults>>

\* A ConfigMap call that the stale cache turns into a failing one.
ConfigMapUnseen ==
    /\ pc \in {"list", "work", "observe", "finish"}
    /\ ~Writable(run.id)
    /\ pc = "work" => run.todo = {}
    /\ pc = "observe" => NewMarks(ReadyNow({}))
    /\ Again
    /\ UNCHANGED <<hub, others, faults>>

\* The clock reads the deadline off the ConfigMap's creation time.
Expired == cms[run.id].expired

\* Mutant: a target whose ManifestWork cannot be read is not kept pending.
ObserveSkips(unread) ==
    /\ pc = "observe"
    /\ NewMarks(ReadyNow(unread)) => Writable(run.id)
    /\ unread # {} => "call" \in Fault /\ faults < MaxFaults
    /\ faults' = IF unread # {} THEN faults + 1 ELSE faults
    /\ LET ready == ReadyNow(unread)
           mod   == IF NewMarks(ready) THEN Written(run.id, Marked(ready)) ELSE run.cm
           done  == \A h \in HelmRelease \ ready : WorkOf[h] \in unread
       IN  /\ cms' = IF NewMarks(ready) THEN [cms EXCEPT ![run.id] = mod] ELSE cms
           /\ IF done \/ Expired
                THEN /\ pc' = "finish"
                     /\ run' = [run EXCEPT !.cm = mod, !.err = ~done]
                     /\ UNCHANGED queued
                ELSE Again
    /\ UNCHANGED <<binding, profile, works, others>>

Observe(unread) ==
    /\ pc = "observe"
    /\ NewMarks(ReadyNow(unread)) => Writable(run.id)
    /\ unread # {} => "call" \in Fault /\ faults < MaxFaults
    /\ faults' = IF unread # {} THEN faults + 1 ELSE faults
    /\ LET ready == ReadyNow(unread)
           mod   == IF NewMarks(ready) THEN Written(run.id, Marked(ready)) ELSE run.cm
           done  == ready = HelmRelease
       IN  /\ cms' = IF NewMarks(ready) THEN [cms EXCEPT ![run.id] = mod] ELSE cms
           /\ IF done \/ Expired
                THEN /\ pc' = "finish"
                     /\ run' = [run EXCEPT !.cm = mod, !.err = ~done]
                     /\ UNCHANGED queued
                ELSE Again
    /\ UNCHANGED <<binding, profile, works, others>>

(***************************************************************************)
(* finishUpgrade: the run is completed whether it succeeded or timed out;  *)
(* only a success goes on to the status.                                   *)
(***************************************************************************)
Finished == [run.cm EXCEPT !.status = "completed", !.recorded = FALSE,
                           !.min = [h \in HelmRelease |-> 0]]

\* Mutant: a timeout is not reported as an error.
FinishAlways ==
    /\ pc = "finish"
    /\ Writable(run.id)
    /\ cms' = [cms EXCEPT ![run.id] = Written(run.id, Finished)]
    /\ pc' = "status" /\ UNCHANGED <<run, queued>>
    /\ UNCHANGED <<binding, profile, works, others, faults>>

FinishUpgrade ==
    /\ pc = "finish"
    /\ Writable(run.id)
    /\ cms' = [cms EXCEPT ![run.id] = Written(run.id, Finished)]
    /\ IF run.err THEN Again ELSE pc' = "status" /\ UNCHANGED <<run, queued>>
    /\ UNCHANGED <<binding, profile, works, others, faults>>
--------------------------------------------------------------------------------
(***************************************************************************)
(* EnableFeatures renders the profile's version and writes opscenter-core  *)
(* first, then the other feature sets in no fixed order.  A failure leaves *)
(* the ones before it written.                                             *)
(***************************************************************************)
InstalledSpec(h) == Rendered(h, run.p.version, run.p.rev)

\* updateManifestWork: the exported release, with the feedback rules.
Exported(h) == [works[h] EXCEPT !.spec = InstalledSpec(h), !.rules = TRUE]

Installs(ws) == Patched(ws, [h \in HelmRelease |-> Exported(h)])

Forgets(ws) ==
    [h \in HelmRelease |-> exact[h] /\ Installs(ws)[h].spec = works[h].spec]

EnableFeatures ==
    /\ pc = "enable"
    /\ \A w \in ManifestWork : ~Lacks(w, run.p.version)
    /\ works' = Installs(ManifestWork)
    /\ exact' = Forgets(ManifestWork)
    /\ pc' = "status"
    /\ UNCHANGED <<binding, profile, cms, spoke, cache, edits, run, queued, faults>>

EnableStopsAt(ws) ==
    /\ pc = "enable"
    /\ ws # ManifestWork /\ (ws # {} => Core \in ws)
    /\ \A w \in ws : ~Lacks(w, run.p.version)
    /\ works' = Installs(ws)
    /\ exact' = Forgets(ws)
    /\ Again
    /\ UNCHANGED <<binding, profile, cms, spoke, cache, edits>>

\* The profile's catalogue has no Feature for one of its releases.
EnableNotFound(ws) ==
    /\ EnableStopsAt(ws)
    /\ \E w \in ManifestWork : Lacks(w, run.p.version)
    /\ UNCHANGED faults

EnableFails(ws) ==
    /\ "call" \in Fault /\ faults < MaxFaults
    /\ EnableStopsAt(ws)
    /\ faults' = faults + 1

(***************************************************************************)
(* setOpscenterFeaturesVersion: the observed version is read back from the *)
(* opscenter-core ManifestWork and written to the binding as read again;   *)
(* the API server rejects a status update of a stale binding.  lastAt is   *)
(* stored with a precision of a second.                                    *)
(***************************************************************************)
StatusOf(pb, observed) ==
    [pb EXCEPT !.observed = observed,
               !.lastAt = IF run.b.stamp # 0 THEN Whole(run.b.stamp) ELSE @]

StatusUpdate(observed) ==
    /\ pc = "status"
    /\ run.b.stamp \notin BadStamp
    /\ SeenBinding = binding
    /\ LET pb == StatusOf(SeenBinding, observed)
       IN  /\ binding' = pb
           /\ queued' = Notified(pb)
    /\ Done
    /\ UNCHANGED <<profile, works, cms, others>>

\* Mutant: the observed version is only ever advanced.
UpdateStatusRaised ==
    /\ LET chart == SeenWorks[OpscenterFeatures].spec.chart
       IN  StatusUpdate(IF chart > run.b.observed THEN chart ELSE run.b.observed)
    /\ UNCHANGED faults

UpdateStatus ==
    /\ StatusUpdate(SeenWorks[OpscenterFeatures].spec.chart)
    /\ UNCHANGED faults

\* The read of opscenter-core fails: its version is taken to be empty.
ReadBackFails ==
    /\ "readback" \in Fault /\ faults < MaxFaults
    /\ StatusUpdate(0)
    /\ faults' = faults + 1

StatusRejected ==
    /\ pc = "status"
    /\ run.b.stamp \in BadStamp \/ SeenBinding # binding
    /\ Again
    /\ UNCHANGED <<hub, others, faults>>
--------------------------------------------------------------------------------
(***************************************************************************)
(* Failures of the reconciler.  A failing call ends the reconcile with an  *)
(* error; a failing delete leaves the ConfigMaps before it deleted.  A     *)
(* restart loses the reconcile's memory, fills the caches and enqueues     *)
(* every binding.                                                          *)
(***************************************************************************)
CallFails ==
    /\ pc \notin {"idle", "enable"}
    /\ "call" \in Fault /\ faults < MaxFaults
    /\ faults' = faults + 1
    /\ IF pc = "sweep" THEN \E gone \in SUBSET Stale : cms' = Swept(gone)
                       ELSE UNCHANGED cms
    /\ Again
    /\ UNCHANGED <<binding, profile, works, others>>

Restart ==
    /\ "crash" \in Fault /\ faults < MaxFaults
    /\ faults' = faults + 1
    /\ Again
    /\ cache' = [binding |-> binding, works |-> works, cms |-> cms]
    /\ UNCHANGED <<hub, spoke, exact, edits>>

(***************************************************************************)
(* The informers catch up, one kind at a time.                             *)
(***************************************************************************)
SyncBinding ==
    /\ "binding" \in Lagging /\ cache.binding # binding
    /\ cache' = [cache EXCEPT !.binding = binding]
    /\ queued' = TRUE
    /\ UNCHANGED <<hub, spoke, exact, edits, pc, run, faults>>

SyncWorks ==
    /\ "work" \in Lagging /\ cache.works # works
    /\ cache' = [cache EXCEPT !.works = works]
    /\ UNCHANGED <<hub, spoke, exact, edits, queued, pc, run, faults>>

SyncConfigMaps ==
    /\ "configmap" \in Lagging /\ cache.cms # cms
    /\ cache' = [cache EXCEPT !.cms = cms]
    /\ UNCHANGED <<hub, spoke, exact, edits, queued, pc, run, faults>>

\* helmReleaseReadyTimeout passes since the ConfigMap was created.
Timeout(n) ==
    /\ cms[n].status = "pending" /\ ~cms[n].expired
    /\ cms' = [cms EXCEPT ![n].expired = TRUE]
    /\ UNCHANGED <<binding, profile, works, others, queued, pc, run, faults>>
--------------------------------------------------------------------------------
(***************************************************************************)
(* The spoke.  The work agent applies a manifest and reports whether it    *)
(* could; the API server of the spoke raises the generation if the spec    *)
(* changed.  Flux rolls the release out.  The agent syncs the fields the   *)
(* feedback rules name back to the hub on its own schedule.                *)
(***************************************************************************)
AgentApplies(h) ==
    /\ works[h].spec # spoke[h].spec \/ ~works[h].fb.applied
    /\ works[h].spec # spoke[h].spec => spoke[h].gen < MaxGeneration
    /\ spoke' = [spoke EXCEPT ![h].gen = IF works[h].spec # spoke[h].spec THEN @ + 1 ELSE @,
                              ![h].spec = works[h].spec]
    /\ works' = [works EXCEPT ![h].fb.applied = TRUE]
    /\ UNCHANGED <<binding, profile, cms, cache, exact, edits, queued, pc, run, faults>>

AgentFails(h) ==
    /\ "apply" \in Fault /\ faults < MaxFaults
    /\ works[h].spec # spoke[h].spec /\ works[h].fb.applied
    /\ works' = [works EXCEPT ![h].fb.applied = FALSE]
    /\ faults' = faults + 1
    /\ UNCHANGED <<binding, profile, cms, others, queued, pc, run>>

FluxReconciles(h) ==
    /\ spoke[h].obs # spoke[h].gen
    /\ spoke' = [spoke EXCEPT ![h].obs = spoke[h].gen,
                              ![h].ready = spoke[h].spec.rev \notin BrokenRevision]
    /\ UNCHANGED <<hub, cache, exact, edits, queued, pc, run, faults>>

AgentReports(h) ==
    LET fb == [Report(spoke[h], works[h].rules) EXCEPT !.applied = works[h].fb.applied]
    IN  /\ works[h].fb # fb
        /\ works' = [works EXCEPT ![h].fb = fb]
        /\ UNCHANGED <<binding, profile, cms, others, queued, pc, run, faults>>
--------------------------------------------------------------------------------
(***************************************************************************)
(* The users.  A binding is edited to another version (with the values of  *)
(* that version, or without) or given a force-upgrade time; a profile gets *)
(* other values, another version, a feature list that does not validate,   *)
(* or is deleted and created again.                                        *)
(***************************************************************************)
EditBinding(b) ==
    /\ edits < MaxEdits /\ edits' = edits + 1
    /\ b # binding
    /\ binding' = b
    /\ queued' = Notified(b)
    /\ UNCHANGED <<profile, works, cms, spoke, cache, exact, pc, run, faults>>

SetVersion(v, vals) ==
    /\ "version" \in Edit
    /\ Forward => v > binding.version
    /\ EditBinding([binding EXCEPT !.version = v, !.values = @ \/ vals])

SetStamp(t) ==
    /\ "stamp" \in Edit
    /\ Forward => t > binding.stamp
    /\ EditBinding([binding EXCEPT !.stamp = t])

EditProfile(p) ==
    /\ edits < MaxEdits /\ edits' = edits + 1
    /\ p # profile
    /\ profile' = p
    /\ queued' = TRUE
    /\ UNCHANGED <<binding, works, cms, spoke, cache, exact, pc, run, faults>>

EditValues(r) == "values" \in Edit /\ EditProfile([profile EXCEPT !.rev = r])

EditChart(v) == "chart" \in Edit /\ EditProfile([profile EXCEPT !.version = v])

EditState(s) == "state" \in Edit /\ EditProfile([profile EXCEPT !.state = s])

--------------------------------------------------------------------------------
Controller ==
    \/ Reconcile \/ ReconcileNoProfile \/ ReconcileBadProfile
    \/ FindPending \/ FindNone
    \/ Render \/ RenderNoValues
    \/ DeleteStale \/ CreateConfigMap
    \/ PatchCore \/ ListWorks
    \/ \E w \in ManifestWork : PatchWork(w) \/ FeatureNotFound(w)
    \/ RecordPending \/ ConfigMapUnseen
    \/ \E unread \in SUBSET ManifestWork : Observe(unread)
    \/ FinishUpgrade
    \/ EnableFeatures \/ \E ws \in SUBSET ManifestWork : EnableNotFound(ws)
    \/ UpdateStatus \/ StatusRejected

Informers == SyncBinding \/ SyncWorks \/ SyncConfigMaps

Spoke == \E h \in HelmRelease : AgentApplies(h) \/ FluxReconciles(h) \/ AgentReports(h)

Clock == \E n \in ConfigMapName : Timeout(n)

Failures ==
    \/ \E ws \in SUBSET ManifestWork : EnableFails(ws)
    \/ ReadBackFails \/ CallFails \/ Restart
    \/ \E h \in HelmRelease : AgentFails(h)

Users ==
    \/ \E v \in Version, vals \in BOOLEAN : SetVersion(v, vals)
    \/ \E t \in Stamp : SetStamp(t)
    \/ \E r \in Revision : EditValues(r)
    \/ \E v \in Version : EditChart(v)
    \/ \E s \in {"valid", "invalid", "gone"} : EditState(s)

Next == Controller \/ Informers \/ Spoke \/ Clock \/ Failures \/ Users

Spec == Init /\ [][Next]_vars

(***************************************************************************)
(* Fairness.  A worker takes a queued key and runs the reconcile to its    *)
(* end; the informers, the agent, flux and the clock keep going.  Nothing  *)
(* is assumed of users and failures.                                       *)
(***************************************************************************)
Fairness ==
    /\ WF_vars(Controller)
    /\ WF_vars(SyncBinding) /\ WF_vars(SyncWorks) /\ WF_vars(SyncConfigMaps)
    /\ \A h \in HelmRelease :
          WF_vars(AgentApplies(h)) /\ WF_vars(FluxReconciles(h)) /\ WF_vars(AgentReports(h))
    /\ \A n \in ConfigMapName : WF_vars(Timeout(n))

FairSpec == Spec /\ Fairness
--------------------------------------------------------------------------------
(***************************************************************************)
(* Properties                                                              *)
(***************************************************************************)

\* No event about the binding is on its way to the work queue.
Quiet == pc = "idle" /\ ~queued /\ ("binding" \in Lagging => cache.binding = binding)

\* When the reconciler has gone to sleep (Reconcile returned an empty result,
\* no event is due) on a binding whose profile exists, needsUpgrade is false:
\* no path through the upgrade forgets a wanted version or force-upgrade.
NeverStranded == Quiet /\ profile.state # "gone" => ~NeedsUpgrade(binding)

\* The wish of the binding has been met: its version was read back, or nothing
\* could be read back; its force-upgrade was carried out, and recorded to the
\* second.  A malformed stamp is never met.
Served(b) ==
    /\ b.version # 0 => b.observed \in {b.version, 0}
    /\ b.stamp # 0 => b.stamp \notin BadStamp /\ b.lastAt = Whole(b.stamp)

\* The reconciler goes to sleep only on a binding it has served: with every
\* failure, and with stamps that are malformed or have a fraction of a second,
\* a wish is left open only if opscenter-core could not be read back.
AsleepOnlyServed == Quiet /\ profile.state # "gone" => Served(binding)

\* Whatever users ask for, back and forth, a reconciler asleep has told them
\* the version that opscenter-core deploys, or that it could not be read.
StatusIsTrue ==
    Quiet /\ profile.state # "gone" =>
        binding.observed \in {works[OpscenterFeatures].spec.chart, 0}

\* While users only raise versions, a run that the UI reads as pending is not
\* slept on, unless it is for another version than the binding's.
PendingIsServed ==
    Quiet /\ profile.state # "gone" =>
        \A n \in ConfigMapName : cms[n].status = "pending" => cms[n].version # binding.version

\* deleteStaleUpgraderConfigMaps: the UI never finds two upgrader ConfigMaps.
OneConfigMap ==
    \A m, n \in ConfigMapName : Present(cms[m]) /\ Present(cms[n]) => m = n

\* evaluateTargets adds h's mark to a ConfigMap.
Marks(n, h) == ~cms[n].data[h] /\ cms'[n].data[h]

\* helmReleaseReady: a release whose target was derived while the feedback was
\* up to date is marked ready only when the spoke holds the manifest that the
\* hub asks for: MinGeneration proves what its comment says.
ExactReady ==
    [][\A n \in ConfigMapName, h \in HelmRelease :
          Marks(n, h) /\ exact[h] => spoke[h].spec = works[h].spec]_vars

\* A run that reported every release ready for version v and stamp t.
ReadyRun(m, v, t) ==
    /\ m.status = "completed"
    /\ m.version = v /\ m.stamp = t
    /\ \A h \in HelmRelease : m.data[h]

\* The status update that ends an upgrade clears the need for it only if the
\* run's ConfigMap is completed with every release ready.
NeedClearedByReadyRun ==
    [][ pc = "status" /\ run.up /\ NeedsUpgrade(binding) /\ ~NeedsUpgrade(binding')
        => \E n \in ConfigMapName : ReadyRun(cms[n], run.b.version, run.b.stamp) ]_vars

\* An upgrade of this binding can succeed.
Serviceable ==
    /\ profile.state = "valid" /\ profile.rev \notin BrokenRevision
    /\ binding.values
    /\ \A w \in ManifestWork : ~Lacks(w, binding.version)
    /\ binding.stamp \notin BadStamp /\ Whole(binding.stamp) = binding.stamp

\* Once the users stop editing, every upgrade that can succeed does: the need
\* is met and no ConfigMap is left pending.
Converges ==
    <>[](Serviceable => /\ ~NeedsUpgrade(binding)
                        /\ \A n \in ConfigMapName : cms[n].status # "pending")
================================================================================

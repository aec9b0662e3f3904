# cluster-profile: verification project

This directory holds TLA+ models of the cluster-profile controllers, the TLC
configurations that check them, and TLAPS proofs about them.  Paths below are
relative to the repository.

## The system

cluster-profile runs two controllers on an Open Cluster Management hub.

| component | state it keeps | operations |
|---|---|---|
| Binding reconciler, `pkg/controller/managedclusterprofilebinding_controller.go` | status of a `ManagedClusterProfileBinding` (observed version, last force-upgrade) | `Reconcile`, `needsUpgrade`, `shouldEnableFeatures`, `setOpscenterFeaturesVersion` |
| Upgrader, `pkg/cluster_upgrade` | one upgrader ConfigMap per run: version, force-upgrade stamp, targets, one ready mark per release, `pending`/`completed` | `findPendingUpgrade`, `applyUpgrade`, `recordPendingUpgrade`, `observeUpgrade`, `finishUpgrade` |
| Feature installer, `pkg/feature_installer` | the ManifestWorks, one per feature set | `EnableFeatures`: `addRequiredFeatures`, `enableFeatureSet`, `sanitizeFeatures`, `updateHelmReleaseDependency`, `removeHRFomManifestWork` |
| Set-profile reconciler, `pkg/controller/managedclustersetprofile_controller.go` | the bindings of the clusters of a cluster set | `Reconcile`, deletion of profiles without a set |
| Helpers, API types, commands, utilities | none of their own | validation, parsing, start-up |

They interact through objects on the hub only.  The set-profile reconciler
creates a binding per cluster; users set the binding's version and force-upgrade
annotation and edit the profile; the binding reconciler installs features or
upgrades them by writing HelmReleases into ManifestWorks; the work agent on the
managed cluster (the spoke) applies them, flux rolls them out, and the agent
syncs the fields named by feedback rules back into the ManifestWork's status;
the upgrader reads that feedback until every release is ready or 30 minutes have
passed, and only then the observed version is advanced.  One of the installed
features, kube-ui-server, reports which features the spoke has enabled, disabled
or manages itself in a cluster claim, which the installer reads.

What is hard here is not any single step.  A reconcile is a sequence of API calls
that users, agent and clock interleave with; every read is served by an informer
cache that may be behind; a call may fail or the process may restart between
any two writes; the feedback a target is derived from may be older than the
manifest it is compared with; the claim the installer reads three times in one
run may change in between; and a reconcile that returns an empty result is not
woken up again unless an object changes or the informer resyncs.

What makes each component correct:

- Binding reconciler: it never goes to sleep on a binding that still needs an
  upgrade; the need is cleared only by a run in which everything was ready; an
  upgrade that can succeed eventually does.
- Upgrader: what the UI reads is one upgrade job after another, none of which is
  reopened or loses a mark; a release is marked ready only when the spoke has
  the manifest the hub asks for; installation and upgrade do not undo each
  other.
- Feature installer: a release never waits for a dependency that is not
  installed; at most one feature of an exclusion group; a completed run leaves
  what it rendered; a new cluster gets its features although the claim they wait
  for comes from one of them.
- Set-profile reconciler: a user's version survives; a binding's profile is its
  owner; every cluster with metadata gets its binding, and what belongs to a set
  that is gone disappears.

`PROJECT.json` lists the hazards with the lines where they bite.

## Modules

| module | is |
|---|---|
| `Upgrade` | one binding, its reconciler, the upgrader, and everything they touch |
| `UpgradeJob` | abstract specification: the upgrade job that the UI reads |
| `UpgradeRefinement` | the refinement mapping from `Upgrade` to `UpgradeJob` |
| `Installer` | `EnableFeatures` for one cluster: which features, in which order, waiting for what |
| `SetProfile` | the set-profile reconciler with its four caches, the garbage collector and the users |
| `Rendering` | the spec of one HelmRelease as installation and upgrade render it |
| `MCUpgrade`, `MCInstaller`, `MCSetProfile`, `MCRendering` | instances for TLC; `MCRendering` also has the recursive functions of the code |
| `UpgradeProofs` | types, one ConfigMap, and what each step changes |
| `UpgradeStrandProofs` | no wanted upgrade is forgotten, and what a reconciler asleep has left |
| `UpgradeRefinementProofs` | `Upgrade` implements `UpgradeJob` |
| `UpgradeReadyProofs` | what a ready mark and a completed run are worth |
| `InstallerProofs` | types, and a completed run leaves what it rendered |
| `InstallerDependsProofs` | dependencies, settled clusters, exclusion groups and the loop of `sanitizeFeatures` |
| `SetProfileProofs` | types, users' versions, owners, profiles without a set |
| `RenderingProofs` | both paths of rendering, and the recursion of the code |

`Upgrade` and `Installer` are two views of one reconcile.  In `Upgrade` the whole
of EnableFeatures is a step that writes any subset of the ManifestWorks;
`Installer` splits it at its calls and leaves the upgrader out.  `Rendering` is the
function both abstract to a revision number.

### Upgrade

| variable | in the code |
|---|---|
| `binding` | spec version, `ace.cloud.com/upgradeAt`, whether opscenter-features values are given; status version and time |
| `profile` | version and values of the `ManagedClusterSetProfile`, whether it exists and validates |
| `works` | per HelmRelease: manifest, feedback rules and reported feedback in its ManifestWork |
| `cms` | the upgrader ConfigMaps in the cluster's namespace |
| `cache` | what the informers have seen of these three kinds |
| `spoke` | the HelmReleases on the managed cluster: spec, generation, observed generation, readiness |
| `queued`, `pc`, `run` | work queue, position and local variables of the running reconcile |
| `exact` | history, see `ExactReady` |
| `faults`, `edits` | counters that bound the environment |

A reconcile is split at its API calls; `pc` is the next call.  controller-runtime
runs at most one reconcile per key, so there is one `pc`.  The actions follow the
code:

| action | code |
|---|---|
| `Reconcile`, `ReconcileNoProfile`, `ReconcileBadProfile` | `Reconcile` up to the choice between upgrade, installation and status |
| `FindPending`, `FindNone` | `findPendingUpgrade` |
| `Render`, `RenderNoValues`, `DeleteStale`, `CreateConfigMap`, `PatchCore`, `ListWorks`, `PatchWork`, `FeatureNotFound`, `RecordPending` | `applyUpgrade` in the order of its calls |
| `Observe`, `FinishUpgrade` | `observeUpgrade`, `evaluateTargets`, `finishUpgrade` |
| `EnableFeatures`, `EnableNotFound`, `EnableFails` | `EnableFeatures`, complete or stopped by an error |
| `UpdateStatus`, `ReadBackFails`, `StatusRejected` | `setOpscenterFeaturesVersion` |
| `ConfigMapUnseen` | a CreateOrPatch that a stale cache turns into a failing call |
| `CallFails`, `Restart` | an API error, a restart of the process |
| `SyncBinding`, `SyncWorks`, `SyncConfigMaps` | the informers catch up |
| `AgentApplies`, `AgentFails`, `AgentReports`, `FluxReconciles` | the spoke |
| `Timeout` | 30 minutes have passed since the ConfigMap was created |
| `SetVersion`, `SetStamp`, `EditValues`, `EditChart`, `EditState` | the users |

CreateOrPatch is modelled by what it does: a merge patch from the cached object
to the wanted one, applied to the object on the server (`MergePatch`,
`Patched`).  Lists are replaced as a whole, and only if they differ from the
cached ones.

Abstractions:

- A chart version is a number; the rest of a HelmRelease spec is the revision of
  the values it was rendered from.  `specChanged` is inequality of the two.  For
  one version and one revision, installation and upgrade render the same spec
  here.  `Rendering` shows for which sources that is so (`PathsAgree`) and for
  which it is not (`Diverging`).
- Version 0 is the empty string, stamp 0 a missing annotation, generation 0 a
  missing feedback value.  Stamps count half seconds, so that the second
  precision of `lastUpgradeAt` (`Whole`) is visible.
- `ChartOf[h][v] = 0` says that catalogue `v` has no Feature for `h`.
- The profile is not cached: a stale profile is an edit that comes later.  A
  call that takes effect and then reports an error is the step followed by
  `CallFails`.
- A binding or a ManifestWork is never deleted; a deleted profile is created
  again before its bindings are collected.
- opscenter-core always holds opscenter-features, so a run has a target and the
  early finish of a run without any (`upgrader.go:437`) cannot happen.
- EnableFeatures writes each ManifestWork as a unit.  A missing features claim
  is one of the errors that stop it.
- The ten-hourly resync of the informer is left out: it would only add
  reconciles, and NeverStranded asks what happens without it.

### UpgradeJob and UpgradeRefinement

The dashboard polls the upgrader ConfigMap.  `UpgradeJob` says what it may rely on:
a job is announced, launched, marked release by release, and closed, in this
order, and discarded only as a whole.  There is no cache, reconcile or retry in
it.  The mapping `Job` reads the one ConfigMap that exists: pending without
targets is announced, pending with targets is waiting, completed is closed.

### Installer

| variable | in the code |
|---|---|
| `profile` | feature list and values of profile and binding |
| `claim` | the features cluster claim: present or not, enabled, externally managed and disabled features |
| `works`, `cache` | per feature set the ManifestWork: its HelmReleases, their `dependsOn`, the values' revision; and the informer's copy |
| `queued`, `pc`, `run` | work queue, position and local variables (`featureInfo`, the feature sets left in the loop, the sanitized list); `moved`, `wrote`, `stale` are history |

| action | code |
|---|---|
| `AddRequiredFeatures`, `RequirementNotFound` | `addRequiredFeatures`: `Closure` is the least set its queue computes |
| `EnableCore`, `EnableCoreFails` | `enableFeatureSet` for opscenter-core, with its fixed chain of `dependsOn` |
| `SanitizeFeatures`, `SanitizeFails` | `sanitizeFeatures` for the other feature sets, in any order (a Go map) |
| `EnableFeatureSet`, `EnableFeatureSetFails` | `enableFeatureSet`, `applyFeatureSet`, `updateHelmReleaseDependency` |
| `RemoveNothing`, `RemoveSome`, `RemoveAll` | `removeHRFomManifestWork`, with the deletion of an empty ManifestWork and the patch that follows it |
| `FirstReport`, `Report`, `Toggle` | kube-ui-server writes the claim; somebody disables a feature or installs it without the hub |
| `EditProfile`, `SyncWorks`, `Resync`, `CallFails` | users, informer, API errors |

Assumptions: the profile names for each feature the feature set that its Feature
has; a profile lists opscenter-features and kube-ui-server; users do not edit
ManifestWorks; no feature requires fluxcd.  Left out: features the fake server
reports as self-managed (`calculateFeatureStatus`) and `valuesFrom`.

### SetProfile

`server` holds sets, profiles (by UID), clusters and bindings, `cache` the four
informers' copies; `queue`, `pc` and `run` are the worker.  `Reconcile`,
`DeleteProfile`, `DeleteNotFound`, `ListClusters`, `NoMetadata`, `ListBindings`,
`PatchBinding`, `PatchFails`, `AllBound` are the reconciler, split where it reads
or writes: the binding is read twice, by a List for the fields a user chose and by
the Get in CreateOrPatch that the patch is computed from.  `SyncProfiles` and
`SyncSets` enqueue (`mapManagedClusterSetToProfile`); clusters and bindings wake
nobody, but OCM counts the clusters of a set in its status (`CountClusters`), and
that change does.  `Collect` is the garbage collector.  Users move clusters, edit
versions, and create and delete sets and profiles.  Only cluster sets that select
by the exclusive cluster-set label are modelled, so a cluster is in one set at a
time; sets that select by other labels, and the global set, are left out.

### Rendering

A state is the sources of one HelmRelease (chart values, Feature, profile,
binding, catalogue version, pinned chart; the cluster's identity, `clusterMetadata`,
is one leaf) and the spec the ManifestWork stores.
`Install` and `Upgrade` render the spec as the two code paths do and store it as
CreateOrPatch does: a create keeps nulls, a merge patch drops them.  A document is
the function from its paths to what is there ("map", "list" or a leaf), so that
`MergeMaps` and `PruneNulls` say without recursion which paths survive.
`MCRendering` has both with the recursion of the code, on trees, and TLC compares
them (`AsTheCode`).

## What is checked

| run | instance | shows |
|---|---|---|
| UpgradeFaults | two feature sets, one edit of any kind (malformed stamps, stamps with a fraction, a dropped feature, a deleted profile), one failing call, crash, rejected apply or failing read-back | `TypeOK`, `AsleepOnlyServed`, `PendingIsServed`, `OneConfigMap`, `ImplementsJob`, `NeedClearedByReadyRun` |
| UpgradeEdits | two releases of opscenter-core, two edits of version and values, back to an earlier version as well | `StatusIsTrue`, `ExactReady`, `NeedClearedByReadyRun` |
| UpgradeLag | one release, binding and ConfigMap caches lag, one failing call or restart | `NeverStranded` |
| UpgradeLagWork | one release, binding and ManifestWork caches lag, two edits of version, stamp and values | `NeedClearedByReadyRun` |
| UpgradeLive | one release, values that cannot be rolled out, one failing call or read-back | `Converges` |
| UpgradeDropped | two feature sets, three versions, one of which drops a feature; ManifestWorks of an older build | `Converges` |
| Installer | eleven features in four sets, five feature lists, one edit, one failing call, lagging cache, a claim that changes | `TypeOK`, `DependsOnlyExcluded`, `WrittenUnlessStale`, `DoneIsSettled`, `SanitizedIsLoop`, `SecondOnlyUnreported`, `Converges` |
| SetProfile | two sets, two clusters, one without cluster-info claim, two edits, one failing call or restart | `TypeOK`, `NoOrphanForgotten`, `VersionKept`, `TornOnlyStale`, `EveryClusterBound`, `OrphansGo` |
| Rendering | every combination of small documents, pins and versions, edited in any order | `ReachesGeneration`, `PathsAgree`, `AsTheCode` |

In short:

- `NeverStranded`: the reconciler sleeps only on a binding that needs no upgrade.
  `AsleepOnlyServed`: with every failure and every kind of stamp, the wish of such
  a binding was met, unless its version was read back as empty.
- `StatusIsTrue`: whatever users ask for, a reconciler asleep has reported the
  version that opscenter-core deploys.  `PendingIsServed`: it does not sleep on a
  run that is pending for the version the binding wants.
- `ExactReady`: a target derived while the feedback was up to date proves that the
  spoke holds the manifest.  `NeedClearedByReadyRun`: only a completed run with
  every release ready clears the need.
  UpgradeFaults checks it with ManifestWorks that cannot be read during an
  observation, UpgradeEdits with timeouts and edits, UpgradeLagWork with stale reads.
- `ImplementsJob`: see UpgradeJob.
- `Converges`: an upgrade that can succeed does, and the installer settles the
  cluster.  A read-back of opscenter-core that fails leaves an empty observed
  version; the event of that change starts the run that repairs it (UpgradeLive).
- `DependsOnlyExcluded`: after a completed run each `dependsOn` is installed, except
  for a requirement of an exclusion group, a claim that changed during the run
  and a stale cache.  `SecondOnlyUnreported`: a second feature of a group is
  installed only if the first one was there and the claim had not reported it.
- `WrittenUnlessStale`, `DoneIsSettled`: a completed run leaves what it rendered,
  and what it rendered is what the profile asks for.
- `SanitizedIsLoop`: the declarative `Sanitized` keeps what the loop of
  `sanitizeFeatures` keeps.
- `VersionKept`, `TornOnlyStale`: a stale copy of the binding at the moment of the
  patch is the only way to lose a version or to separate profile and owner.
  `NoOrphanForgotten`: a reconciler at rest, its caches up to date, has left no
  profile without its set.
- `ReachesGeneration`: if `specChanged` announces a new generation, the stored
  manifest does change.  `AsTheCode`: `MergeMaps` and `PruneNulls` do to documents
  what the recursive functions of the code do.

Several safety properties hold only outside a named circumstance, and say nothing
of what happens in it: a stale read of a ManifestWork (`WrittenUnlessStale`,
`DoneIsSettled`), a claim or profile that changed during the run
(`DependsOnlyExcluded`, `DoneIsSettled`), a stale binding (`TornOnlyStale`,
`VersionKept`), a read-back that failed (`AsleepOnlyServed`, `StatusIsTrue`) and
targets from old feedback (`ExactReady`).  What is checked there is that the
damage does not last: `Converges` and `EveryClusterBound`.  There is no such check
for `VersionKept` (a version that a stale copy overwrote is lost) and none for two
read-backs that fail in a row: the second changes nothing, no event follows, and
the status stays empty until something else wakes the reconciler.  Nor do the runs
with failures and ConfigMap bookkeeping (`OneConfigMap`, `ImplementsJob`) have a
lagging cache of ConfigMaps; UpgradeLag has, and checks `NeverStranded`.

Deadlock is checked in Installer, FindingDepends and Rendering.  It is not in the
runs of `Upgrade` and `SetProfile`: a controller whose queue is empty rests there,
and the bounded users and failures end.

Bounds.  One or two releases are enough for the properties of `Upgrade`: the
releases of one ManifestWork interact through the patch that replaces the whole
list (two releases in opscenter-core), those of two ManifestWorks through the
order of the patches and the run's list of targets (two feature sets).  Two
ConfigMap names suffice while the cache does not lag, as the sweep frees one before
another is needed; with a lagging cache a third would only repeat the second.
Two edits give an edit during a run and one after it; one failure gives a partial
run and its retry.  `MaxGeneration` is larger than any generation the edits of the
instance produce, except in UpgradeLagWork, where stale rewrites could go on for
ever and three generations are explored.  The features of `Installer` give a chain of requirements across
three feature sets, a group of two, a requirement of that group, a feature no
catalogue has and one that is installed elsewhere.  One edit is enough there:
every action of a run can already meet a changed claim or a stale cache, and any
feature list may be followed by any other.  In SetProfile two edits
give a move and an edit of the version, a deletion and a re-creation, or a set and
its profile; the safety properties are proved for any number of edits.  The documents of
Rendering are up to three levels deep, with nulls in maps at each, in a list and below
one.

Fairness.  `Upgrade` assumes weak fairness of the reconciler as a whole (a worker
takes a queued key; errors and RequeueAfter put it back), of each informer, of
agent and flux for each release, and of the clock.  `Installer` assumes the same
of its reconciler, of informer, resync and kube-ui-server.  `SetProfile` has many
keys and needs more: strong fairness of `Reconcile(s)`, because the work queue is
first in, first out and a key that fails is put behind the others, or of
`Resync(s)`, because controller-runtime delivers every object again each ten hours;
and of `ListBindings(c)`, because the cache lists clusters in the order of a Go
map, so that a cluster is met before the failing one some time.  Nothing is assumed
of users and failures; the bounds on them make them finite, so the liveness
properties speak of what happens once they stop.  `Serviceable` excludes what the
code refuses on purpose: values flux cannot roll out, a missing values block, a
catalogue without an installed feature, malformed stamps and stamps with a
fraction of a second.

### Where code and comments disagree

Three runs end in a counterexample, each under one circumstance that the passing
runs of its property exclude.

| run | circumstance | counterexample |
|---|---|---|
| FindingRevert | a user leaves a version during its run and comes back | the old pending ConfigMap is resumed over rewritten manifests; the reconciler sleeps on a need |
| FindingStaleList | ManifestWork cache lags | the List after the patch of opscenter-core brings the old opscenter-features back |
| FindingDepends | a requirement is of the exclusion group of a listed feature | `addRequiredFeatures` adds it, `sanitizeFeatures` drops it, the `dependsOn` stays |

The models have more behaviours worth knowing.  They are not runs of their own.  The
first two contradict a comment; no document speaks of the others.

- `upgrader_helper.go:262-264` says that stale ConfigMaps are dropped "so the UI
  always has exactly one to read".  This holds while the ConfigMap cache is up to
  date (`OneConfigMapCorrect`).  When it lags there may be two, because the sweep
  does not see the one of the reconcile before, and a finished run may be reopened
  by a patch from an old copy; hence the hypothesis of `Refinement`.
- `upgrader.go:62-63` says that `MinGeneration` "proves the spec this upgrade wrote
  has reached the cluster".  This holds for a target derived from up-to-date
  feedback (`ExactReadyCorrect`).  ManifestWorks without generation feedback let the
  release of before the upgrade pass for the new one; the same happens to a second
  run that derives its target from feedback of before the first.  `ExactReady`
  excludes both through `exact`.
- With a lagging cache of bindings `PendingIsServed` fails: a reconcile that has
  not seen the status update of the run before starts another one for the same
  version, and when the cache catches up nobody needs that run any more.  Its
  ConfigMap stays pending until the next upgrade sweeps it.
- A pending run does not take up edits of the profile; they wait until it ends.
  UpgradeLive shows that they are not lost.
- The Feature's values replace those of the chart on installation
  (`GenerateHelmRelease`) and are merged over them on upgrade.  The upgrade of
  opscenter-features adds the chart's defaults and the cluster's identity to the
  binding's values, and the next installation drops them.  A version that the
  profile pins is the installed one and not the upgraded one.  A null of a user is
  kept when the ManifestWork is created and lost when it is patched.
- A feature set that the profile no longer mentions keeps its ManifestWork.
- A profile that is created together with its set is deleted if the cache of sets
  lags behind.

## What is proved

For every value of the constants that satisfies the assumptions named in the
modules; each inductive invariant is a conjunction of named parts:

- `UpgradeProofs!TypeCorrect`: `Spec => []TypeOK`.  The invariant is `Typed`, which
  adds `HasName`: a reconcile past the creation of its ConfigMap knows the name.
  Without it the copy of the ConfigMap in the reconciler's memory could be the
  value of `Written` for a name that is none.
- `UpgradeProofs!OneConfigMapCorrect`: `Spec => []OneConfigMap` if the ConfigMap
  cache does not lag, with every failure, restart and edit and with the other
  caches as stale as they like.  `OneInv` adds `SweptClean` (between sweep and
  creation there is no ConfigMap) and `HoldsConfigMap` (the ConfigMap a reconcile
  works on stays on the server until the reconcile ends; otherwise CreateOrPatch
  would create a second one).
- `UpgradeRefinementProofs!Refinement`: `Spec => ImplementsJob` under the same
  hypothesis.  With `OneConfigMap` there is one job to read.  `CopyInv` adds that
  the reconciler's copy of the ConfigMap is the server's but for the deadline
  (`CopyExact`) and in which phase each step finds it (`InPhase`): a patch from a
  copy that is not the server's could reopen a job or take a mark back.  Each
  action is then a step of `UpgradeJob` or a stutter.
- `UpgradeStrandProofs!AsleepCorrect`: `Spec => []AsleepOnlyServed`.  Two
  hypotheses, both of which the code needs: users only raise versions and stamps
  (`Forward`; otherwise FindingRevert) and the ManifestWork cache does not lag
  (otherwise FindingStaleList).  The caches of bindings and ConfigMaps may lag,
  calls may fail, the process may restart, and stamps may be malformed or have a
  fraction of a second.  The danger is a pending run of an earlier wish that is
  resumed while opscenter-core has another chart: the version read back would not
  be the wanted one, and nothing would wake the reconciler.  `StrandInv` excludes
  it: every recorded run, on the server or in the cache, is for no later version
  than the ones that may be asked for now, and if it is for one of them,
  opscenter-core has its chart (`RecordedHasChart`).  `Behind` orders the three
  copies of the binding, `OneVersion` and `OwnVersion` tie ConfigMap names to
  versions, `ChartWritten` carries the chart from the patch to the read-back.
  `NeverStrandedCorrect`: `Spec => []NeverStranded` from the same invariant, if
  also reading opscenter-core back cannot fail and stamps are whole seconds
  (otherwise `lastUpgradeAt`, stored with that precision, never equals the
  annotation).
- `UpgradeStrandProofs!StatusCorrect`: `Spec => []StatusIsTrue` if the ManifestWork
  cache does not lag.  Users may go back and forth: this is what remains true in
  the situation of FindingRevert.  The invariant `Told` says that the status is
  the deployed version whenever nothing is queued and no reconcile is on its way.
- `UpgradeStrandProofs!PendingCorrect`: `Spec => []PendingIsServed` if users only raise
  versions and the caches of bindings and ConfigMaps do not lag; ManifestWorks may
  be read as stale as they like.  `PendingInv`: a run open for the binding's
  version is wanted (`OpenIsWanted`), so the next reconcile takes it up; one that
  goes past it does so for a malformed stamp, which keeps it from the status
  update (`OpenIsSeen`); no run is for a later version than the binding's, so an
  edit never turns an old run into a wanted one (`NoneLater`); and an upgrade that
  gets to the status update has closed its run (`NoneOpen`).
- `UpgradeReadyProofs!NeedClearedCorrect`: `Spec => NeedClearedByReadyRun` if the
  ConfigMap cache does not lag.  `ReadyInv`: a run that ends without an error saw
  every release ready, and an upgrade comes to the status update only through a
  completed run of its own version and stamp.
- `UpgradeReadyProofs!ExactReadyCorrect`: `Spec => ExactReady` if the caches of
  ConfigMaps and ManifestWorks do not lag.  `ExactInv`: reported generations are in
  the past, what a reconcile has read is still so when it derives a target from
  it, and a target derived from exact feedback is ahead of the spoke's generation
  as long as the spoke has not got the manifest (`TargetsAhead`), in memory and in
  the ConfigMap.
- `InstallerProofs!TypeCorrect`, and `InstallerProofs!WrittenCorrect`:
  `Spec => []WrittenUnlessStale`, with or without a lagging cache.  `WrittenInv` adds
  that each ManifestWork written so far is as it was rendered (`AsRendered`), that
  a rendered ManifestWork holds features of featureInfo only, so that the removal
  finds nothing to remove (`AllClean`), and where the loops are (`InLoop`).
- `InstallerDependsProofs!DependsCorrect`: `Spec => []DependsOnlyExcluded`, for every
  catalogue and requirement relation, cyclic ones included.  `ClosureClosed` shows
  that what `addRequiredFeatures` computes is closed under what it adds.
  `DependsInv` then follows the run: featureInfo stays closed (`InfoClosed`),
  opscenter-core is whole (`CoreWhole`), and while the claim does not move each set
  has the features nothing keeps out and waits for what was added (`SetsWhole`,
  `ListWhole`).
- `InstallerDependsProofs!SettledCorrect`: `Spec => []DoneIsSettled`.  `DependsInv` says
  which features a completed run has installed; `OfProfile` adds that featureInfo
  is what the profile it read calls for and that every ManifestWork written has
  that profile's values.
- `InstallerDependsProofs!SecondCorrect`: `Spec => SecondOnlyUnreported`.  In a list
  from a fresh read, a feature that is not installed shares its group only with
  installed, unreported ones (`OnceInv`): two that are not installed would both be
  first, hence have one rank.
- `InstallerDependsProofs!SanitizedCorrect`: `Spec => []SanitizedIsLoop`.  The loop of
  `sanitizeFeatures` is a recursive function over the places of the sorted list;
  the closed form (`LoopHas`) obeys its equations, and no turn is the first to
  differ from it.  This is an induction without the library's induction theorems:
  `SmallestOf` gives the smallest counterexample.
- `SetProfileProofs!TypeCorrect`, with `HasKey` (a running reconcile has a profile);
  `VersionKeptCorrect` and `TornCorrect`, the action properties `VersionKept` and
  `TornOnlyStale`, for any number of sets and clusters.
- `SetProfileProofs!NoOrphanCorrect`: `Spec => []NoOrphanForgotten`.  `OrphanInv`: while
  the cache has a profile and not its set, its key is queued or in a reconcile
  that has yet to read the set, or the cache is to catch up (`Watched`).  `Fresh`
  says that UIDs are given once: a profile that is deleted and created again is
  another one, so the cache will show the change and enqueue it.
- `RenderingProofs!ReachesCorrect` and `AgreeCorrect`: `Spec => []ReachesGeneration` and
  `Spec => []PathsAgree`, for documents of any size and depth.  `RenderInv` adds that,
  until the sources change, the ManifestWork holds what the last path renders but
  for nulls (`StoresTarget`).  It needs that pruning twice is pruning once
  (`PruneTwice`) and that an empty document is neutral in a merge (`MergeEmpty`).
  The proof showed that a Feature without a namespace diverges as well:
  installation empties the namespace, an upgrade keeps the one in place.
- `RenderingProofs!MergeIsRecursion` and `PruneIsRecursion`: the recursive functions
  of the code compute `MergeMaps` and `PruneNulls`, for documents of any depth.
  `MergeUnfolds` and `PruneUnfolds` show that the definitions by paths obey the
  equations of the code's loops, key by key (`MergeTurn`, `PruneTurn`); the
  theorems, that whatever obeys these equations is one with them, as a
  difference at the shortest path would be one at a shorter path under its first
  key.

Every safety property of a run is proved except one.  Model-checked only:

- `AsTheCode`: the reference functions there are RECURSIVE operators on trees,
  which the prover does not handle.  The two theorems above say the same of any
  depth by equations.
- `Converges` (both), `EveryClusterBound` and `OrphansGo`: liveness needs fairness and
  ENABLED.

## Not modelled

- Generated code: `apis/profile/v1alpha1/openapi_generated.go` and
  `zz_generated.deepcopy.go` are more than four fifths of the repository's own Go
  lines (20405 of 24222) and have no behaviour of the controllers.
- Commands and start-up (`pkg/cmds`, `cmd`), utilities and constants: flags,
  clients, names.
- The fake API server that charts are rendered on, and the features it reports as
  self-managed; chart downloads.  Its result is a catalogue in the models.
- Labels, `valuesFrom`, CRD validation.
- Deletion of bindings and of HelmReleases on the spoke together with their
  generations.

## Plan

1. What holds when the ManifestWork cache lags: which rewrites repair an
   opscenter-core that a stale List has reverted.
2. `Upgrade` and `SetProfile` on one binding, with its deletion by the garbage
   collector while a run is pending.

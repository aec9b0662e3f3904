------------------------------- MODULE Installer -------------------------------
(***************************************************************************)
(* EnableFeatures for one managed cluster: which features of a profile are *)
(* installed, in which ManifestWork, and what each HelmRelease waits for.  *)
(* The pipeline closes the profile's features under their requirements,    *)
(* writes opscenter-core, sanitizes and writes the other feature sets in   *)
(* no fixed order, and removes what is not listed.  It reads the features  *)
(* claim of the cluster several times; kube-ui-server, which opscenter-    *)
(* core installs, writes that claim.  ManifestWorks are read through an    *)
(* informer cache.                                                         *)
(*                                                                         *)
(* Charts and values are a revision number; module Upgrade has the rest of *)
(* the binding's reconciler, module Rendering the values.                  *)
(***************************************************************************)
EXTENDS Naturals, FiniteSets

CONSTANTS
    Feature,            \* the features
    FeatureSet,         \* the feature sets, each with its ManifestWork
    Core,               \* opscenter-core
    SetOf,              \* the feature set of a feature
    Requires,           \* spec.requirements.features
    Group,              \* spec.featureExclusionGroup
    NoGroup,            \* the empty group
    Rank,               \* the place sort.Strings gives a feature
    Catalogue,          \* Features of the profile's catalogue, on the fake server
    HubCatalogue,       \* Features of the hub's catalogue
    OpscenterFeatures,
    KubeUIServer,
    CrdManager,         \* akp-crd-manager
    LicenseProxyServer,
    Elsewhere,          \* fluxcd and license-proxyserver: listed, never rendered
    FeatureList,        \* the feature lists a profile may have
    Revision,           \* revisions of the profile's values
    Toggled,            \* features that may be disabled or self-managed on the spoke
    Lagging,            \* TRUE: the ManifestWork cache may be stale
    MaxEdits,           \* bound on edits of the profile and of the spoke
    MaxFaults           \* bound on failing calls

ASSUME FeatureAssumption ==
    /\ Core \in FeatureSet
    /\ SetOf \in [Feature -> FeatureSet]
    /\ Requires \in [Feature -> SUBSET Feature]
    /\ IsFiniteSet(Feature)
    /\ Rank \in [Feature -> 1..Cardinality(Feature)]
    /\ \A f, g \in Feature : Rank[f] = Rank[g] => f = g
    /\ {OpscenterFeatures, KubeUIServer} \subseteq Feature
    /\ SetOf[OpscenterFeatures] = Core /\ SetOf[KubeUIServer] = Core
    /\ Catalogue \subseteq Feature /\ HubCatalogue \subseteq Feature

ASSUME ListAssumption ==
    /\ FeatureList \subseteq SUBSET Feature
    /\ \A fs \in FeatureList : {OpscenterFeatures, KubeUIServer} \subseteq fs
    /\ FeatureList # {}

ASSUME LimitAssumption ==
    /\ Revision \subseteq Nat /\ 0 \in Revision
    /\ Toggled \subseteq Feature
    /\ Lagging \in BOOLEAN
    /\ MaxEdits \in Nat /\ MaxFaults \in Nat

(***************************************************************************)
(* Features that are installed by other means are not waited for: no       *)
(* feature requires fluxcd.                                                *)
(***************************************************************************)
ASSUME ElsewhereAssumption ==
    /\ Elsewhere \subseteq Feature \ {OpscenterFeatures, KubeUIServer, CrdManager}
    /\ \A f \in Feature : Requires[f] \cap Elsewhere \subseteq {LicenseProxyServer}

VARIABLES
    profile,    \* features and values of profile and binding together
    claim,      \* the features cluster claim of the ManagedCluster
    works,      \* the ManifestWorks
    cache,      \* the informer's copy of them
    queued,     \* the work queue holds the binding's key
    pc,         \* the next step of EnableFeatures
    run,        \* its local variables
    edits,
    faults

vars == <<profile, claim, works, cache, queued, pc, run, edits, faults>>

--------------------------------------------------------------------------------
Profile == [features : FeatureList, rev : Revision]

Claim == [present : BOOLEAN, enabled : SUBSET Feature,
          external : SUBSET Toggled, disabled : SUBSET Toggled]

Work == [exists : BOOLEAN,
         hrs    : SUBSET Feature,                 \* its HelmReleases,
         deps   : [Feature -> SUBSET Feature],    \* their dependsOn,
         rev    : Revision]                       \* and the values they have

NoDeps == [f \in Feature |-> {}]
NoWork == [exists |-> FALSE, hrs |-> {}, deps |-> NoDeps, rev |-> 0]
EmptyWork == [NoWork EXCEPT !.exists = TRUE]

Step == {"idle", "require", "core", "sanitize", "enable", "remove", "done"}

RunType == [p       : Profile,
            info    : SUBSET Feature,             \* featureInfo
            blocked : SUBSET Toggled,             \* by the claim addRequiredFeatures read
            todo    : SUBSET FeatureSet,          \* feature sets left in the loop
            set     : FeatureSet,                 \* the one sanitized,
            list    : SUBSET Feature,             \* its features,
            enabled : SUBSET Feature,             \* and the claim they were chosen by
            moved   : BOOLEAN,                    \* history: the claim changed meanwhile
            wrote   : [FeatureSet -> Work],       \* history: what was rendered
            stale   : SUBSET FeatureSet]          \* history: read from a stale cache

AnyProfile == [features |-> CHOOSE fs \in FeatureList : TRUE, rev |-> 0]

NoRun == [p |-> AnyProfile, info |-> {}, blocked |-> {}, todo |-> {}, set |-> Core,
          list |-> {}, enabled |-> {}, moved |-> FALSE,
          wrote |-> [w \in FeatureSet |-> NoWork], stale |-> {}]

TypeOK ==
    /\ profile \in Profile
    /\ claim \in Claim
    /\ works \in [FeatureSet -> Work]
    /\ cache \in [FeatureSet -> Work]
    /\ queued \in BOOLEAN
    /\ pc \in Step
    /\ run \in RunType
    /\ edits \in Nat
    /\ faults \in Nat

\* A cluster that has just joined: nothing installed, no claim.
Init ==
    /\ profile \in [features : FeatureList, rev : {0}]
    /\ claim = [present |-> FALSE, enabled |-> {}, external |-> {}, disabled |-> {}]
    /\ works = [w \in FeatureSet |-> NoWork]
    /\ cache = works
    /\ queued = TRUE
    /\ pc = "idle"
    /\ run = NoRun
    /\ edits = 0
    /\ faults = 0

--------------------------------------------------------------------------------
Blocked(c) == c.disabled \cup c.external

SeenWorks == IF Lagging THEN cache ELSE works

Again == pc' = "idle" /\ run' = NoRun /\ queued' = TRUE

world == <<profile, claim, cache, edits>>

Installed == UNION {works[w].hrs : w \in FeatureSet}

(***************************************************************************)
(* CreateOrPatch of a ManifestWork.  The create fails if it exists after   *)
(* all, the patch if it is gone; the manifests are a list, replaced as a   *)
(* whole and only if they differ from the cached ones.                     *)
(***************************************************************************)
Writable(w) == SeenWorks[w].exists <=> works[w].exists

\* Mutant: a ManifestWork that has the wanted HelmReleases is left alone.
PatchedByName(w, mod) ==
    [works EXCEPT ![w] = IF SeenWorks[w].exists /\ mod.hrs = SeenWorks[w].hrs THEN @ ELSE mod]

Patched(w, mod) ==
    [works EXCEPT ![w] = IF SeenWorks[w].exists /\ mod = SeenWorks[w] THEN @ ELSE mod]

\* History: the copy of w that is read now is not the server's.
StaleNow(w) == IF SeenWorks[w] # works[w] THEN run.stale \cup {w} ELSE run.stale

--------------------------------------------------------------------------------
Reconcile ==
    /\ pc = "idle" /\ queued
    /\ pc' = "require"
    /\ run' = [NoRun EXCEPT !.p = profile, !.info = profile.features]
    /\ queued' = FALSE
    /\ UNCHANGED <<world, works, faults>>

(***************************************************************************)
(* addRequiredFeatures: what its queue computes is the least set that      *)
(* holds the listed features and, with a feature outside opscenter-core,   *)
(* those of its requirements that a dependsOn will name.  A missing claim  *)
(* counts as an empty one.                                                 *)
(***************************************************************************)
Needed(blocked, f) == Requires[f] \ ({LicenseProxyServer} \cup blocked)

\* Mutant: requirements in opscenter-core are taken to be there already.
AddsNotCore(blocked, f) ==
    {r \in IF f \in Catalogue /\ SetOf[f] # Core THEN Needed(blocked, f) ELSE {} :
        SetOf[r] # Core}

Adds(blocked, f) ==
    IF f \in Catalogue /\ SetOf[f] # Core THEN Needed(blocked, f) ELSE {}

Closed(blocked, fs) == \A f \in fs : Adds(blocked, f) \subseteq fs

WithRequired(blocked, fs) ==
    LET candidates == UNION {Requires[f] : f \in Feature}
        closed     == {gs \in {fs \cup xs : xs \in SUBSET candidates} : Closed(blocked, gs)}
    IN  {f \in Feature : \A gs \in closed : f \in gs}

\* What addRequiredFeatures makes of each feature list.
Closure == [blocked \in SUBSET Toggled |-> [fs \in FeatureList |-> WithRequired(blocked, fs)]]

SetsOf(fs) == {SetOf[f] : f \in fs}

\* Mutant: the claim is required, as in sanitizeFeatures.
AddRequiredNeedsClaim ==
    /\ pc = "require"
    /\ IF claim.present
         THEN /\ run' = [run EXCEPT !.info = Closure[Blocked(claim)][run.info]]
              /\ pc' = "core"
              /\ UNCHANGED queued
         ELSE Again
    /\ UNCHANGED <<world, works, faults>>

AddRequiredFeatures ==
    /\ pc = "require"
    /\ LET info == Closure[Blocked(claim)][run.info]
       IN  /\ info \ run.info \subseteq Catalogue
           /\ run' = [run EXCEPT !.info = info, !.blocked = Blocked(claim)]
    /\ pc' = "core"
    /\ UNCHANGED <<world, works, queued, faults>>

\* A requirement is not in the catalogue.
RequirementNotFound ==
    /\ pc = "require"
    /\ ~(Closure[Blocked(claim)][run.info] \ run.info \subseteq Catalogue)
    /\ Again
    /\ UNCHANGED <<world, works, faults>>

(***************************************************************************)
(* enableFeatureSet and applyFeatureSet: the features of a set, and those  *)
(* they require, must be in the catalogue; the rendered HelmReleases       *)
(* become the ManifestWork.                                                *)
(***************************************************************************)
Renderable(fs) ==
    /\ fs \subseteq Catalogue
    /\ \A f \in fs \ {OpscenterFeatures, KubeUIServer} : Requires[f] \subseteq Catalogue

\* Mutant: a release waits for the feature set of the requirement.
DependsOnSets(fs, blocked) ==
    [f \in Feature |-> IF f \in fs THEN {SetOf[r] : r \in Needed(blocked, f)} ELSE {}]

\* updateHelmReleaseDependency outside opscenter-core.
DependsOn(fs, blocked) ==
    [f \in Feature |-> IF f \in fs THEN Needed(blocked, f) ELSE {}]

\* In opscenter-core the order is akp-crd-manager, opscenter-features, kube-ui-server.
CoreDependsOn(fs) ==
    [f \in Feature |-> CASE f = OpscenterFeatures -> fs \cap {CrdManager}
                         [] f = KubeUIServer      -> {OpscenterFeatures}
                         [] OTHER                 -> {}]

Rendered(fs, deps) == [exists |-> TRUE, hrs |-> fs, deps |-> deps, rev |-> run.p.rev]

Writes(w, mod) ==
    /\ works' = Patched(w, mod)
    /\ run' = [run EXCEPT !.wrote[w] = mod, !.stale = StaleNow(w),
                          !.todo = IF w = Core THEN SetsOf(run.info) \ {Core}
                                               ELSE run.todo \ {w},
                          !.moved = @ \/ Blocked(claim) # run.blocked,
                          !.list = {}, !.enabled = {}, !.set = Core]

CoreFeatures == {f \in run.info \ Elsewhere : SetOf[f] = Core}

EnableCore ==
    /\ pc = "core"
    /\ Renderable(CoreFeatures) /\ Writable(Core)
    /\ Writes(Core, Rendered(CoreFeatures, CoreDependsOn(CoreFeatures)))
    /\ pc' = "sanitize"
    /\ UNCHANGED <<world, queued, faults>>

EnableCoreFails ==
    /\ pc = "core"
    /\ ~(Renderable(CoreFeatures) /\ Writable(Core))
    /\ Again
    /\ UNCHANGED <<world, works, faults>>

(***************************************************************************)
(* sanitizeFeatures.  Features that are disabled or managed by somebody    *)
(* else are dropped.  Of an exclusion group stay the features the          *)
(* ManifestWork holds already and, if the claim reports none of the group  *)
(* as enabled, the first one in the list: every later one finds the group  *)
(* taken.                                                                  *)
(***************************************************************************)
Listed(w) == {f \in run.info : SetOf[f] = w}

Exists(f) == f \in SeenWorks[SetOf[f]].hrs

\* Mutant: the group is looked up among enabled features only.
FirstAlways(f, fs) == fs # {}

FirstOfGroup(f, fs) == \A g \in fs : Group[g] = Group[f] => Rank[f] <= Rank[g]

Taken(f) == \E g \in claim.enabled \cap HubCatalogue : Group[g] = Group[f]

Sanitized(w) ==
    LET open == Listed(w) \ Blocked(claim)
    IN  {f \in open : Group[f] = NoGroup \/ Exists(f) \/ (~Taken(f) /\ FirstOfGroup(f, open))}

Sanitizable(w) == claim.present /\ Listed(w) \subseteq HubCatalogue

SanitizeFeatures(w) ==
    /\ pc = "sanitize"
    /\ w \in run.todo
    /\ Sanitizable(w)
    /\ run' = [run EXCEPT !.set = w, !.list = Sanitized(w), !.enabled = claim.enabled,
                          !.stale = StaleNow(w),
                          !.moved = @ \/ Blocked(claim) # run.blocked]
    /\ pc' = "enable"
    /\ UNCHANGED <<world, works, queued, faults>>

\* The claim is not there yet, or the hub does not know a feature.
SanitizeFails(w) ==
    /\ pc = "sanitize"
    /\ w \in run.todo
    /\ ~Sanitizable(w)
    /\ Again
    /\ UNCHANGED <<world, works, faults>>

\* Mutant: the list is the one before sanitizeFeatures.
EnableUnsanitized ==
    /\ pc = "enable"
    /\ Renderable(Listed(run.set)) /\ Writable(run.set)
    /\ Writes(run.set, Rendered(Listed(run.set), DependsOn(Listed(run.set), Blocked(claim))))
    /\ pc' = "sanitize"
    /\ UNCHANGED <<world, queued, faults>>

EnableFeatureSet ==
    /\ pc = "enable"
    /\ Renderable(run.list) /\ Writable(run.set)
    /\ Writes(run.set, Rendered(run.list, DependsOn(run.list, Blocked(claim))))
    /\ pc' = "sanitize"
    /\ UNCHANGED <<world, queued, faults>>

EnableFeatureSetFails ==
    /\ pc = "enable"
    /\ ~(Renderable(run.list) /\ Writable(run.set))
    /\ Again
    /\ UNCHANGED <<world, works, faults>>

(***************************************************************************)
(* removeHRFomManifestWork, for every feature set of featureInfo: the      *)
(* HelmReleases that are not listed are filtered out of the ManifestWork   *)
(* as it is read back.                                                     *)
(***************************************************************************)
StartRemoval ==
    /\ pc = "sanitize"
    /\ run.todo = {}
    /\ run' = [run EXCEPT !.todo = SetsOf(run.info)]
    /\ pc' = "remove"
    /\ UNCHANGED <<world, works, queued, faults>>

\* Mutant: the features are those of the profile, without the required ones.
FilteredByProfile(w) ==
    LET kept == SeenWorks[w].hrs \cap run.p.features
    IN  [SeenWorks[w] EXCEPT !.hrs = kept, !.deps = [f \in Feature |-> IF f \in kept THEN @[f] ELSE {}]]

Filtered(w) ==
    LET kept == SeenWorks[w].hrs \cap run.info
    IN  [SeenWorks[w] EXCEPT !.hrs = kept, !.deps = [f \in Feature |-> IF f \in kept THEN @[f] ELSE {}]]

Removes(w) == Filtered(w) # SeenWorks[w]

Proceed(w) == run' = [run EXCEPT !.todo = @ \ {w}, !.stale = StaleNow(w)]

RemoveNothing(w) ==
    /\ pc = "remove" /\ w \in run.todo
    /\ ~Removes(w)
    /\ Proceed(w)
    /\ UNCHANGED <<world, works, queued, pc, faults>>

RemoveSome(w) ==
    /\ pc = "remove" /\ w \in run.todo
    /\ Removes(w) /\ Filtered(w).hrs # {}
    /\ works' = [works EXCEPT ![w] = Filtered(w)]
    /\ Proceed(w)
    /\ UNCHANGED <<world, queued, pc, faults>>

(***************************************************************************)
(* An empty ManifestWork is deleted and then patched all the same.  The    *)
(* patch fails, unless the cache has seen the deletion: then it is created *)
(* again without manifests.                                                *)
(***************************************************************************)
RemoveAll(w) ==
    /\ pc = "remove" /\ w \in run.todo
    /\ Removes(w) /\ Filtered(w).hrs = {}
    /\ \/ works' = [works EXCEPT ![w] = NoWork] /\ Again /\ UNCHANGED cache
       \/ works' = [works EXCEPT ![w] = EmptyWork] /\ cache' = [works EXCEPT ![w] = NoWork]
          /\ Proceed(w) /\ UNCHANGED <<queued, pc>>
    /\ UNCHANGED <<profile, claim, edits, faults>>

Completed ==
    /\ pc = "remove"
    /\ run.todo = {}
    /\ pc' = "done"
    /\ UNCHANGED <<world, works, queued, run, faults>>

\* The status update, module Upgrade.
Done ==
    /\ pc = "done"
    /\ pc' = "idle" /\ run' = NoRun
    /\ UNCHANGED <<world, works, queued, faults>>
--------------------------------------------------------------------------------
CallFails ==
    /\ pc \notin {"idle", "done"}
    /\ faults < MaxFaults /\ faults' = faults + 1
    /\ Again
    /\ UNCHANGED <<world, works>>

\* Every ten hours the informer delivers the binding again.  Meanwhile a run
\* may be on its way: that is the same as a resync after its end.
Resync ==
    /\ pc = "idle" /\ ~queued
    /\ queued' = TRUE
    /\ UNCHANGED <<world, works, pc, run, faults>>

SyncWorks ==
    /\ Lagging /\ cache # works
    /\ cache' = works
    /\ UNCHANGED <<profile, claim, works, queued, pc, run, edits, faults>>

(***************************************************************************)
(* kube-ui-server on the spoke writes the claim, and keeps it up to date   *)
(* one feature at a time.  Only features of exclusion groups are asked for *)
(* among the enabled ones, so the others are left out.                     *)
(***************************************************************************)
FirstReport ==
    /\ ~claim.present /\ KubeUIServer \in Installed
    /\ claim' = [claim EXCEPT !.present = TRUE]
    /\ UNCHANGED <<profile, works, cache, queued, pc, run, edits, faults>>

Flip(fs, f) == (fs \cup {f}) \ (fs \cap {f})

Report(f) ==
    /\ claim.present /\ Group[f] # NoGroup
    /\ f \in claim.enabled <=> f \notin Installed \cup claim.external
    /\ claim' = [claim EXCEPT !.enabled = Flip(@, f)]
    /\ UNCHANGED <<profile, works, cache, queued, pc, run, edits, faults>>

\* Somebody disables a feature on the spoke or installs it without the hub,
\* or stops doing so.
Toggle(f) ==
    /\ claim.present
    /\ edits < MaxEdits /\ edits' = edits + 1
    /\ \/ claim' = [claim EXCEPT !.external = Flip(@, f)]
       \/ claim' = [claim EXCEPT !.disabled = Flip(@, f)]
    /\ UNCHANGED <<profile, works, cache, queued, pc, run, faults>>

EditProfile(p) ==
    /\ edits < MaxEdits /\ edits' = edits + 1
    /\ p # profile
    /\ profile' = p
    /\ queued' = TRUE
    /\ UNCHANGED <<claim, works, cache, pc, run, faults>>

--------------------------------------------------------------------------------
Controller ==
    \/ Reconcile
    \/ AddRequiredFeatures \/ RequirementNotFound
    \/ EnableCore \/ EnableCoreFails
    \/ \E w \in FeatureSet : SanitizeFeatures(w) \/ SanitizeFails(w)
    \/ EnableFeatureSet \/ EnableFeatureSetFails
    \/ StartRemoval
    \/ \E w \in FeatureSet : RemoveNothing(w) \/ RemoveSome(w) \/ RemoveAll(w)
    \/ Completed \/ Done

Spoke == FirstReport \/ \E f \in Feature : Report(f)

Users ==
    \/ \E p \in Profile : EditProfile(p)
    \/ \E f \in Toggled : Toggle(f)

Next == Controller \/ Resync \/ SyncWorks \/ Spoke \/ CallFails \/ Users

Spec == Init /\ [][Next]_vars

(***************************************************************************)
(* Fairness: a worker takes a queued key and runs EnableFeatures to its    *)
(* end; the informer resyncs and catches up, and kube-ui-server reports.   *)
(***************************************************************************)
FairSpec ==
    /\ Spec
    /\ WF_vars(Controller) /\ WF_vars(Resync) /\ WF_vars(SyncWorks) /\ WF_vars(Spoke)
--------------------------------------------------------------------------------
(***************************************************************************)
(* Properties                                                              *)
(***************************************************************************)

\* The feature sets the completed run was about.
Current == SetsOf(run.info)

\* addRequiredFeatures: each requirement that becomes a dependsOn is installed
\* as well.
DependsInstalled ==
    pc = "done" => \A w \in Current : \A f \in works[w].hrs :
                      works[w].deps[f] \subseteq Installed

\* The same, but for a requirement that sanitizeFeatures keeps out because of
\* its exclusion group, a claim that changed between the reads of one run, and
\* a ManifestWork that was read from a stale cache.
DependsOnlyExcluded ==
    pc = "done" /\ ~run.moved /\ run.stale = {} =>
        \A w \in Current : \A f \in works[w].hrs : \A r \in works[w].deps[f] :
            r \in Installed \/ Group[r] # NoGroup

(***************************************************************************)
(* Reference definition of Sanitized: the loop of sanitizeFeatures over    *)
(* the sorted list, with the groups it has found taken so far.             *)
(***************************************************************************)
LoopStart == [keep |-> {}, taken |-> {Group[g] : g \in claim.enabled \cap HubCatalogue}]

\* The feature in place n, unless it is not listed or is passed over.
LoopAdds(w, n, acc) ==
    {f \in Listed(w) \ Blocked(claim) :
        Rank[f] = n /\ (Group[f] = NoGroup \/ Group[f] \notin acc.taken \/ Exists(f))}

LoopStep(w, n, acc) ==
    [keep  |-> acc.keep \cup LoopAdds(w, n, acc),
     taken |-> acc.taken \cup {Group[f] : f \in LoopAdds(w, n, acc)}]

LoopFrom(w) ==
    LET acc[n \in 0..Cardinality(Feature)] ==
            IF n = 0 THEN LoopStart ELSE LoopStep(w, n, acc[n - 1])
    IN  acc

\* Sanitized keeps the features the loop of sanitizeFeatures keeps.
SanitizedIsLoop ==
    pc = "sanitize" =>
        \A w \in run.todo : Sanitized(w) = LoopFrom(w)[Cardinality(Feature)].keep

\* A completed run leaves every ManifestWork as it rendered it, the removal of
\* HelmReleases included, unless it read that ManifestWork from a stale cache.
WrittenUnlessStale ==
    pc = "done" => \A w \in Current \ run.stale : works[w] = run.wrote[w]

\* A feature set never gets a second feature of a group, unless the first one
\* was installed before and the claim had not reported it yet.
SecondOnlyUnreported ==
    [][ pc = "enable" /\ run.set \notin run'.stale =>
          \A f \in works'[run.set].hrs \ works[run.set].hrs :
             \A g \in works'[run.set].hrs \ {f} :
                Group[f] = Group[g] /\ Group[f] # NoGroup =>
                   g \in works[run.set].hrs /\ g \notin run.enabled ]_vars

\* The feature lists that can be installed as a whole.
Serviceable ==
    {fs \in FeatureList : Renderable(Closure[{}][fs]) /\ Closure[{}][fs] \subseteq HubCatalogue}

\* Its feature sets hold what the profile asks for, with the profile's values,
\* and nothing else, but for features of an exclusion group.
Settled ==
    LET info == Closure[Blocked(claim)][profile.features]
    IN  \A w \in SetsOf(info) :
            /\ works[w].rev = profile.rev
            /\ works[w].hrs \subseteq info
            /\ \A f \in info \ Elsewhere :
                  /\ SetOf[f] = w
                  /\ w = Core \/ (f \notin Blocked(claim) /\ Group[f] = NoGroup)
                  => f \in works[w].hrs

\* One completed run is enough: unless profile or claim moved meanwhile or a
\* read was stale, it leaves the cluster settled, whatever was there before.
DoneIsSettled ==
    /\ pc = "done" /\ ~run.moved /\ run.stale = {}
    /\ profile = run.p /\ Blocked(claim) = run.blocked
    => Settled

\* A new cluster gets its features although the claim they wait for comes from
\* one of them; once the edits stop, what the profile asks for is installed,
\* whatever was written from a stale cache or a claim in motion meanwhile.
Converges == <>[](profile.features \in Serviceable => Settled)
================================================================================

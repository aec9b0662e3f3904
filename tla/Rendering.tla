------------------------------- MODULE Rendering -------------------------------
(***************************************************************************)
(* The spec of one HelmRelease, as the installation and the upgrade render *)
(* it from the chart, the Feature, the profile and the binding, and as the *)
(* ManifestWork on the hub keeps it.  Values are JSON documents, each the  *)
(* function from the paths in it to what is there: "map", "list" or the    *)
(* leaf.  Version and namespace 0 stand for the empty string; a source     *)
(* that may be missing is a set of at most one element.                    *)
(* Calls, caches and feedback are those of Upgrade and Installer.          *)
(***************************************************************************)
EXTENDS Naturals, SequencesExt

CONSTANTS
    ChartValues,     \* values the feature set chart may ship for the feature
    FeatureValues,   \* values its Feature may have
    ProfileValues,   \* values a profile may give it
    BindingValues,   \* values a binding may give it
    Version,         \* chart versions
    Namespace,       \* namespaces a profile may name
    FeatureNamespace \* the one the Feature names

VARIABLES
    kind,     \* "core": opscenter-features itself; "feature": another feature
    src,      \* the sources of its spec
    stored,   \* the spec in the ManifestWork
    last      \* history: the last write, and the one before it from the same sources

vars == <<kind, src, stored, last>>

Empty == [p \in {} |-> "map"]

(***************************************************************************)
(* A document is a function, and above each of its nodes, up to the root,  *)
(* there is a map or a list.                                               *)
(***************************************************************************)
IsDocument(d) ==
    /\ d = [p \in DOMAIN d |-> d[p]]
    /\ \A p \in DOMAIN d :
          /\ Len(p) > 0
          /\ Len(p) > 1 => Front(p) \in DOMAIN d /\ d[Front(p)] \in {"map", "list"}

ASSUME ValuesAssumption ==
    \A d \in ChartValues \cup FeatureValues \cup ProfileValues \cup BindingValues : IsDocument(d)

The(o)     == CHOOSE x \in o : TRUE
OrEmpty(o) == IF o = {} THEN Empty ELSE The(o)

Optional(S) == {{}} \cup {{x} : x \in S}

(***************************************************************************)
(* catalogue: the chart version of the Feature; for opscenter-features the *)
(* version its binding names.  pin: the chart the profile names.           *)
(***************************************************************************)
Pins == Optional([version : Version, ns : Namespace \cup {0}])

Sources == [chart     : Optional(ChartValues),
            feature   : Optional(FeatureValues),
            profile   : Optional(ProfileValues),
            binding   : Optional(BindingValues),
            catalogue : Version,
            pin       : Pins]

NoWrite == [op |-> "none", prev |-> "none", changed |-> FALSE, grew |-> FALSE, differs |-> FALSE]

Init ==
    /\ kind \in {"core", "feature"}
    /\ src \in Sources
    /\ stored = {}
    /\ last = NoWrite

--------------------------------------------------------------------------------
\* Mutant: a map of b replaces a map of a.
MergeShallow(a, b) ==
    LET under == {p \in DOMAIN a : \A q \in DOMAIN b : ~IsStrictPrefix(q, p)}
    IN  [p \in DOMAIN b \cup under |-> IF p \in DOMAIN b THEN b[p] ELSE a[p]]

(***************************************************************************)
(* MergeMaps: what b says overrides a.  A node of a goes with one above it *)
(* that b overrides, unless both have a map there.                         *)
(***************************************************************************)
MergeMaps(a, b) ==
    LET under == {p \in DOMAIN a : \A q \in DOMAIN b :
                     IsStrictPrefix(q, p) => a[q] = "map" /\ b[q] = "map"}
    IN  [p \in DOMAIN b \cup under |-> IF p \in DOMAIN b THEN b[p] ELSE a[p]]

\* pruneNulls: the nulls go, but for those that are elements of a list.
InList(d, p) == Front(p) \in DOMAIN d /\ d[Front(p)] = "list"

PruneNulls(d) == [p \in {p \in DOMAIN d : d[p] # "null" \/ InList(d, p)} |-> d[p]]

Pruned(spec) == [spec EXCEPT !.values = PruneNulls(@)]

\* The cluster's identity replaces what a user wrote under clusterMetadata.
GetOverrideValues(d) ==
    LET others == {p \in DOMAIN d : Head(p) # "clusterMetadata"}
    IN  [p \in others \cup {<<"clusterMetadata">>} |-> IF p \in others THEN d[p] ELSE "uid"]

(***************************************************************************)
(* EnableFeatures.  For opscenter-features the profile's values and the    *)
(* cluster's identity are merged over the chart's defaults, and the        *)
(* version is the profile's.  For other features the Feature's values      *)
(* replace the chart's, the profile's are merged over them, and the        *)
(* profile pins version and namespace.  The binding's values replace all.  *)
(***************************************************************************)
CoreOverrides(s) == GetOverrideValues(OrEmpty(s.profile))

CoreValues(s) ==
    IF s.binding # {} THEN The(s.binding) ELSE MergeMaps(OrEmpty(s.chart), CoreOverrides(s))

CreateHelmRelease(s) ==
    [version |-> IF s.pin # {} THEN The(s.pin).version ELSE 0,
     ns      |-> FeatureNamespace,
     values  |-> CoreValues(s)]

InstalledValues(s) ==
    IF s.binding # {} THEN The(s.binding)
    ELSE MergeMaps(IF s.feature # {} THEN The(s.feature) ELSE OrEmpty(s.chart),
                   OrEmpty(s.profile))

GenerateHelmRelease(s) ==
    [version |-> IF s.pin # {} THEN The(s.pin).version ELSE s.catalogue,
     ns      |-> IF s.pin # {} THEN The(s.pin).ns ELSE FeatureNamespace,
     values  |-> InstalledValues(s)]

InstalledSpec(s) == IF kind = "core" THEN CreateHelmRelease(s) ELSE GenerateHelmRelease(s)

(***************************************************************************)
(* applyUpgrade: the Feature's values are merged over the chart's, those   *)
(* of opscenter-features come from the binding.  The version is the        *)
(* catalogue's; an empty namespace keeps the one in place.                 *)
(***************************************************************************)
UpgradedCoreValues(s) == MergeMaps(OrEmpty(s.chart), GetOverrideValues(The(s.binding)))

\* Mutant: the Feature's values are merged over the profile's.
UpgradedProfileFirst(s) ==
    IF s.binding # {} THEN The(s.binding)
    ELSE MergeMaps(MergeMaps(OrEmpty(s.chart), OrEmpty(s.profile)), OrEmpty(s.feature))

UpgradedValues(s) ==
    IF s.binding # {} THEN The(s.binding)
    ELSE MergeMaps(MergeMaps(OrEmpty(s.chart), OrEmpty(s.feature)), OrEmpty(s.profile))

UpgradedNamespace(s) == IF s.pin # {} THEN The(s.pin).ns ELSE FeatureNamespace

UpgradedCore(s, old) ==
    [version |-> s.catalogue, ns |-> old.ns, values |-> UpgradedCoreValues(s)]

UpgradedFeature(s, old) ==
    [version |-> s.catalogue,
     ns      |-> IF UpgradedNamespace(s) = 0 THEN old.ns ELSE UpgradedNamespace(s),
     values  |-> UpgradedValues(s)]

UpgradedSpec(s, old) ==
    IF kind = "core" THEN UpgradedCore(s, old) ELSE UpgradedFeature(s, old)

\* Mutant: the documents are compared as they are.
SpecChangedRaw(old, new) == old # new

SpecChanged(old, new) == Pruned(old) # Pruned(new)

(***************************************************************************)
(* CreateOrPatch of the ManifestWork.  A create keeps the document as it   *)
(* is; a merge patch, sent only if the document differs from the stored    *)
(* one, drops its nulls.                                                   *)
(***************************************************************************)
Store(o, new) == IF o = {} THEN new ELSE IF new = The(o) THEN new ELSE Pruned(new)

Write(op, new, changed) ==
    LET now == Store(stored, new)
    IN  /\ stored' = {now}
        /\ last' = [op |-> op, prev |-> last.op, changed |-> changed,
                    grew |-> {now} # stored,
                    differs |-> stored # {} /\ Pruned(now) # Pruned(The(stored))]
        /\ UNCHANGED <<kind, src>>

Install == Write("install", InstalledSpec(src), FALSE)

\* Without opscenter-features values in the binding there is no upgrade.
Upgrade ==
    /\ stored # {}
    /\ kind = "core" => src.binding # {}
    /\ LET new == UpgradedSpec(src, The(stored))
       IN  Write("upgrade", new, SpecChanged(The(stored), new))

(***************************************************************************)
(* Another catalogue, profile or binding: any source changes.              *)
(***************************************************************************)
Edit(s) ==
    /\ s # src
    /\ src' = s
    /\ last' = NoWrite
    /\ UNCHANGED <<kind, stored>>

Edits ==
    \/ \E c \in Optional(ChartValues) : Edit([src EXCEPT !.chart = c])
    \/ \E f \in Optional(FeatureValues) : Edit([src EXCEPT !.feature = f])
    \/ \E p \in Optional(ProfileValues) : Edit([src EXCEPT !.profile = p])
    \/ \E b \in Optional(BindingValues) : Edit([src EXCEPT !.binding = b])
    \/ \E v \in Version : Edit([src EXCEPT !.catalogue = v])
    \/ \E p \in Pins : Edit([src EXCEPT !.pin = p])

Next == Install \/ Upgrade \/ Edits

Spec == Init /\ [][Next]_vars
--------------------------------------------------------------------------------
\* newUpgradeTarget waits for one more generation exactly if specChanged says
\* so: the write must then really change the stored manifest, or the run waits
\* for a generation the spoke never reaches, and fails on every retry.
ReachesGeneration == last.op = "upgrade" /\ last.changed => last.grew

\* The sources from which installation and upgrade do not render the same: the
\* profile names another version, the namespace is empty, or both the chart and
\* the Feature bring values, of which the installation takes the latter only.
\* For opscenter-features the upgrade adds defaults and the cluster's identity.
Diverging(s) ==
    \/ kind = "core"
    \/ s.pin # {} /\ The(s.pin).version # s.catalogue
    \/ UpgradedNamespace(s) = 0
    \/ s.binding = {} /\ s.chart # {} /\ s.feature # {}

\* An upgrade and the installation that follows it, or the other way round,
\* leave the HelmRelease alone, so that neither restarts the other's rollout,
\* but for diverging sources; a path that is taken twice always does.
PathsAgree == last.prev # "none" /\ last.differs => last.op # last.prev /\ Diverging(src)
================================================================================

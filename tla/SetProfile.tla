------------------------------ MODULE SetProfile -------------------------------
(***************************************************************************)
(* The reconciler of ManagedClusterSetProfiles.  A profile has the name of *)
(* its ManagedClusterSet; every cluster of the set gets a                  *)
(* ManagedClusterProfileBinding that refers to the profile and is owned by *)
(* it.  A profile without its set is deleted, and the garbage collector    *)
(* deletes the bindings of a deleted profile.                              *)
(*                                                                         *)
(* One worker reconciles one profile at a time.  It reads sets, profiles,  *)
(* clusters and bindings from four informer caches, each of which may be   *)
(* behind the API server; only changes of profiles and sets wake it.       *)
(* Users change all four kinds meanwhile.                                  *)
(***************************************************************************)
EXTENDS Naturals, FiniteSets

CONSTANTS
    ClusterSet,     \* names of cluster sets and of their profiles
    Cluster,        \* managed clusters
    NoSet,          \* the set of a cluster without the clusterset label
    OpenShift,      \* clusters whose cluster managers name OpenShift
    Joined,         \* the cluster sets of the clusters at first
    Informed,       \* the clusters that have a cluster-info claim at first
    Version,        \* versions a user may put into a binding
    MaxInfo,        \* bound on revisions of a cluster's cluster-info claim
    MaxEdits,       \* bound on changes by users
    MaxFaults       \* bound on failing calls and restarts

ASSUME SetAssumption ==
    /\ NoSet \notin ClusterSet
    /\ IsFiniteSet(Cluster)
    /\ OpenShift \subseteq Cluster /\ Informed \subseteq Cluster
    /\ Joined \in [Cluster -> ClusterSet \cup {NoSet}]
    /\ Version \subseteq Nat \ {0}

ASSUME LimitAssumption == MaxInfo \in Nat /\ MaxEdits \in Nat /\ MaxFaults \in Nat

VARIABLES
    server,     \* the objects on the API server
    cache,      \* the informers' copies of them
    lastUid,    \* the UID given to the last profile
    queue,      \* profiles in the work queue
    pc,         \* the next call of the running reconcile
    run,        \* its local variables
    edits,
    faults

vars == <<server, cache, lastUid, queue, pc, run, edits, faults>>

--------------------------------------------------------------------------------
\* A set, with the number of clusters OCM writes into its status.
SetObject == [exists : BOOLEAN, count : Nat]

\* A cluster's set, and the revision of its cluster-info claim: 0 if it is
\* missing or malformed.
ClusterObject == [set : ClusterSet \cup {NoSet}, info : Nat]

Binding == [exists  : BOOLEAN,
            ref     : ClusterSet \cup {NoSet},    \* spec.profileRef
            owner   : ClusterSet \cup {NoSet},    \* name in its owner reference,
            uid     : Nat,                        \* and UID
            info    : Nat,                        \* spec.clusterMetadata
            version : Version \cup {0},           \* spec.opscenterFeaturesVersion
            shifter : BOOLEAN]                    \* spec.features has aceshifter

Objects == [sets     : [ClusterSet -> SetObject],
            profiles : [ClusterSet -> Nat],       \* UID, 0 if it does not exist
            clusters : [Cluster -> ClusterObject],
            bindings : [Cluster -> Binding]]

NoBinding == [exists |-> FALSE, ref |-> NoSet, owner |-> NoSet, uid |-> 0,
              info |-> 0, version |-> 0, shifter |-> FALSE]

RunType == [key  : ClusterSet \cup {NoSet},       \* the profile,
            uid  : Nat,                           \* its UID,
            todo : SUBSET Cluster,                \* clusters left in the loop,
            info : [Cluster -> Nat],              \* their metadata,
            c    : SUBSET Cluster,                \* the one in hand,
            seen : Binding]                       \* and its binding as listed

NoRun == [key |-> NoSet, uid |-> 0, todo |-> {}, info |-> [c \in Cluster |-> 0],
          c |-> {}, seen |-> NoBinding]

TypeOK ==
    /\ server \in Objects
    /\ cache \in Objects
    /\ lastUid \in Nat
    /\ queue \in SUBSET ClusterSet
    /\ pc \in {"idle", "set", "clusters", "patch"}
    /\ run \in RunType
    /\ edits \in Nat
    /\ faults \in Nat

Members(s) == {c \in Cluster : server.clusters[c].set = s}

(***************************************************************************)
(* The controller starts on a hub whose sets have a profile each; the      *)
(* clusters may still lack their cluster-info claim.                       *)
(***************************************************************************)
Init ==
    /\ server = [sets     |-> [s \in ClusterSet |->
                    [exists |-> TRUE, count |-> Cardinality({c \in Cluster : Joined[c] = s})]],
                 profiles |-> [s \in ClusterSet |-> 1],
                 clusters |-> [c \in Cluster |->
                    [set |-> Joined[c], info |-> IF c \in Informed THEN 1 ELSE 0]],
                 bindings |-> [c \in Cluster |-> NoBinding]]
    /\ cache = server
    /\ lastUid = 1
    /\ queue = ClusterSet
    /\ pc = "idle"
    /\ run = NoRun
    /\ edits = 0
    /\ faults = 0

--------------------------------------------------------------------------------
\* How a reconcile ends: an error puts the key back on the queue.
Done  == pc' = "idle" /\ run' = NoRun /\ UNCHANGED queue
Again == pc' = "idle" /\ run' = NoRun /\ queue' = queue \cup {run.key}

world == <<cache, lastUid, edits, faults>>

Reconcile(s) ==
    /\ pc = "idle" /\ s \in queue
    /\ queue' = queue \ {s}
    /\ IF cache.profiles[s] = 0
         THEN UNCHANGED <<pc, run>>
         ELSE /\ pc' = "set"
              /\ run' = [NoRun EXCEPT !.key = s, !.uid = cache.profiles[s]]
    /\ UNCHANGED <<world, server>>

\* Mutant: a profile without its set is left alone.
DeleteNothing ==
    /\ pc = "set"
    /\ ~cache.sets[run.key].exists
    /\ server.profiles[run.key] # 0
    /\ Done
    /\ UNCHANGED <<world, server>>

(***************************************************************************)
(* The set is gone: the profile is deleted by name, whatever its UID is by *)
(* now.  The reconcile goes on with an empty cluster set, whose selector   *)
(* no cluster matches.                                                     *)
(***************************************************************************)
DeleteProfile ==
    /\ pc = "set"
    /\ ~cache.sets[run.key].exists
    /\ server.profiles[run.key] # 0
    /\ server' = [server EXCEPT !.profiles[run.key] = 0]
    /\ Done
    /\ UNCHANGED world

DeleteNotFound ==
    /\ pc = "set"
    /\ ~cache.sets[run.key].exists
    /\ server.profiles[run.key] = 0
    /\ Again
    /\ UNCHANGED <<world, server>>

ListClusters ==
    /\ pc = "set"
    /\ cache.sets[run.key].exists
    /\ pc' = "clusters"
    /\ run' = [run EXCEPT
                  !.todo = {c \in Cluster : cache.clusters[c].set = run.key},
                  !.info = [c \in Cluster |-> cache.clusters[c].info]]
    /\ UNCHANGED <<world, server, queue>>

(***************************************************************************)
(* The loop over the clusters, in the order the cache lists them: none in  *)
(* particular.  GetClusterMetadata fails without a cluster-info claim, and *)
(* the clusters after it have to wait for the retry.                       *)
(***************************************************************************)
NoMetadata(c) ==
    /\ pc = "clusters" /\ c \in run.todo
    /\ run.info[c] = 0
    /\ Again
    /\ UNCHANGED <<world, server>>

ListBindings(c) ==
    /\ pc = "clusters" /\ c \in run.todo
    /\ run.info[c] # 0
    /\ pc' = "patch"
    /\ run' = [run EXCEPT !.c = {c}, !.seen = cache.bindings[c]]
    /\ UNCHANGED <<world, server, queue>>

AllBound ==
    /\ pc = "clusters" /\ run.todo = {}
    /\ Done
    /\ UNCHANGED <<world, server>>

\* Mutant: the version field gets the revision of the metadata.
WantedMixed(c) ==
    [exists  |-> TRUE, ref |-> run.key, owner |-> run.key, uid |-> run.uid,
     info    |-> run.info[c],
     version |-> run.info[c],
     shifter |-> run.seen.shifter \/ c \in OpenShift]

\* The binding the reconcile asks for: what a user chose is taken over from
\* the list.
Wanted(c) ==
    [exists  |-> TRUE, ref |-> run.key, owner |-> run.key, uid |-> run.uid,
     info    |-> run.info[c],
     version |-> run.seen.version,
     shifter |-> run.seen.shifter \/ c \in OpenShift]

(***************************************************************************)
(* CreateOrPatch.  A missing binding is created, which fails if it exists  *)
(* after all; otherwise the fields in which the wanted binding differs     *)
(* from the cached one are written, which fails if it is gone.  The owner  *)
(* reference is one field.                                                 *)
(***************************************************************************)
Writable(c) == cache.bindings[c].exists <=> server.bindings[c].exists

\* Mutant: an update of the whole object.
UpdateWhole(cur, mod, srv) == [mod EXCEPT !.exists = cur.exists \/ ~srv.exists]

\* Mutant: the owner reference is set at creation only.
PatchSpecOnly(cur, mod, srv) ==
    IF ~cur.exists THEN mod
    ELSE [srv EXCEPT !.ref     = IF mod.ref # cur.ref THEN mod.ref ELSE @,
                     !.info    = IF mod.info # cur.info THEN mod.info ELSE @,
                     !.version = IF mod.version # cur.version THEN mod.version ELSE @]

\* Mutant: a binding that exists is left as it is.
CreateOnly(cur, mod, srv) == IF ~cur.exists THEN mod ELSE srv

MergePatch(cur, mod, srv) ==
    IF ~cur.exists THEN mod
    ELSE [srv EXCEPT
            !.ref     = IF mod.ref # cur.ref THEN mod.ref ELSE @,
            !.owner   = IF mod.owner # cur.owner \/ mod.uid # cur.uid THEN mod.owner ELSE @,
            !.uid     = IF mod.owner # cur.owner \/ mod.uid # cur.uid THEN mod.uid ELSE @,
            !.info    = IF mod.info # cur.info THEN mod.info ELSE @,
            !.version = IF mod.version # cur.version THEN mod.version ELSE @,
            !.shifter = IF mod.shifter # cur.shifter THEN mod.shifter ELSE @]

PatchBinding ==
    /\ pc = "patch"
    /\ \A c \in run.c : Writable(c)
    /\ server' = [server EXCEPT !.bindings =
                     [c \in Cluster |-> IF c \in run.c
                                          THEN MergePatch(cache.bindings[c], Wanted(c), @[c])
                                          ELSE @[c]]]
    /\ pc' = "clusters"
    /\ run' = [run EXCEPT !.todo = @ \ run.c, !.c = {}, !.seen = NoBinding]
    /\ UNCHANGED <<world, queue>>

PatchFails ==
    /\ pc = "patch"
    /\ \E c \in run.c : ~Writable(c)
    /\ Again
    /\ UNCHANGED <<world, server>>

CallFails ==
    /\ pc # "idle"
    /\ faults < MaxFaults /\ faults' = faults + 1
    /\ Again
    /\ UNCHANGED <<server, cache, lastUid, edits>>

\* A new process fills its caches and reconciles every profile.
Restart ==
    /\ faults < MaxFaults /\ faults' = faults + 1
    /\ cache' = server
    /\ queue' = {s \in ClusterSet : server.profiles[s] # 0}
    /\ pc' = "idle" /\ run' = NoRun
    /\ UNCHANGED <<server, lastUid, edits>>
--------------------------------------------------------------------------------
(***************************************************************************)
(* Informers.  A change of a profile enqueues it; a change of a set, its   *)
(* status included, enqueues the profile of its name if the cache has one. *)
(***************************************************************************)
still == <<server, lastUid, pc, run, edits, faults>>

SyncProfiles ==
    /\ cache.profiles # server.profiles
    /\ cache' = [cache EXCEPT !.profiles = server.profiles]
    /\ queue' = queue \cup {s \in ClusterSet : cache.profiles[s] # server.profiles[s]}
    /\ UNCHANGED still

\* mapManagedClusterSetToProfile
SyncSets ==
    /\ cache.sets # server.sets
    /\ cache' = [cache EXCEPT !.sets = server.sets]
    /\ queue' = queue \cup {s \in ClusterSet : /\ cache.sets[s] # server.sets[s]
                                               /\ cache.profiles[s] # 0}
    /\ UNCHANGED still

SyncClusters ==
    /\ cache.clusters # server.clusters
    /\ cache' = [cache EXCEPT !.clusters = server.clusters]
    /\ UNCHANGED <<still, queue>>

SyncBindings ==
    /\ cache.bindings # server.bindings
    /\ cache' = [cache EXCEPT !.bindings = server.bindings]
    /\ UNCHANGED <<still, queue>>

\* Every ten hours the informer delivers its profiles again.
Resync(s) ==
    /\ pc = "idle" /\ s \notin queue /\ cache.profiles[s] # 0
    /\ queue' = queue \cup {s}
    /\ UNCHANGED <<still, cache>>
--------------------------------------------------------------------------------
(***************************************************************************)
(* The hub around the controller: the garbage collector, and OCM, which    *)
(* counts the clusters of a set in its status.                             *)
(***************************************************************************)
Writes(objects) ==
    /\ server' = objects
    /\ UNCHANGED <<cache, queue, pc, run, faults>>

Collect(c) ==
    LET b == server.bindings[c]
    IN  /\ b.exists
        /\ b.owner \in ClusterSet => server.profiles[b.owner] # b.uid
        /\ Writes([server EXCEPT !.bindings[c] = NoBinding])
        /\ UNCHANGED <<lastUid, edits>>

CountClusters(s) ==
    /\ server.sets[s].exists
    /\ server.sets[s].count # Cardinality(Members(s))
    /\ Writes([server EXCEPT !.sets[s].count = Cardinality(Members(s))])
    /\ UNCHANGED <<lastUid, edits>>

(***************************************************************************)
(* Users.                                                                  *)
(***************************************************************************)
Edits == edits < MaxEdits /\ edits' = edits + 1

MoveCluster(c, s) ==
    /\ Edits /\ server.clusters[c].set # s
    /\ Writes([server EXCEPT !.clusters[c].set = s])
    /\ UNCHANGED lastUid

\* The claim appears or changes.
ReportInfo(c) ==
    /\ Edits /\ server.clusters[c].info < MaxInfo
    /\ Writes([server EXCEPT !.clusters[c].info = @ + 1])
    /\ UNCHANGED lastUid

EditVersion(c, v) ==
    /\ Edits /\ server.bindings[c].exists /\ server.bindings[c].version # v
    /\ Writes([server EXCEPT !.bindings[c].version = v])
    /\ UNCHANGED lastUid

CreateProfile(s) ==
    /\ Edits /\ server.profiles[s] = 0
    /\ Writes([server EXCEPT !.profiles[s] = lastUid + 1])
    /\ lastUid' = lastUid + 1

RemoveProfile(s) ==
    /\ Edits /\ server.profiles[s] # 0
    /\ Writes([server EXCEPT !.profiles[s] = 0])
    /\ UNCHANGED lastUid

ToggleSet(s) ==
    /\ Edits
    /\ Writes([server EXCEPT !.sets[s] = [exists |-> ~@.exists, count |-> 0]])
    /\ UNCHANGED lastUid
--------------------------------------------------------------------------------
Controller ==
    \/ \E s \in ClusterSet : Reconcile(s)
    \/ DeleteProfile \/ DeleteNotFound
    \/ ListClusters
    \/ \E c \in Cluster : NoMetadata(c) \/ ListBindings(c)
    \/ AllBound
    \/ PatchBinding \/ PatchFails

Informers ==
    \/ SyncProfiles \/ SyncSets \/ SyncClusters \/ SyncBindings
    \/ \E s \in ClusterSet : Resync(s)

Hub == (\E c \in Cluster : Collect(c)) \/ (\E s \in ClusterSet : CountClusters(s))

Users ==
    \/ \E c \in Cluster : \/ \E s \in ClusterSet \cup {NoSet} : MoveCluster(c, s)
                          \/ ReportInfo(c)
                          \/ \E v \in Version : EditVersion(c, v)
    \/ \E s \in ClusterSet : CreateProfile(s) \/ RemoveProfile(s) \/ ToggleSet(s)

Next == Controller \/ Informers \/ Hub \/ Users \/ CallFails \/ Restart

Spec == Init /\ [][Next]_vars

(***************************************************************************)
(* Fairness.  The work queue is first in, first out, and the informer      *)
(* delivers every profile again, so every key comes into the queue and     *)
(* gets its turn; the cache lists a set's clusters in the order of a Go    *)
(* map, so every cluster is met before the one that fails some time.       *)
(* Informers catch up; the garbage collector and OCM do their work.        *)
(***************************************************************************)
FairSpec ==
    /\ Spec
    /\ WF_vars(Controller)
    /\ \A s \in ClusterSet : SF_vars(Reconcile(s) \/ Resync(s))
    /\ \A c \in Cluster : SF_vars(ListBindings(c))
    /\ WF_vars(SyncProfiles) /\ WF_vars(SyncSets)
    /\ WF_vars(SyncClusters) /\ WF_vars(SyncBindings)
    /\ WF_vars(Hub)
--------------------------------------------------------------------------------
(***************************************************************************)
(* Properties                                                              *)
(***************************************************************************)

\* A step of the reconciler changes the version of a binding that stays only
\* if the informer delivered a change between its List and its Get: a cache
\* that is merely old does not undo what the user wrote.
VersionKept ==
    [][ pc = "patch" /\ pc' = "clusters" =>
          \A c \in run.c :
             server.bindings[c].exists /\ server'.bindings[c].version # server.bindings[c].version
             => cache.bindings[c] # run.seen ]_vars

\* The profile a binding refers to is the one that owns it, so that it lives
\* as long as that profile; only a patch computed from a stale copy of the
\* binding tears the two apart.
TornOnlyStale ==
    [][ \A c \in Cluster :
          LET b == server'.bindings[c]
          IN  b.ref # b.owner /\ server.bindings[c].ref = server.bindings[c].owner
              => cache.bindings[c] # server.bindings[c] ]_vars

\* A reconciler at rest whose caches of profiles and sets are up to date has
\* left no profile without its set: no order of deletions, re-creations under
\* the same name and events loses the one event that tells of it.
NoOrphanForgotten ==
    \A s \in ClusterSet :
        /\ pc = "idle" /\ s \notin queue
        /\ cache.profiles[s] = server.profiles[s] /\ cache.sets[s] = server.sets[s]
        /\ ~server.sets[s].exists
        => server.profiles[s] = 0

\* Once the users stop, every cluster with metadata in a set that has a
\* profile has its binding, whatever became of earlier profiles, moves between
\* sets, and clusters of the set without metadata.
Bound(c) ==
    LET b == server.bindings[c]
        s == server.clusters[c].set
    IN  b.exists /\ b.ref = s /\ b.owner = s /\ b.uid = server.profiles[s]
        /\ b.info = server.clusters[c].info /\ (c \in OpenShift => b.shifter)

EveryClusterBound ==
    <>[](\A c \in Cluster : \A s \in ClusterSet :
            /\ server.clusters[c].set = s /\ server.clusters[c].info # 0
            /\ server.profiles[s] # 0 /\ server.sets[s].exists
            => Bound(c))

\* A profile without its set goes away, and with it the bindings it owns.
OrphansGo ==
    <>[](/\ \A s \in ClusterSet : server.profiles[s] # 0 => server.sets[s].exists
         /\ \A c \in Cluster : LET b == server.bindings[c]
                               IN  b.exists => server.profiles[b.owner] = b.uid)
================================================================================

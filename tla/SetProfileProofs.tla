--------------------------- MODULE SetProfileProofs ----------------------------
(***************************************************************************)
(* Theorems about SetProfile, for all sets, clusters, versions and bounds. *)
(* The two action properties need only that the state is well typed.       *)
(***************************************************************************)
EXTENDS SetProfile, FiniteSetTheorems, TLAPS

--------------------------------------------------------------------------------
\* The number of clusters of a set is a natural number.
LEMMA CountType == ASSUME NEW s PROVE Cardinality(Members(s)) \in Nat
  <1>1. Members(s) \subseteq Cluster
    BY DEF Members
  <1>2. IsFiniteSet(Members(s))
    BY <1>1, SetAssumption, FS_Subset
  <1> QED
    BY <1>2, FS_CardinalityType

\* The values a reconcile starts with.
LEMMA NothingType == NoBinding \in Binding /\ NoRun \in RunType
  <1>1. NoBinding \in Binding
    BY DEF NoBinding, Binding
  <1> QED
    BY <1>1 DEF NoRun, RunType

\* The parts of the objects, and objects from parts.
LEMMA Parts ==
  ASSUME NEW o \in Objects
  PROVE  /\ o.sets \in [ClusterSet -> SetObject]
         /\ o.profiles \in [ClusterSet -> Nat]
         /\ o.clusters \in [Cluster -> ClusterObject]
         /\ o.bindings \in [Cluster -> Binding]
         /\ \A x \in [ClusterSet -> SetObject] : [o EXCEPT !.sets = x] \in Objects
         /\ \A x \in [ClusterSet -> Nat] : [o EXCEPT !.profiles = x] \in Objects
         /\ \A x \in [Cluster -> ClusterObject] : [o EXCEPT !.clusters = x] \in Objects
         /\ \A x \in [Cluster -> Binding] : [o EXCEPT !.bindings = x] \in Objects
  BY DEF Objects

\* CreateOrPatch leaves a binding.
LEMMA PatchType ==
  ASSUME NEW cur \in Binding, NEW mod \in Binding, NEW srv \in Binding
  PROVE  MergePatch(cur, mod, srv) \in Binding
  <1>1. CASE ~cur.exists
    BY <1>1 DEF MergePatch
  <1>2. CASE cur.exists
    <2> DEFINE own == mod.owner # cur.owner \/ mod.uid # cur.uid
    <2>1. /\ (IF mod.ref # cur.ref THEN mod.ref ELSE srv.ref) \in ClusterSet \cup {NoSet}
          /\ (IF own THEN mod.owner ELSE srv.owner) \in ClusterSet \cup {NoSet}
          /\ (IF own THEN mod.uid ELSE srv.uid) \in Nat
          /\ (IF mod.info # cur.info THEN mod.info ELSE srv.info) \in Nat
          /\ (IF mod.version # cur.version THEN mod.version ELSE srv.version) \in Version \cup {0}
      BY DEF Binding
    <2>2. (IF mod.shifter # cur.shifter THEN mod.shifter ELSE srv.shifter) \in BOOLEAN
      BY DEF Binding
    <2>3. MergePatch(cur, mod, srv) =
            [exists  |-> srv.exists,
             ref     |-> IF mod.ref # cur.ref THEN mod.ref ELSE srv.ref,
             owner   |-> IF own THEN mod.owner ELSE srv.owner,
             uid     |-> IF own THEN mod.uid ELSE srv.uid,
             info    |-> IF mod.info # cur.info THEN mod.info ELSE srv.info,
             version |-> IF mod.version # cur.version THEN mod.version ELSE srv.version,
             shifter |-> IF mod.shifter # cur.shifter THEN mod.shifter ELSE srv.shifter]
      BY <1>2 DEF MergePatch, Binding
    <2> QED
      BY <2>1, <2>2, <2>3 DEF Binding
  <1> QED
    BY <1>1, <1>2

\* What the reconcile asks for is a binding.
LEMMA WantedType == ASSUME TypeOK, NEW c \in Cluster PROVE Wanted(c) \in Binding
  <1>1. /\ run.key \in ClusterSet \cup {NoSet} /\ run.uid \in Nat
        /\ run.info \in [Cluster -> Nat] /\ run.seen \in Binding
    BY DEF TypeOK, RunType
  <1> QED
    BY <1>1 DEF Wanted, Binding

\* The initial state is well typed.
LEMMA TypeInit == Init => TypeOK
  <1> SUFFICES ASSUME Init PROVE TypeOK
    OBVIOUS
  <1>1. \A s \in ClusterSet : Cardinality({c \in Cluster : Joined[c] = s}) \in Nat
    <2>1. \A s \in ClusterSet : IsFiniteSet({c \in Cluster : Joined[c] = s})
      BY SetAssumption, FS_Subset
    <2> QED
      BY <2>1, FS_CardinalityType
  <1>2. server \in Objects
    BY <1>1, NothingType, SetAssumption DEF Init, Objects, SetObject, ClusterObject
  <1> QED
    BY <1>2, NothingType DEF Init, TypeOK
--------------------------------------------------------------------------------
(***************************************************************************)
(* A reconcile knows its profile; without that, an error would put no key  *)
(* back on the queue.                                                      *)
(***************************************************************************)
HasKey == pc # "idle" => run.key \in ClusterSet

Typed == TypeOK /\ HasKey

\* The steps that end a reconcile.
LEMMA TypeEnded ==
  ASSUME Typed, Done \/ (Again /\ pc # "idle"), server' \in Objects, cache' \in Objects,
         lastUid' \in Nat, edits' \in Nat, faults' \in Nat
  PROVE  Typed'
  BY NothingType DEF Typed, TypeOK, HasKey, Done, Again

\* The steps that leave the running reconcile alone.
LEMMA TypeAround ==
  ASSUME Typed, UNCHANGED <<pc, run>>, server' \in Objects, cache' \in Objects,
         queue' \in SUBSET ClusterSet, lastUid' \in Nat, edits' \in Nat, faults' \in Nat
  PROVE  Typed'
  BY DEF Typed, TypeOK, HasKey

\* Each step of the reconciler keeps the types.
LEMMA TypeController == ASSUME Typed, Controller PROVE Typed'
  <1> USE DEF world
  <1>1. /\ server \in Objects /\ cache \in Objects /\ queue \in SUBSET ClusterSet
        /\ lastUid \in Nat /\ edits \in Nat /\ faults \in Nat /\ run \in RunType
    BY DEF Typed, TypeOK
  <1>2. ASSUME NEW s \in ClusterSet, Reconcile(s) PROVE Typed'
    <2>1. CASE cache.profiles[s] = 0
      BY <1>1, <1>2, <2>1, TypeAround DEF Reconcile
    <2>2. CASE cache.profiles[s] # 0
      <3>1. cache.profiles[s] \in Nat
        BY <1>1, Parts
      <3>2. run' = [NoRun EXCEPT !.key = s, !.uid = cache.profiles[s]]
        BY <1>2, <2>2 DEF Reconcile
      <3>3. run' \in RunType /\ run'.key = s
        BY <3>1, <3>2, NothingType DEF RunType
      <3> QED
        BY <1>1, <1>2, <2>2, <3>3 DEF Reconcile, Typed, TypeOK, HasKey
    <2> QED
      BY <2>1, <2>2
  <1>3. CASE DeleteProfile
    <2>1. run.key \in ClusterSet
      BY <1>3 DEF DeleteProfile, Typed, HasKey
    <2>2. [server.profiles EXCEPT ![run.key] = 0] \in [ClusterSet -> Nat]
      BY <1>1, Parts
    <2>3. server' = [server EXCEPT !.profiles = [server.profiles EXCEPT ![run.key] = 0]]
      BY <1>3 DEF DeleteProfile
    <2>4. server' \in Objects
      BY <1>1, <2>2, <2>3, Parts
    <2> QED
      BY <1>1, <1>3, <2>4, TypeEnded DEF DeleteProfile
  <1>4. CASE DeleteNotFound \/ AllBound \/ PatchFails
    BY <1>1, <1>4, TypeEnded DEF DeleteNotFound, AllBound, PatchFails
  <1>5. CASE ListClusters
    <2>1. [c \in Cluster |-> cache.clusters[c].info] \in [Cluster -> Nat]
      BY <1>1, Parts DEF ClusterObject
    <2>2. run' \in RunType /\ run'.key = run.key
      BY <1>1, <1>5, <2>1 DEF ListClusters, RunType
    <2> QED
      BY <1>1, <1>5, <2>2 DEF ListClusters, Typed, TypeOK, HasKey
  <1>6. ASSUME NEW c \in Cluster, NoMetadata(c) PROVE Typed'
    BY <1>1, <1>6, TypeEnded DEF NoMetadata
  <1>7. ASSUME NEW c \in Cluster, ListBindings(c) PROVE Typed'
    <2>1. cache.bindings[c] \in Binding
      BY <1>1, Parts
    <2>2. run' \in RunType /\ run'.key = run.key
      BY <1>1, <1>7, <2>1 DEF ListBindings, RunType
    <2> QED
      BY <1>1, <1>7, <2>2 DEF ListBindings, Typed, TypeOK, HasKey
  <1>8. CASE PatchBinding
    <2> DEFINE new == [c \in Cluster |->
                         IF c \in run.c
                           THEN MergePatch(cache.bindings[c], Wanted(c), server.bindings[c])
                           ELSE server.bindings[c]]
    <2>1. \A c \in Cluster : MergePatch(cache.bindings[c], Wanted(c), server.bindings[c]) \in Binding
      BY <1>1, Parts, WantedType, PatchType DEF Typed
    <2>2. new \in [Cluster -> Binding]
      BY <1>1, <2>1, Parts
    <2>3. server' = [server EXCEPT !.bindings = new]
      BY <1>8 DEF PatchBinding
    <2>4. server' \in Objects
      BY <1>1, <2>2, <2>3, Parts
    <2>5. run' \in RunType /\ run'.key = run.key
      BY <1>1, <1>8, NothingType DEF PatchBinding, RunType
    <2> QED
      BY <1>1, <1>8, <2>4, <2>5 DEF PatchBinding, Typed, TypeOK, HasKey
  <1> QED
    BY <1>2, <1>3, <1>4, <1>5, <1>6, <1>7, <1>8 DEF Controller, Typed

\* So do failures, informers, the hub and the users.
LEMMA TypeOthers ==
  ASSUME Typed, Informers \/ Hub \/ Users \/ CallFails \/ Restart
  PROVE  Typed'
  <1>1. /\ server \in Objects /\ cache \in Objects /\ queue \in SUBSET ClusterSet
        /\ lastUid \in Nat /\ edits \in Nat /\ faults \in Nat
    BY DEF Typed, TypeOK
  <1>2. CASE Informers
    <2>1. SyncProfiles => cache' \in Objects
      BY <1>1, Parts DEF SyncProfiles
    <2>2. SyncSets => cache' \in Objects
      BY <1>1, Parts DEF SyncSets
    <2>3. SyncClusters => cache' \in Objects
      BY <1>1, Parts DEF SyncClusters
    <2>4. SyncBindings => cache' \in Objects
      BY <1>1, Parts DEF SyncBindings
    <2> QED
      BY <1>1, <1>2, <2>1, <2>2, <2>3, <2>4, TypeAround
         DEF Informers, SyncProfiles, SyncSets, SyncClusters, SyncBindings, Resync, still
  <1>3. ASSUME NEW o \in Objects, Writes(o), lastUid' \in Nat, edits' \in Nat PROVE Typed'
    BY <1>1, <1>3, TypeAround DEF Writes
  <1>4. ASSUME NEW c \in Cluster, Collect(c) PROVE Typed'
    <2> DEFINE o == [server EXCEPT !.bindings[c] = NoBinding]
    <2>1. [server.bindings EXCEPT ![c] = NoBinding] \in [Cluster -> Binding]
      BY <1>1, Parts, NothingType
    <2>2. o \in Objects
      BY <1>1, <2>1, Parts
    <2> QED
      BY <1>1, <1>3, <1>4, <2>2 DEF Collect
  <1>5. ASSUME NEW s \in ClusterSet, CountClusters(s) PROVE Typed'
    <2> DEFINE o == [server EXCEPT !.sets[s].count = Cardinality(Members(s))]
    <2>1. [server.sets EXCEPT ![s].count = Cardinality(Members(s))] \in [ClusterSet -> SetObject]
      BY <1>1, Parts, CountType DEF SetObject
    <2>2. o \in Objects
      BY <1>1, <2>1, Parts
    <2> QED
      BY <1>1, <1>3, <1>5, <2>2 DEF CountClusters
  <1>6. ASSUME NEW c \in Cluster, NEW s \in ClusterSet \cup {NoSet}, MoveCluster(c, s) PROVE Typed'
    <2>1. [server.clusters EXCEPT ![c].set = s] \in [Cluster -> ClusterObject]
      BY <1>1, Parts DEF ClusterObject
    <2>2. [server EXCEPT !.clusters[c].set = s] \in Objects
      BY <1>1, <2>1, Parts
    <2> QED
      BY <1>1, <1>3, <1>6, <2>2 DEF MoveCluster, Edits
  <1>7. ASSUME NEW c \in Cluster, ReportInfo(c) PROVE Typed'
    <2>1. [server.clusters EXCEPT ![c].info = @ + 1] \in [Cluster -> ClusterObject]
      BY <1>1, Parts DEF ClusterObject
    <2>2. [server EXCEPT !.clusters[c].info = @ + 1] \in Objects
      BY <1>1, <2>1, Parts
    <2> QED
      BY <1>1, <1>3, <1>7, <2>2 DEF ReportInfo, Edits
  <1>8. ASSUME NEW c \in Cluster, NEW v \in Version, EditVersion(c, v) PROVE Typed'
    <2>0. [server.bindings[c] EXCEPT !.version = v] \in Binding
      <3>1. server.bindings[c] \in Binding
        BY <1>1, Parts
      <3> QED
        BY <3>1 DEF Binding
    <2>1. [server.bindings EXCEPT ![c].version = v] \in [Cluster -> Binding]
      BY <1>1, <2>0, Parts
    <2>2. [server EXCEPT !.bindings[c].version = v] \in Objects
      BY <1>1, <2>1, Parts
    <2> QED
      BY <1>1, <1>3, <1>8, <2>2 DEF EditVersion, Edits
  <1>9. ASSUME NEW s \in ClusterSet, CreateProfile(s) \/ RemoveProfile(s) PROVE Typed'
    <2>1. \A u \in Nat : [server.profiles EXCEPT ![s] = u] \in [ClusterSet -> Nat]
      BY <1>1, Parts
    <2>2. \A u \in Nat : [server EXCEPT !.profiles[s] = u] \in Objects
      BY <1>1, <2>1, Parts
    <2> QED
      BY <1>1, <1>3, <1>9, <2>2 DEF CreateProfile, RemoveProfile, Edits
  <1>10. ASSUME NEW s \in ClusterSet, ToggleSet(s) PROVE Typed'
    <2>1. [server.sets EXCEPT ![s] = [exists |-> ~@.exists, count |-> 0]]
             \in [ClusterSet -> SetObject]
      BY <1>1, Parts DEF SetObject
    <2>2. [server EXCEPT !.sets[s] = [exists |-> ~@.exists, count |-> 0]] \in Objects
      BY <1>1, <2>1, Parts
    <2> QED
      BY <1>1, <1>3, <1>10, <2>2 DEF ToggleSet, Edits
  <1>11. CASE CallFails
    BY <1>1, <1>11, TypeEnded DEF CallFails
  <1>12. CASE Restart
    BY <1>1, <1>12, NothingType DEF Restart, Typed, TypeOK, HasKey
  <1> QED
    BY <1>2, <1>4, <1>5, <1>6, <1>7, <1>8, <1>9, <1>10, <1>11, <1>12 DEF Hub, Users

\* Every step keeps the types.
LEMMA TypedStep == Typed /\ [Next]_vars => Typed'
  <1>1. Typed /\ UNCHANGED vars => Typed'
    BY DEF Typed, TypeOK, HasKey, vars
  <1> QED
    BY <1>1, TypeController, TypeOthers DEF Next

\* Every reachable state of the set-profile reconciler is well typed.
THEOREM TypeCorrect == Spec => []TypeOK
  <1>1. Init => Typed
    BY TypeInit DEF Typed, HasKey, Init
  <1>2. Typed => TypeOK
    BY DEF Typed
  <1> QED
    BY <1>1, <1>2, TypedStep, PTL DEF Spec
--------------------------------------------------------------------------------
(***************************************************************************)
(* What a patch may do to the bindings.                                    *)
(***************************************************************************)

\* A reconcile's patch reaches the binding it is about, and no other.
LEMMA PatchReaches ==
  ASSUME TypeOK, PatchBinding, NEW c \in Cluster
  PROVE  server'.bindings[c] =
           IF c \in run.c THEN MergePatch(cache.bindings[c], Wanted(c), server.bindings[c])
                          ELSE server.bindings[c]
  BY DEF PatchBinding, TypeOK, Objects

\* Users, caches that lag and restarts notwithstanding: unless the informer
\* delivered a change between List and Get, CreateOrPatch keeps the version
\* that a binding has on the server.
THEOREM VersionKeptCorrect == Spec => VersionKept
  <1> DEFINE Keeps == pc = "patch" /\ pc' = "clusters" =>
          \A c \in run.c :
             server.bindings[c].exists /\ server'.bindings[c].version # server.bindings[c].version
             => cache.bindings[c] # run.seen
  <1>1. TypeOK /\ [Next]_vars => [Keeps]_vars
    <2> SUFFICES ASSUME TypeOK, Next, pc = "patch", pc' = "clusters",
                        NEW c \in run.c, server.bindings[c].exists,
                        cache.bindings[c] = run.seen
                 PROVE  server'.bindings[c].version = server.bindings[c].version
      OBVIOUS
    <2>1. PatchBinding
      BY DEF Next, Controller, Reconcile, DeleteProfile, DeleteNotFound, ListClusters, NoMetadata,
         ListBindings, AllBound, PatchFails, Done, Again, Informers, SyncProfiles, SyncSets,
         SyncClusters, SyncBindings, Resync, still, Hub, Collect, CountClusters, Writes, Users,
         MoveCluster, ReportInfo, EditVersion, CreateProfile, RemoveProfile, ToggleSet,
         CallFails, Restart
    <2>2. c \in Cluster /\ cache.bindings[c] \in Binding /\ server.bindings[c] \in Binding
      BY Parts DEF TypeOK, RunType
    <2>3. server'.bindings[c] = MergePatch(cache.bindings[c], Wanted(c), server.bindings[c])
      BY <2>1, <2>2, PatchReaches
    <2>4. cache.bindings[c].exists
      BY <2>1, <2>2 DEF PatchBinding, Writable
    <2>5. Wanted(c).version = cache.bindings[c].version
      BY DEF Wanted
    <2> QED
      BY <2>2, <2>3, <2>4, <2>5 DEF MergePatch, Binding
  <1> QED
    BY <1>1, TypeCorrect, PTL DEF Spec, VersionKept

\* The owner reference and the profile reference of a binding are written
\* together: a patch tears them apart only if it was computed from a stale
\* copy, and nobody else does.
THEOREM TornCorrect == Spec => TornOnlyStale
  <1> DEFINE Torn(c) ==
          LET b == server'.bindings[c]
          IN  b.ref # b.owner /\ server.bindings[c].ref = server.bindings[c].owner
              => cache.bindings[c] # server.bindings[c]
  <1>1. TypeOK /\ [Next]_vars => [\A c \in Cluster : Torn(c)]_vars
    <2> SUFFICES ASSUME TypeOK, Next, NEW c \in Cluster,
                        server.bindings[c].ref = server.bindings[c].owner,
                        cache.bindings[c] = server.bindings[c]
                 PROVE  server'.bindings[c].ref = server'.bindings[c].owner
      OBVIOUS
    <2>1. server \in Objects /\ server.bindings[c] \in Binding
      BY Parts DEF TypeOK
    <2>2. CASE PatchBinding
      <3>1. CASE c \notin run.c
        BY <2>2, <3>1, PatchReaches
      <3>2. CASE c \in run.c
        <4>1. server'.bindings[c] = MergePatch(server.bindings[c], Wanted(c), server.bindings[c])
          BY <2>2, <3>2, PatchReaches
        <4>2. Wanted(c).ref = run.key /\ Wanted(c).owner = run.key
          BY DEF Wanted
        <4> QED
          BY <2>1, <4>1, <4>2 DEF MergePatch, Binding
      <3> QED
        BY <3>1, <3>2
    <2>3. ASSUME NEW d \in Cluster, Collect(d) PROVE server'.bindings[c].ref = server'.bindings[c].owner
      BY <2>1, <2>3 DEF Collect, Writes, Objects, NoBinding
    <2>4. ASSUME NEW d \in Cluster, NEW v \in Version, EditVersion(d, v)
          PROVE  server'.bindings[c].ref = server'.bindings[c].owner
      BY <2>1, <2>4 DEF EditVersion, Writes, Objects, Binding
    <2>5. CASE server'.bindings = server.bindings
      BY <2>5
    <2>6. \/ server'.bindings = server.bindings \/ PatchBinding
          \/ \E d \in Cluster : Collect(d) \/ \E v \in Version : EditVersion(d, v)
      BY <2>1 DEF Next, Controller, Reconcile, DeleteProfile, DeleteNotFound, ListClusters,
         NoMetadata, ListBindings, AllBound, PatchFails, Informers, SyncProfiles,
         SyncSets, SyncClusters, SyncBindings, Resync, still, Hub, CountClusters, Writes,
         Users, MoveCluster, ReportInfo, CreateProfile, RemoveProfile, ToggleSet,
         CallFails, Restart, Objects
    <2> QED
      BY <2>2, <2>3, <2>4, <2>5, <2>6
  <1> QED
    BY <1>1, TypeCorrect, PTL DEF Spec, TornOnlyStale
--------------------------------------------------------------------------------
(***************************************************************************)
(* No profile without its set is forgotten.  The event that takes the set  *)
(* out of the cache enqueues the profile only if the cache has it, so the  *)
(* invariant says who still has to look at a profile whose set the cache   *)
(* does not have; that a profile created again differs from the cached one *)
(* follows from its new UID.                                               *)
(***************************************************************************)

\* UIDs are given once.
Fresh ==
    \A s \in ClusterSet : cache.profiles[s] <= lastUid /\ server.profiles[s] <= lastUid

\* Nobody has to delete the profile of s, somebody is about to look at it, or
\* its event is yet to come.
Watched(s) ==
    \/ cache.profiles[s] = 0 \/ cache.sets[s].exists
    \/ s \in queue \/ (pc = "set" /\ run.key = s)
    \/ cache.profiles[s] # server.profiles[s]

OrphanInv == Fresh /\ \A s \in ClusterSet : Watched(s)

\* A step that neither moves profiles nor sets, nor takes a key off the queue or
\* out of a reconcile that has yet to read its set.
Bystands ==
    /\ cache'.profiles = cache.profiles /\ cache'.sets = cache.sets
    /\ server'.profiles = server.profiles /\ lastUid' = lastUid
    /\ queue \subseteq queue'
    /\ pc = "set" => (pc' = pc /\ run' = run) \/ run.key \in queue' \/ cache.sets[run.key].exists

\* Every step, by what it does to profiles, sets and keys.
LEMMA OrphanShape ==
  ASSUME Typed, Next
  PROVE  \/ Bystands \/ DeleteProfile \/ Restart \/ SyncProfiles \/ SyncSets
         \/ \E s \in ClusterSet : Reconcile(s) \/ CreateProfile(s) \/ RemoveProfile(s)
  <1> USE DEF world, still
  <1>1. /\ server \in Objects /\ cache \in Objects /\ queue \in SUBSET ClusterSet
        /\ lastUid \in Nat
    BY DEF Typed, TypeOK
  <1>2. ASSUME Again, UNCHANGED <<server, cache, lastUid>> PROVE Bystands
    BY <1>2 DEF Bystands, Again
  <1>3. CASE DeleteNotFound \/ PatchFails \/ CallFails \/ \E c \in Cluster : NoMetadata(c)
    BY <1>2, <1>3 DEF DeleteNotFound, PatchFails, CallFails, NoMetadata
  <1>4. CASE ListClusters \/ AllBound \/ \E c \in Cluster : ListBindings(c)
    BY <1>4 DEF ListClusters, AllBound, Done, ListBindings, Bystands
  <1>5. CASE PatchBinding
    <2>1. server'.profiles = server.profiles
      BY <1>1, <1>5 DEF PatchBinding, Objects
    <2> QED
      BY <1>5, <2>1 DEF PatchBinding, Bystands
  <1>6. CASE SyncClusters \/ SyncBindings \/ \E s \in ClusterSet : Resync(s)
    BY <1>1, <1>6 DEF SyncClusters, SyncBindings, Resync, Bystands, Objects
  <1>7. ASSUME NEW o, Writes(o), o.profiles = server.profiles, UNCHANGED lastUid PROVE Bystands
    BY <1>7 DEF Writes, Bystands
  <1>8. CASE Hub
    BY <1>1, <1>7, <1>8 DEF Hub, Collect, CountClusters, Objects
  <1>9. ASSUME NEW c \in Cluster,
               \/ \E s \in ClusterSet \cup {NoSet} : MoveCluster(c, s)
               \/ ReportInfo(c) \/ \E v \in Version : EditVersion(c, v)
        PROVE  Bystands
    BY <1>1, <1>7, <1>9 DEF MoveCluster, ReportInfo, EditVersion, Objects
  <1>10. ASSUME NEW s \in ClusterSet, ToggleSet(s) PROVE Bystands
    BY <1>1, <1>7, <1>10 DEF ToggleSet, Objects
  <1> QED
    BY <1>3, <1>4, <1>5, <1>6, <1>8, <1>9, <1>10 DEF Next, Controller, Informers, Users

\* The UIDs of profiles on the server and in the cache were given before.
LEMMA FreshStep ==
  ASSUME Typed, Fresh, Next
  PROVE  Fresh'
  <1>1. /\ server \in Objects /\ cache \in Objects /\ lastUid \in Nat
        /\ server.profiles \in [ClusterSet -> Nat] /\ cache.profiles \in [ClusterSet -> Nat]
    BY Parts DEF Typed, TypeOK
  <1> USE DEF Fresh, world, still
  <1>2. CASE Bystands
    BY <1>2 DEF Bystands
  <1>3. CASE DeleteProfile
    <2>1. /\ server'.profiles = [server.profiles EXCEPT ![run.key] = 0]
          /\ UNCHANGED <<cache, lastUid>>
      BY <1>1, <1>3 DEF DeleteProfile, Objects
    <2> QED
      BY <1>1, <2>1
  <1>4. CASE Restart \/ SyncProfiles \/ SyncSets
    BY <1>1, <1>4 DEF Restart, SyncProfiles, SyncSets, Objects
  <1>5. ASSUME NEW s \in ClusterSet, Reconcile(s) PROVE Fresh'
    BY <1>5 DEF Reconcile
  <1>6. ASSUME NEW s \in ClusterSet, CreateProfile(s) PROVE Fresh'
    <2>1. /\ server'.profiles = [server.profiles EXCEPT ![s] = lastUid + 1]
          /\ lastUid' = lastUid + 1 /\ UNCHANGED cache
      BY <1>1, <1>6 DEF CreateProfile, Writes, Objects
    <2> QED
      BY <1>1, <2>1
  <1>7. ASSUME NEW s \in ClusterSet, RemoveProfile(s) PROVE Fresh'
    <2>1. /\ server'.profiles = [server.profiles EXCEPT ![s] = 0]
          /\ UNCHANGED <<cache, lastUid>>
      BY <1>1, <1>7 DEF RemoveProfile, Writes, Objects
    <2> QED
      BY <1>1, <2>1
  <1> QED
    BY <1>2, <1>3, <1>4, <1>5, <1>6, <1>7, OrphanShape

\* Every profile stays watched.
LEMMA WatchedStep ==
  ASSUME Typed, Fresh, NEW s \in ClusterSet, Watched(s), Next
  PROVE  Watched(s)'
  <1>1. /\ server \in Objects /\ cache \in Objects /\ lastUid \in Nat
        /\ server.profiles \in [ClusterSet -> Nat] /\ cache.profiles \in [ClusterSet -> Nat]
        /\ run \in RunType
    BY Parts DEF Typed, TypeOK
  <1> USE DEF Watched, world, still
  <1>2. CASE Bystands
    BY <1>2 DEF Bystands
  <1>3. CASE DeleteProfile
    <2>1. /\ server'.profiles = [server.profiles EXCEPT ![run.key] = 0] /\ pc = "set"
          /\ UNCHANGED <<cache, queue>>
      BY <1>1, <1>3 DEF DeleteProfile, Done, Objects
    <2> QED
      BY <1>1, <2>1
  <1>4. CASE Restart
    BY <1>1, <1>4 DEF Restart
  <1>5. CASE SyncProfiles
    <2>1. /\ cache'.profiles = server.profiles /\ cache'.sets = cache.sets
          /\ queue' = queue \cup {t \in ClusterSet : cache.profiles[t] # server.profiles[t]}
          /\ UNCHANGED <<server, pc, run>>
      BY <1>1, <1>5 DEF SyncProfiles, Objects
    <2> QED
      BY <2>1
  <1>6. CASE SyncSets
    <2>1. /\ cache'.profiles = cache.profiles /\ cache'.sets = server.sets
          /\ queue' = queue \cup {t \in ClusterSet : /\ cache.sets[t] # server.sets[t]
                                                     /\ cache.profiles[t] # 0}
          /\ UNCHANGED <<server, pc, run>>
      BY <1>1, <1>6 DEF SyncSets, Objects
    <2> QED
      BY <2>1
  <1>7. ASSUME NEW t \in ClusterSet, Reconcile(t) PROVE Watched(s)'
    <2>1. CASE cache.profiles[t] = 0
      BY <1>7, <2>1 DEF Reconcile
    <2>2. CASE cache.profiles[t] # 0
      <3>1. run' = [NoRun EXCEPT !.key = t, !.uid = cache.profiles[t]]
        BY <1>7, <2>2 DEF Reconcile
      <3>2. run'.key = t
        BY <3>1 DEF NoRun
      <3> QED
        BY <1>7, <2>2, <3>2 DEF Reconcile
    <2> QED
      BY <2>1, <2>2
  <1>8. ASSUME NEW t \in ClusterSet, CreateProfile(t) PROVE Watched(s)'
    <2>1. /\ server'.profiles = [server.profiles EXCEPT ![t] = lastUid + 1]
          /\ UNCHANGED <<cache, queue, pc, run>>
      BY <1>1, <1>8 DEF CreateProfile, Writes, Objects
    <2>2. cache.profiles[s] # lastUid + 1
      BY <1>1 DEF Fresh
    <2> QED
      BY <1>1, <2>1, <2>2
  <1>9. ASSUME NEW t \in ClusterSet, RemoveProfile(t) PROVE Watched(s)'
    <2>1. /\ server'.profiles = [server.profiles EXCEPT ![t] = 0]
          /\ UNCHANGED <<cache, queue, pc, run>>
      BY <1>1, <1>9 DEF RemoveProfile, Writes, Objects
    <2> QED
      BY <1>1, <2>1
  <1> QED
    BY <1>2, <1>3, <1>4, <1>5, <1>6, <1>7, <1>8, <1>9, OrphanShape

\* Whatever is deleted and created again under the same name, in whatever order
\* the informers deliver it, a reconciler at rest with caches up to date has
\* deleted every profile whose set is gone.
THEOREM NoOrphanCorrect == Spec => []NoOrphanForgotten
  <1>1. Init => Typed /\ OrphanInv
    <2> SUFFICES ASSUME Init PROVE Typed /\ OrphanInv
      OBVIOUS
    <2>1. Typed
      BY TypeInit DEF Typed, HasKey, Init
    <2>2. Fresh /\ \A s \in ClusterSet : Watched(s)
      BY DEF Init, Fresh, Watched
    <2> QED
      BY <2>1, <2>2 DEF OrphanInv
  <1>2. Typed /\ OrphanInv /\ [Next]_vars => OrphanInv'
    <2> SUFFICES ASSUME Typed, OrphanInv, [Next]_vars PROVE OrphanInv'
      OBVIOUS
    <2>1. CASE UNCHANGED vars
      BY <2>1 DEF vars, OrphanInv, Fresh, Watched
    <2>2. CASE Next
      BY <2>2, FreshStep, WatchedStep DEF OrphanInv
    <2> QED
      BY <2>1, <2>2
  <1>3. OrphanInv => NoOrphanForgotten
    BY DEF OrphanInv, Watched, NoOrphanForgotten
  <1> QED
    BY <1>1, <1>2, <1>3, TypedStep, PTL DEF Spec
================================================================================

---------------------------- MODULE InstallerProofs ----------------------------
(***************************************************************************)
(* Proofs about Installer, for every catalogue, every set of feature lists *)
(* and every behaviour of the claim and of the informer.                   *)
(***************************************************************************)
EXTENDS Installer, TLAPS

USE DEF Work, Step

--------------------------------------------------------------------------------
(***************************************************************************)
(* Types                                                                   *)
(***************************************************************************)

\* The profile addRequiredFeatures is about to close is the one that was read.
Reads == pc = "require" => run.info \in FeatureList

Typed == TypeOK /\ Reads

\* The values a run starts with.
LEMMA NothingType == NoDeps \in [Feature -> SUBSET Feature] /\ NoWork \in Work
                     /\ EmptyWork \in Work /\ NoRun \in RunType
  <1>1. NoDeps \in [Feature -> SUBSET Feature]
    BY DEF NoDeps
  <1>2. NoWork \in Work
    BY <1>1, LimitAssumption DEF NoWork
  <1>3. EmptyWork \in Work
    BY <1>2 DEF EmptyWork
  <1>4. AnyProfile \in Profile
    BY ListAssumption, LimitAssumption DEF AnyProfile, Profile
  <1> QED
    BY <1>1, <1>2, <1>3, <1>4, FeatureAssumption DEF NoRun, RunType

\* Closing a feature list keeps it and adds features only.
LEMMA ClosureType ==
  ASSUME NEW blocked \in SUBSET Toggled, NEW fs \in FeatureList
  PROVE  Closure[blocked][fs] \in SUBSET Feature /\ fs \subseteq Closure[blocked][fs]
  <1>1. Closure[blocked][fs] = WithRequired(blocked, fs)
    BY DEF Closure
  <1>2. fs \subseteq Feature
    BY ListAssumption
  <1> QED
    BY <1>1, <1>2 DEF WithRequired

\* What the claim blocks may be toggled.
LEMMA BlockedType == ASSUME TypeOK PROVE Blocked(claim) \in SUBSET Toggled
  BY DEF TypeOK, Blocked, Claim

\* The ManifestWorks as they are read.
LEMMA SeenType == ASSUME TypeOK PROVE SeenWorks \in [FeatureSet -> Work]
  BY DEF TypeOK, SeenWorks

\* Rendered ManifestWorks are well typed.
LEMMA RenderedType ==
  ASSUME TypeOK, NEW fs \in SUBSET Feature
  PROVE  /\ Rendered(fs, CoreDependsOn(fs)) \in Work
         /\ Rendered(fs, DependsOn(fs, Blocked(claim))) \in Work
  <1>1. run.p.rev \in Revision
    BY DEF TypeOK, RunType, Profile
  <1>2. CoreDependsOn(fs) \in [Feature -> SUBSET Feature]
    BY FeatureAssumption DEF CoreDependsOn
  <1>3. DependsOn(fs, Blocked(claim)) \in [Feature -> SUBSET Feature]
    BY FeatureAssumption DEF DependsOn, Needed
  <1> QED
    BY <1>1, <1>2, <1>3 DEF Rendered

\* So are filtered ones.
LEMMA FilteredType ==
  ASSUME TypeOK, NEW w \in FeatureSet
  PROVE  Filtered(w) \in Work
  <1> DEFINE kept == SeenWorks[w].hrs \cap run.info
             deps == [f \in Feature |-> IF f \in kept THEN SeenWorks[w].deps[f] ELSE {}]
  <1>1. SeenWorks[w] \in Work
    BY SeenType
  <1>2. deps \in [Feature -> SUBSET Feature]
    BY <1>1
  <1>3. Filtered(w) = [SeenWorks[w] EXCEPT !.hrs = kept, !.deps = deps]
    BY DEF Filtered
  <1> QED
    BY <1>1, <1>2, <1>3

\* A write of one ManifestWork.
LEMMA WritesType ==
  ASSUME TypeOK, NEW w \in FeatureSet, NEW mod \in Work, Writes(w, mod)
  PROVE  works' \in [FeatureSet -> Work] /\ run' \in RunType
  <1>1. works \in [FeatureSet -> Work] /\ run \in RunType
    BY DEF TypeOK
  <1>2. works' \in [FeatureSet -> Work]
    BY <1>1 DEF Writes, Patched
  <1>3. SetsOf(run.info) \subseteq FeatureSet
    BY <1>1, FeatureAssumption DEF SetsOf, RunType
  <1>4. StaleNow(w) \in SUBSET FeatureSet
    BY <1>1 DEF StaleNow, RunType
  <1>5. [run.wrote EXCEPT ![w] = mod] \in [FeatureSet -> Work]
    BY <1>1 DEF RunType
  <1>6. (run.moved \/ Blocked(claim) # run.blocked) \in BOOLEAN
    BY <1>1 DEF RunType
  <1> DEFINE todo == IF w = Core THEN SetsOf(run.info) \ {Core} ELSE run.todo \ {w}
  <1>7. todo \in SUBSET FeatureSet
    BY <1>1, <1>3 DEF RunType
  <1>8. run' = [run EXCEPT !.wrote = [run.wrote EXCEPT ![w] = mod], !.stale = StaleNow(w),
                           !.todo = todo,
                           !.moved = run.moved \/ Blocked(claim) # run.blocked,
                           !.list = {}, !.enabled = {}, !.set = Core]
    BY <1>1 DEF Writes, RunType
  <1> HIDE DEF todo
  <1> QED
    BY <1>1, <1>2, <1>4, <1>5, <1>6, <1>7, <1>8, FeatureAssumption DEF RunType

\* The initial state is well typed.
LEMMA TypeInit == Init => Typed
  <1> SUFFICES ASSUME Init PROVE Typed
    OBVIOUS
  <1>1. profile \in Profile
    BY LimitAssumption DEF Init, Profile
  <1>2. claim \in Claim
    BY DEF Init, Claim
  <1> QED
    BY <1>1, <1>2, NothingType DEF Init, Typed, TypeOK, Reads

\* Each step of EnableFeatures keeps the types.
LEMMA TypeController == ASSUME Typed, Controller PROVE Typed'
  <1>1. /\ profile \in Profile /\ claim \in Claim /\ run \in RunType
        /\ works \in [FeatureSet -> Work] /\ cache \in [FeatureSet -> Work]
        /\ queued \in BOOLEAN /\ edits \in Nat /\ faults \in Nat /\ TypeOK
    BY DEF Typed, TypeOK
  <1>2. ASSUME Again, UNCHANGED <<profile, claim, edits, faults>>,
               works' \in [FeatureSet -> Work], cache' \in [FeatureSet -> Work]
        PROVE  Typed'
    BY <1>1, <1>2, NothingType DEF Again, Typed, TypeOK, Reads
  <1>3. ASSUME UNCHANGED world, UNCHANGED faults, queued' \in BOOLEAN,
               works' \in [FeatureSet -> Work], run' \in RunType,
               pc' \in Step \ {"require"}
        PROVE  Typed'
    BY <1>1, <1>3 DEF world, Typed, TypeOK, Reads
  <1>4. CASE Reconcile
    <2>1. profile.features \in FeatureList /\ FeatureList \subseteq SUBSET Feature
      BY <1>1, ListAssumption DEF Profile
    <2>2. run' \in RunType /\ run'.info = profile.features
      BY <1>1, <1>4, <2>1, NothingType DEF Reconcile, RunType
    <2> QED
      BY <1>1, <1>4, <2>1, <2>2 DEF Reconcile, world, Typed, TypeOK, Reads
  <1>5. CASE AddRequiredFeatures
    <2>1. Closure[Blocked(claim)][run.info] \in SUBSET Feature
      BY <1>1, <1>5, BlockedType, ClosureType DEF Typed, Reads, AddRequiredFeatures
    <2>2. run' \in RunType
      BY <1>1, <1>5, <2>1, BlockedType DEF AddRequiredFeatures, RunType
    <2> QED
      BY <1>1, <1>3, <1>5, <2>2 DEF AddRequiredFeatures
  <1>6. CASE RequirementNotFound \/ EnableCoreFails \/ EnableFeatureSetFails
    BY <1>1, <1>2, <1>6 DEF RequirementNotFound, EnableCoreFails, EnableFeatureSetFails, world
  <1>7. CASE EnableCore
    <2>1. CoreFeatures \in SUBSET Feature
      BY <1>1 DEF CoreFeatures, RunType
    <2>2. works' \in [FeatureSet -> Work] /\ run' \in RunType
      BY <1>1, <1>7, <2>1, RenderedType, WritesType, FeatureAssumption DEF EnableCore
    <2> QED
      BY <1>1, <1>3, <1>7, <2>2 DEF EnableCore
  <1>8. ASSUME NEW w \in FeatureSet, SanitizeFeatures(w) PROVE Typed'
    <2>1. Sanitized(w) \in SUBSET Feature
      BY <1>1 DEF Sanitized, Listed, RunType
    <2>2. StaleNow(w) \in SUBSET FeatureSet
      BY <1>1 DEF StaleNow, RunType
    <2>3. claim.enabled \in SUBSET Feature
      BY <1>1 DEF Claim
    <2>4. run' \in RunType
      BY <1>1, <1>8, <2>1, <2>2, <2>3 DEF SanitizeFeatures, RunType
    <2> QED
      BY <1>1, <1>3, <1>8, <2>4 DEF SanitizeFeatures
  <1>9. ASSUME NEW w \in FeatureSet, SanitizeFails(w) PROVE Typed'
    BY <1>1, <1>2, <1>9 DEF SanitizeFails, world
  <1>10. CASE EnableFeatureSet
    <2>1. run.list \in SUBSET Feature /\ run.set \in FeatureSet
      BY <1>1 DEF RunType
    <2>2. works' \in [FeatureSet -> Work] /\ run' \in RunType
      BY <1>1, <1>10, <2>1, RenderedType, WritesType DEF EnableFeatureSet
    <2> QED
      BY <1>1, <1>3, <1>10, <2>2 DEF EnableFeatureSet
  <1>11. CASE StartRemoval
    <2>1. SetsOf(run.info) \in SUBSET FeatureSet
      BY <1>1, FeatureAssumption DEF SetsOf, RunType
    <2>2. run' \in RunType
      BY <1>1, <1>11, <2>1 DEF StartRemoval, RunType
    <2> QED
      BY <1>1, <1>3, <1>11, <2>2 DEF StartRemoval
  <1>12. ASSUME NEW w \in FeatureSet, Proceed(w) PROVE run' \in RunType
    <2>1. StaleNow(w) \in SUBSET FeatureSet
      BY <1>1 DEF StaleNow, RunType
    <2> QED
      BY <1>1, <1>12, <2>1 DEF Proceed, RunType
  <1>13. ASSUME NEW w \in FeatureSet, RemoveNothing(w) PROVE Typed'
    BY <1>1, <1>3, <1>12, <1>13 DEF RemoveNothing
  <1>14. ASSUME NEW w \in FeatureSet, RemoveSome(w) PROVE Typed'
    BY <1>1, <1>3, <1>12, <1>14, FilteredType DEF RemoveSome
  <1>15. ASSUME NEW w \in FeatureSet, RemoveAll(w) PROVE Typed'
    <2>1. /\ [works EXCEPT ![w] = NoWork] \in [FeatureSet -> Work]
          /\ [works EXCEPT ![w] = EmptyWork] \in [FeatureSet -> Work]
      BY <1>1, NothingType
    <2>2. CASE Again /\ works' = [works EXCEPT ![w] = NoWork] /\ UNCHANGED cache
      BY <1>1, <1>2, <1>15, <2>1, <2>2 DEF RemoveAll
    <2>3. CASE /\ works' = [works EXCEPT ![w] = EmptyWork]
               /\ cache' = [works EXCEPT ![w] = NoWork]
               /\ Proceed(w) /\ UNCHANGED <<queued, pc>>
      BY <1>1, <1>12, <1>15, <2>1, <2>3 DEF RemoveAll, Typed, TypeOK, Reads
    <2> QED
      BY <1>15, <2>2, <2>3 DEF RemoveAll
  <1>16. CASE Completed
    BY <1>1, <1>3, <1>16 DEF Completed
  <1>17. CASE Done
    BY <1>1, <1>3, <1>17, NothingType DEF Done
  <1> QED
    BY <1>4, <1>5, <1>6, <1>7, <1>8, <1>9, <1>10, <1>11, <1>13, <1>14, <1>15, <1>16, <1>17
       DEF Controller

\* Informer, spoke, failing calls and users keep the types as well.
LEMMA TypeOthers ==
  ASSUME Typed, Resync \/ SyncWorks \/ Spoke \/ CallFails \/ Users
  PROVE  Typed'
  <1>1. /\ profile \in Profile /\ claim \in Claim /\ run \in RunType
        /\ works \in [FeatureSet -> Work] /\ cache \in [FeatureSet -> Work]
        /\ queued \in BOOLEAN /\ edits \in Nat /\ faults \in Nat
    BY DEF Typed, TypeOK
  <1>2. CASE Resync \/ SyncWorks
    BY <1>1, <1>2 DEF Resync, SyncWorks, world, Typed, TypeOK, Reads
  <1>3. CASE CallFails
    BY <1>1, <1>3, NothingType DEF CallFails, Again, world, Typed, TypeOK, Reads
  <1>4. ASSUME claim' \in Claim, edits' \in Nat,
               UNCHANGED <<profile, works, cache, queued, pc, run, faults>>
        PROVE  Typed'
    BY <1>1, <1>4 DEF Typed, TypeOK, Reads
  <1>5. CASE FirstReport
    BY <1>1, <1>4, <1>5 DEF FirstReport, Claim
  <1>6. ASSUME NEW f \in Feature, Report(f) PROVE Typed'
    BY <1>1, <1>4, <1>6 DEF Report, Flip, Claim
  <1>7. ASSUME NEW f \in Toggled, Toggle(f) PROVE Typed'
    BY <1>1, <1>4, <1>7 DEF Toggle, Flip, Claim
  <1>8. ASSUME NEW p \in Profile, EditProfile(p) PROVE Typed'
    BY <1>1, <1>8 DEF EditProfile, Typed, TypeOK, Reads
  <1> QED
    BY <1>2, <1>3, <1>5, <1>6, <1>7, <1>8 DEF Spoke, Users

\* Every step keeps the types.
LEMMA TypedStep == Typed /\ [Next]_vars => Typed'
  <1>1. Typed /\ UNCHANGED vars => Typed'
    BY DEF Typed, TypeOK, Reads, vars
  <1> QED
    BY <1>1, TypeController, TypeOthers DEF Next

\* Every reachable state of EnableFeatures is well typed: whatever the claim
\* says and however the run stops, a HelmRelease waits for features only.
THEOREM TypeCorrect == Spec => []TypeOK
  <1>1. Typed => TypeOK
    BY DEF Typed
  <1> QED
    BY <1>1, TypeInit, TypedStep, PTL DEF Spec
--------------------------------------------------------------------------------
(***************************************************************************)
(* A completed run leaves what it rendered.                                *)
(***************************************************************************)

\* The feature sets whose ManifestWork the run has still to write.
Unwritten == IF pc \in {"sanitize", "enable"} THEN run.todo ELSE {}

Writing == pc \in {"sanitize", "enable", "remove", "done"}

\* Every ManifestWork written so far is as it was rendered.
AsRendered ==
    Writing => \A w \in Current \ (Unwritten \cup run.stale) : works[w] = run.wrote[w]

\* A rendered ManifestWork has features of featureInfo only, and dependencies
\* of the HelmReleases it has: the removal finds nothing to remove.
Clean(work) == /\ work.hrs \subseteq run.info
               /\ \A f \in Feature \ work.hrs : work.deps[f] = {}

AllClean == \A w \in FeatureSet : Clean(run.wrote[w])

\* Where the loops are.
InLoop ==
    /\ pc \in {"core", "sanitize", "enable", "remove", "done"} =>
          {OpscenterFeatures, KubeUIServer} \subseteq run.info
    /\ pc \in {"sanitize", "enable"} => run.todo \subseteq Current \ {Core}
    /\ pc = "enable" => run.set \in run.todo /\ run.list \subseteq run.info
    /\ pc = "remove" => run.todo \subseteq Current

WrittenInv == Typed /\ AsRendered /\ AllClean /\ InLoop

USE DEF Current

\* Nothing is rendered yet, so nothing is dirty.
LEMMA NothingClean == ASSUME NEW w \in FeatureSet PROVE NoRun.wrote[w] = NoWork /\ NoWork.hrs = {}
                                                        /\ \A f \in Feature : NoWork.deps[f] = {}
  BY DEF NoRun, NoWork, NoDeps

\* The run that ends, or has not begun, satisfies the invariant.
LEMMA WrittenIdle ==
  ASSUME Typed', pc' \in {"idle"}, run' = NoRun
  PROVE  WrittenInv'
  BY NothingClean DEF WrittenInv, AsRendered, Writing, AllClean, Clean, InLoop

\* Steps around EnableFeatures disturb neither the run nor the ManifestWorks.
LEMMA WrittenAround ==
  ASSUME WrittenInv, Typed', UNCHANGED <<pc, run, works>>
  PROVE  WrittenInv'
  BY DEF WrittenInv, AsRendered, Writing, Unwritten, AllClean, Clean, InLoop, SetsOf

\* What a run renders is clean.
LEMMA RenderedClean ==
  ASSUME TypeOK, NEW fs \in SUBSET run.info
  PROVE  /\ Clean(Rendered(fs, DependsOn(fs, Blocked(claim))))
         /\ {OpscenterFeatures, KubeUIServer} \subseteq fs =>
               Clean(Rendered(fs, CoreDependsOn(fs)))
  BY DEF Clean, Rendered, DependsOn, CoreDependsOn

\* A clean ManifestWork that was read as it is loses nothing.
LEMMA CleanKept ==
  ASSUME TypeOK, NEW w \in FeatureSet, SeenWorks[w] = works[w], Clean(works[w])
  PROVE  ~Removes(w)
  <1> DEFINE seen == SeenWorks[w]
             kept == seen.hrs \cap run.info
             deps == [f \in Feature |-> IF f \in kept THEN seen.deps[f] ELSE {}]
  <1>1. seen \in Work
    BY SeenType
  <1>2. kept = seen.hrs
    BY DEF Clean
  <1>3. deps = seen.deps
    BY <1>1, <1>2 DEF Clean
  <1>4. Filtered(w) = [seen EXCEPT !.hrs = kept, !.deps = deps]
    BY DEF Filtered
  <1> HIDE DEF seen, kept, deps
  <1>5. Filtered(w) = seen
    BY <1>1, <1>2, <1>3, <1>4
  <1> QED
    BY <1>5 DEF Removes, seen

\* What a write does to the run.
LEMMA WritesRun ==
  ASSUME TypeOK, NEW w \in FeatureSet, NEW mod \in Work, Writes(w, mod)
  PROVE  /\ run'.info = run.info
         /\ run'.wrote = [run.wrote EXCEPT ![w] = mod]
         /\ run'.stale = StaleNow(w)
         /\ run'.todo = IF w = Core THEN SetsOf(run.info) \ {Core} ELSE run.todo \ {w}
         /\ works' = Patched(w, mod)
  BY DEF TypeOK, RunType, Writes

\* The ManifestWork in hand is then as rendered, unless it was read stale;
\* the others are as they were.
LEMMA WritesWorks ==
  ASSUME TypeOK, NEW w \in FeatureSet, NEW mod \in Work, Writes(w, mod)
  PROVE  /\ w \notin run'.stale => works'[w] = run'.wrote[w]
         /\ \A v \in FeatureSet \ {w} : /\ works'[v] = works[v]
                                        /\ run'.wrote[v] = run.wrote[v]
                                        /\ v \in run'.stale <=> v \in run.stale
  <1>1. works \in [FeatureSet -> Work] /\ run.wrote \in [FeatureSet -> Work]
    BY DEF TypeOK, RunType
  <1>2. /\ works' = Patched(w, mod)
        /\ run'.wrote = [run.wrote EXCEPT ![w] = mod]
        /\ run'.stale = StaleNow(w)
    BY WritesRun
  <1>3. works'[w] = IF SeenWorks[w].exists /\ mod = SeenWorks[w] THEN works[w] ELSE mod
    BY <1>1, <1>2 DEF Patched
  <1>4. w \notin run'.stale => works'[w] = run'.wrote[w]
    BY <1>1, <1>2, <1>3 DEF StaleNow
  <1>5. \A v \in FeatureSet \ {w} : works'[v] = works[v] /\ run'.wrote[v] = run.wrote[v]
    BY <1>1, <1>2 DEF Patched
  <1>6. \A v \in FeatureSet \ {w} : v \in run'.stale <=> v \in run.stale
    BY <1>2 DEF StaleNow
  <1> QED
    BY <1>4, <1>5, <1>6

\* A write of a clean rendering keeps the invariant.
LEMMA WrittenWrites ==
  ASSUME WrittenInv, Typed', NEW w \in FeatureSet, NEW mod \in Work, Writes(w, mod),
         Clean(mod), pc' = "sanitize",
         w = Core \/ (pc = "enable" /\ w \in run.todo),
         {OpscenterFeatures, KubeUIServer} \subseteq run.info
  PROVE  WrittenInv'
  <1>1. TypeOK /\ run.wrote \in [FeatureSet -> Work] /\ run.info \subseteq Feature
    BY DEF WrittenInv, Typed, TypeOK, RunType
  <1>2. /\ run'.info = run.info
        /\ run'.wrote = [run.wrote EXCEPT ![w] = mod]
        /\ run'.todo = IF w = Core THEN SetsOf(run.info) \ {Core} ELSE run.todo \ {w}
    BY <1>1, WritesRun
  <1>3. SetsOf(run'.info) = SetsOf(run.info) /\ SetsOf(run.info) \subseteq FeatureSet
    BY <1>1, <1>2, FeatureAssumption DEF SetsOf
  <1>4. AllClean'
    BY <1>1, <1>2 DEF WrittenInv, AllClean, Clean
  <1>5. InLoop'
    BY <1>2, <1>3 DEF WrittenInv, InLoop, SetsOf
  <1>6. AsRendered'
    <2> SUFFICES ASSUME NEW v \in SetsOf(run.info), v \notin run'.todo, v \notin run'.stale
                 PROVE  works'[v] = run'.wrote[v]
      BY <1>2, <1>3 DEF AsRendered, Unwritten, SetsOf
    <2>1. CASE v = w
      BY <1>1, <2>1, WritesWorks
    <2>2. CASE v # w
      <3>1. w # Core /\ pc = "enable" /\ v \notin run.todo
        BY <1>2, <2>2
      <3>2. v \notin run.stale /\ works'[v] = works[v] /\ run'.wrote[v] = run.wrote[v]
        BY <1>1, <1>3, <2>2, WritesWorks
      <3>3. works[v] = run.wrote[v]
        BY <3>1, <3>2 DEF WrittenInv, AsRendered, Writing, Unwritten
      <3> QED
        BY <3>2, <3>3
    <2> QED
      BY <2>1, <2>2
  <1> QED
    BY <1>4, <1>5, <1>6 DEF WrittenInv

\* The removal touches a ManifestWork that was read stale at some time only.
LEMMA WrittenRemoves ==
  ASSUME WrittenInv, Typed', NEW w \in FeatureSet, pc = "remove", pc' = "remove",
         w \in run.todo, Proceed(w),
         \A v \in FeatureSet \ {w} : works'[v] = works[v],
         Removes(w) \/ UNCHANGED works
  PROVE  WrittenInv'
  <1>1. TypeOK /\ run \in RunType
    BY DEF WrittenInv, Typed, TypeOK
  <1>2. /\ run'.info = run.info /\ run'.wrote = run.wrote
        /\ run'.todo = run.todo \ {w} /\ run'.stale = StaleNow(w)
    BY <1>1 DEF Proceed, RunType
  <1>3. SetsOf(run'.info) = SetsOf(run.info) /\ SetsOf(run.info) \subseteq FeatureSet
    BY <1>1, <1>2, FeatureAssumption DEF SetsOf, RunType
  <1>4. AllClean' /\ InLoop'
    BY <1>2, <1>3 DEF WrittenInv, AllClean, Clean, InLoop
  <1>5. ASSUME Removes(w), w \notin run'.stale PROVE FALSE
    <2>1. w \notin run.stale /\ SeenWorks[w] = works[w]
      BY <1>2, <1>5 DEF StaleNow
    <2>2. works[w] = run.wrote[w]
      BY <2>1 DEF WrittenInv, AsRendered, Writing, Unwritten, InLoop
    <2>3. Clean(works[w])
      BY <2>2 DEF WrittenInv, AllClean
    <2> QED
      BY <1>1, <1>5, <2>1, <2>3, CleanKept
  <1>6. AsRendered'
    <2> SUFFICES ASSUME NEW v \in SetsOf(run.info), v \notin run'.stale
                 PROVE  works'[v] = run.wrote[v]
      BY <1>2, <1>3 DEF AsRendered, Unwritten
    <2>1. v \notin run.stale /\ works[v] = run.wrote[v]
      BY <1>2 DEF StaleNow, WrittenInv, AsRendered, Writing, Unwritten
    <2>2. works'[v] = works[v]
      BY <1>3, <1>5
    <2> QED
      BY <2>1, <2>2
  <1> QED
    BY <1>4, <1>6 DEF WrittenInv

\* Each step of EnableFeatures keeps the invariant.
LEMMA WrittenController == ASSUME WrittenInv, Typed', Controller PROVE WrittenInv'
  <1>1. /\ TypeOK /\ run \in RunType /\ works \in [FeatureSet -> Work]
        /\ run.info \subseteq Feature
    BY DEF WrittenInv, Typed, TypeOK, RunType
  <1>2. CASE Again
    BY <1>2, WrittenIdle DEF Again
  <1>3. CASE Reconcile
    <2>1. run'.wrote = NoRun.wrote
      BY <1>3, NothingType DEF Reconcile, RunType
    <2> QED
      BY <1>3, <2>1, NothingClean
         DEF Reconcile, WrittenInv, AsRendered, Writing, AllClean, Clean, InLoop
  <1>4. CASE AddRequiredFeatures
    <2>1. run.info \in FeatureList
      BY <1>4 DEF AddRequiredFeatures, WrittenInv, Typed, Reads
    <2>2. run.info \subseteq Closure[Blocked(claim)][run.info]
      BY <1>1, <2>1, BlockedType, ClosureType
    <2>3. run'.info = Closure[Blocked(claim)][run.info] /\ run'.wrote = run.wrote
      BY <1>1, <1>4 DEF AddRequiredFeatures, RunType
    <2> QED
      BY <1>4, <2>1, <2>2, <2>3, ListAssumption
         DEF AddRequiredFeatures, WrittenInv, AsRendered, Writing, AllClean, Clean, InLoop
  <1>5. CASE EnableCore
    <2>1. /\ CoreFeatures \in SUBSET Feature /\ CoreFeatures \in SUBSET run.info
          /\ {OpscenterFeatures, KubeUIServer} \subseteq CoreFeatures
          /\ {OpscenterFeatures, KubeUIServer} \subseteq run.info
      BY <1>1, <1>5, FeatureAssumption, ElsewhereAssumption
         DEF EnableCore, CoreFeatures, WrittenInv, InLoop
    <2> DEFINE mod == Rendered(CoreFeatures, CoreDependsOn(CoreFeatures))
    <2>2. mod \in Work /\ Clean(mod)
      BY <1>1, <2>1, RenderedType, RenderedClean
    <2>3. Writes(Core, mod) /\ pc' = "sanitize"
      BY <1>5 DEF EnableCore
    <2> HIDE DEF mod
    <2> QED
      BY <2>1, <2>2, <2>3, WrittenWrites, FeatureAssumption
  <1>6. ASSUME NEW w \in FeatureSet, SanitizeFeatures(w) PROVE WrittenInv'
    <2>1. /\ run'.info = run.info /\ run'.wrote = run.wrote /\ run'.todo = run.todo
          /\ run'.stale = StaleNow(w) /\ run'.set = w /\ run'.list = Sanitized(w)
          /\ UNCHANGED works /\ pc = "sanitize" /\ pc' = "enable" /\ w \in run.todo
      BY <1>1, <1>6 DEF SanitizeFeatures, RunType
    <2>2. SetsOf(run'.info) = SetsOf(run.info)
      BY <2>1 DEF SetsOf
    <2>3. InLoop'
      BY <2>1, <2>2 DEF WrittenInv, InLoop, Sanitized, Listed
    <2>4. AsRendered' /\ AllClean'
      BY <2>1, <2>2 DEF WrittenInv, AsRendered, Writing, Unwritten, AllClean, Clean, StaleNow
    <2> QED
      BY <2>3, <2>4 DEF WrittenInv
  <1>7. CASE EnableFeatureSet
    <2> DEFINE mod == Rendered(run.list, DependsOn(run.list, Blocked(claim)))
    <2>1. /\ run.list \in SUBSET Feature /\ run.list \in SUBSET run.info
          /\ run.set \in FeatureSet /\ run.set \in run.todo /\ pc = "enable"
          /\ {OpscenterFeatures, KubeUIServer} \subseteq run.info
      BY <1>1, <1>7 DEF EnableFeatureSet, WrittenInv, InLoop, RunType
    <2>2. mod \in Work /\ Clean(mod)
      BY <1>1, <2>1, RenderedType, RenderedClean
    <2>3. Writes(run.set, mod) /\ pc' = "sanitize"
      BY <1>7 DEF EnableFeatureSet
    <2> HIDE DEF mod
    <2> QED
      BY <2>1, <2>2, <2>3, WrittenWrites
  <1>8. CASE StartRemoval
    <2>1. /\ run'.info = run.info /\ run'.wrote = run.wrote /\ run'.todo = SetsOf(run.info)
          /\ run'.stale = run.stale
          /\ UNCHANGED works /\ pc = "sanitize" /\ pc' = "remove" /\ run.todo = {}
      BY <1>1, <1>8 DEF StartRemoval, RunType
    <2>2. SetsOf(run'.info) = SetsOf(run.info)
      BY <2>1 DEF SetsOf
    <2> QED
      BY <2>1, <2>2
         DEF WrittenInv, AsRendered, Writing, Unwritten, AllClean, Clean, InLoop
  <1>9. ASSUME NEW w \in FeatureSet, RemoveNothing(w) PROVE WrittenInv'
    BY <1>9, WrittenRemoves DEF RemoveNothing
  <1>10. ASSUME NEW w \in FeatureSet, RemoveSome(w) PROVE WrittenInv'
    <2>1. \A v \in FeatureSet \ {w} : works'[v] = works[v]
      BY <1>1, <1>10 DEF RemoveSome
    <2> QED
      BY <1>10, <2>1, WrittenRemoves DEF RemoveSome
  <1>11. ASSUME NEW w \in FeatureSet, RemoveAll(w) PROVE WrittenInv'
    <2>1. CASE Again
      BY <1>2, <2>1
    <2>2. CASE works' = [works EXCEPT ![w] = EmptyWork] /\ Proceed(w) /\ UNCHANGED pc
      <3>1. \A v \in FeatureSet \ {w} : works'[v] = works[v]
        BY <1>1, <2>2
      <3> QED
        BY <1>11, <2>2, <3>1, WrittenRemoves DEF RemoveAll
    <2> QED
      BY <1>11, <2>1, <2>2 DEF RemoveAll
  <1>12. CASE Completed
    BY <1>12 DEF Completed, WrittenInv, AsRendered, Writing, Unwritten, AllClean, Clean,
                 InLoop, SetsOf
  <1>13. CASE Done
    BY <1>13, WrittenIdle DEF Done
  <1> QED
    BY <1>2, <1>3, <1>4, <1>5, <1>6, <1>7, <1>8, <1>9, <1>10, <1>11, <1>12, <1>13
       DEF Controller, RequirementNotFound, EnableCoreFails, EnableFeatureSetFails, SanitizeFails

\* Every step keeps the invariant.
LEMMA WrittenStep == WrittenInv /\ [Next]_vars => WrittenInv'
  <1> SUFFICES ASSUME WrittenInv, [Next]_vars PROVE WrittenInv'
    OBVIOUS
  <1>1. Typed'
    BY TypedStep DEF WrittenInv
  <1>2. CASE UNCHANGED vars
    BY <1>1, <1>2, WrittenAround DEF vars
  <1>3. CASE Controller
    BY <1>1, <1>3, WrittenController
  <1>4. CASE CallFails
    BY <1>1, <1>4, WrittenIdle DEF CallFails, Again
  <1>5. CASE Resync \/ SyncWorks \/ Spoke \/ Users
    <2>1. UNCHANGED <<pc, run, works>>
      BY <1>5 DEF Resync, SyncWorks, Spoke, FirstReport, Report, Users, EditProfile, Toggle
    <2> QED
      BY <1>1, <2>1, WrittenAround
  <1> QED
    BY <1>2, <1>3, <1>4, <1>5 DEF Next

\* A run of EnableFeatures that completes leaves every ManifestWork of its
\* feature sets as it rendered it, removal of HelmReleases included, unless it
\* read that ManifestWork from a stale cache: for every catalogue, every
\* requirement and exclusion group, and a claim that changes at any time.
THEOREM WrittenCorrect == Spec => []WrittenUnlessStale
  <1>1. Init => WrittenInv
    BY TypeInit, NothingClean
       DEF Init, WrittenInv, AsRendered, Writing, AllClean, Clean, InLoop
  <1>2. WrittenInv => WrittenUnlessStale
    BY DEF WrittenInv, AsRendered, Writing, Unwritten, WrittenUnlessStale
  <1> QED
    BY <1>1, <1>2, WrittenStep, PTL DEF Spec
================================================================================

------------------------- MODULE InstallerDependsProofs -------------------------
(***************************************************************************)
(* Proofs about Installer: what a completed run leaves a HelmRelease       *)
(* waiting for and whether it settles the cluster, when a feature set gets *)
(* a second feature of a group, and what the loop of sanitizeFeatures      *)
(* computes.                                                               *)
(***************************************************************************)
EXTENDS InstallerProofs, WellFoundedInduction, FiniteSetTheorems

USE DEF Work, Step, Current

--------------------------------------------------------------------------------
(***************************************************************************)
(* A HelmRelease waits for what is installed, or kept out by its group.    *)
(***************************************************************************)

\* The features of set w that nothing keeps out, by the claim addRequiredFeatures read.
Open(w) == {f \in Listed(w) \ run.blocked : Group[f] = NoGroup}

\* featureInfo holds the requirements of its features.
InfoClosed ==
    pc \in {"core", "sanitize", "enable", "remove", "done"} => Closed(run.blocked, run.info)

\* opscenter-core is rendered whole and waits for itself only.
CoreWhole ==
    Writing => /\ CoreFeatures \subseteq run.wrote[Core].hrs
               /\ \A f \in Feature : run.wrote[Core].deps[f] \subseteq run.wrote[Core].hrs

\* A set rendered by the claim addRequiredFeatures read has its open features,
\* and waits for what addRequiredFeatures added.
WholeSet(w) ==
    /\ Open(w) \subseteq run.wrote[w].hrs
    /\ \A f \in Feature : \A r \in run.wrote[w].deps[f] :
          f \in Listed(w) /\ r \in Adds(run.blocked, f)

\* So it is with every set written so far, unless the claim moved.
SetsWhole ==
    Writing /\ ~run.moved => \A w \in Current \ ({Core} \cup Unwritten) : WholeSet(w)

\* sanitizeFeatures keeps the open features.
ListWhole ==
    pc = "enable" => /\ run.list \subseteq Listed(run.set)
                     /\ ~run.moved => Open(run.set) \subseteq run.list

DependsInv == WrittenInv /\ InfoClosed /\ CoreWhole /\ SetsWhole /\ ListWhole

\* The features that addRequiredFeatures collects are closed under what it adds.
LEMMA ClosureClosed ==
  ASSUME NEW blocked \in SUBSET Toggled, NEW fs \in FeatureList
  PROVE  Closed(blocked, Closure[blocked][fs])
  <1> DEFINE closed == {gs \in {fs \cup xs : xs \in SUBSET UNION {Requires[f] : f \in Feature}} :
                           Closed(blocked, gs)}
             least  == {f \in Feature : \A gs \in closed : f \in gs}
  <1>1. Closure[blocked][fs] = least
    BY DEF Closure, WithRequired
  <1>2. ASSUME NEW f \in least, NEW r \in Adds(blocked, f) PROVE r \in least
    <2>1. r \in Feature
      BY FeatureAssumption DEF Adds, Needed
    <2>2. ASSUME NEW gs \in closed PROVE r \in gs
      <3>1. f \in gs /\ Closed(blocked, gs)
        OBVIOUS
      <3> QED
        BY <3>1 DEF Closed
    <2> QED
      BY <2>1, <2>2
  <1> QED
    BY <1>1, <1>2 DEF Closed

\* What a write does to the rest of the run.
LEMMA WritesClaim ==
  ASSUME TypeOK, NEW w \in FeatureSet, NEW mod \in Work, Writes(w, mod)
  PROVE  /\ run'.blocked = run.blocked
         /\ ~run'.moved => ~run.moved /\ Blocked(claim) = run.blocked
  BY DEF TypeOK, RunType, Writes

\* Outside the writes, the invariant is about the claim and the list the run
\* has read and the ManifestWorks it has rendered.
LEMMA DependsSame ==
  ASSUME DependsInv, WrittenInv', UNCHANGED <<pc, run>>
  PROVE  DependsInv'
  BY DEF DependsInv, InfoClosed, CoreWhole, SetsWhole, WholeSet, ListWhole, Open, Listed,
         CoreFeatures, Writing, Unwritten, SetsOf

\* A run that has ended says nothing.
LEMMA DependsIdle ==
  ASSUME WrittenInv', pc' = "idle"
  PROVE  DependsInv'
  BY DEF DependsInv, InfoClosed, CoreWhole, SetsWhole, ListWhole, Writing

\* The removal renders nothing.
LEMMA DependsRemoval ==
  ASSUME DependsInv, WrittenInv', Writing, Unwritten = {}, pc' \in {"remove", "done"},
         run'.info = run.info, run'.blocked = run.blocked, run'.wrote = run.wrote,
         run'.moved = run.moved
  PROVE  DependsInv'
  <1>1. Unwritten' = {} /\ SetsOf(run'.info) = SetsOf(run.info)
    BY DEF Unwritten, SetsOf
  <1>2. InfoClosed' /\ CoreWhole' /\ ListWhole'
    BY DEF DependsInv, InfoClosed, CoreWhole, ListWhole, CoreFeatures, Writing
  <1>3. SetsWhole'
    BY <1>1 DEF DependsInv, SetsWhole, WholeSet, Open, Listed
  <1> QED
    BY <1>2, <1>3 DEF DependsInv

\* Writing opscenter-core: no other feature set is written yet.
LEMMA DependsCore == ASSUME DependsInv, WrittenInv', EnableCore PROVE DependsInv'
  <1> DEFINE mod == Rendered(CoreFeatures, CoreDependsOn(CoreFeatures))
  <1>1. TypeOK /\ run \in RunType /\ CoreFeatures \in SUBSET Feature
    BY DEF DependsInv, WrittenInv, Typed, TypeOK, RunType, CoreFeatures
  <1>2. mod \in Work /\ Core \in FeatureSet
    BY <1>1, RenderedType, FeatureAssumption
  <1>3. Writes(Core, mod) /\ pc' = "sanitize" /\ pc = "core"
    BY DEF EnableCore
  <1>4. mod.hrs = CoreFeatures /\ \A f \in Feature : mod.deps[f] \subseteq CoreFeatures
    <2>1. OpscenterFeatures \in CoreFeatures
      BY <1>3, FeatureAssumption, ElsewhereAssumption
         DEF DependsInv, WrittenInv, InLoop, CoreFeatures
    <2> QED
      BY <2>1 DEF Rendered, CoreDependsOn
  <1> HIDE DEF mod
  <1>5. /\ run'.info = run.info /\ run'.blocked = run.blocked
        /\ run'.wrote[Core] = mod /\ run'.todo = SetsOf(run.info) \ {Core}
    <2>1. run.wrote \in [FeatureSet -> Work]
      BY <1>1 DEF RunType
    <2>2. run'.wrote = [run.wrote EXCEPT ![Core] = mod]
      BY <1>1, <1>2, <1>3, WritesRun
    <2> QED
      BY <1>1, <1>2, <1>3, <2>1, <2>2, WritesRun, WritesClaim
  <1>6. InfoClosed' /\ ListWhole'
    BY <1>3, <1>5 DEF DependsInv, InfoClosed, ListWhole
  <1>7. CoreWhole'
    BY <1>4, <1>5 DEF CoreWhole, CoreFeatures
  <1>8. SetsWhole'
    BY <1>3, <1>5 DEF SetsWhole, Unwritten, SetsOf
  <1> QED
    BY <1>6, <1>7, <1>8 DEF DependsInv

\* sanitizeFeatures keeps what belongs to no group and is not blocked.
LEMMA DependsSanitize ==
  ASSUME DependsInv, WrittenInv', NEW w \in FeatureSet, SanitizeFeatures(w)
  PROVE  DependsInv'
  <1>1. run \in RunType
    BY DEF DependsInv, WrittenInv, Typed, TypeOK
  <1>2. /\ run'.info = run.info /\ run'.blocked = run.blocked /\ run'.wrote = run.wrote
        /\ run'.todo = run.todo /\ run'.set = w /\ run'.list = Sanitized(w)
        /\ ~run'.moved => ~run.moved /\ Blocked(claim) = run.blocked
        /\ pc = "sanitize" /\ pc' = "enable"
    BY <1>1 DEF SanitizeFeatures, RunType
  <1>3. InfoClosed' /\ CoreWhole'
    BY <1>2 DEF DependsInv, InfoClosed, CoreWhole, CoreFeatures, Writing
  <1>4. SetsWhole'
    BY <1>2 DEF DependsInv, SetsWhole, WholeSet, Open, Listed, Writing, Unwritten, SetsOf
  <1>5. ListWhole'
    BY <1>2 DEF ListWhole, Open, Listed, Sanitized
  <1> QED
    BY <1>3, <1>4, <1>5 DEF DependsInv

\* A feature set is rendered from its list; if the claim has not moved, its
\* dependencies are those addRequiredFeatures added.
LEMMA DependsEnable == ASSUME DependsInv, WrittenInv', EnableFeatureSet PROVE DependsInv'
  <1> DEFINE w   == run.set
             mod == Rendered(run.list, DependsOn(run.list, Blocked(claim)))
  <1>1. /\ TypeOK /\ run \in RunType /\ run.list \in SUBSET Feature /\ w \in FeatureSet
        /\ run.wrote \in [FeatureSet -> Work] /\ run.info \subseteq Feature
    BY DEF DependsInv, WrittenInv, Typed, TypeOK, RunType
  <1>2. mod \in Work
    BY <1>1, RenderedType
  <1>3. Writes(w, mod) /\ pc' = "sanitize" /\ pc = "enable" /\ Renderable(run.list)
    BY DEF EnableFeatureSet
  <1>4. w # Core /\ run.list \subseteq Listed(w) /\ w \in run.todo
    BY <1>3 DEF DependsInv, WrittenInv, InLoop, ListWhole
  <1>5. /\ mod.hrs = run.list
        /\ \A f \in Feature : mod.deps[f] = IF f \in run.list THEN Needed(Blocked(claim), f) ELSE {}
    BY DEF Rendered, DependsOn
  <1>6. ASSUME NEW f \in run.list PROVE Needed(Blocked(claim), f) = Adds(Blocked(claim), f)
    BY <1>3, <1>4 DEF Renderable, Listed, Adds
  <1> HIDE DEF mod
  <1>7. /\ run'.info = run.info /\ run'.blocked = run.blocked
        /\ run'.wrote = [run.wrote EXCEPT ![w] = mod] /\ run'.todo = run.todo \ {w}
        /\ ~run'.moved => ~run.moved /\ Blocked(claim) = run.blocked
    BY <1>1, <1>2, <1>3, <1>4, WritesRun, WritesClaim
  <1>8. InfoClosed' /\ ListWhole'
    BY <1>3, <1>7 DEF DependsInv, InfoClosed, ListWhole
  <1>9. run'.wrote[Core] = run.wrote[Core]
    BY <1>1, <1>4, <1>7, FeatureAssumption
  <1>10. CoreWhole'
    BY <1>3, <1>7, <1>9 DEF DependsInv, CoreWhole, CoreFeatures, Writing
  <1>11. SetsWhole'
    <2> SUFFICES ASSUME ~run'.moved, NEW v \in SetsOf(run.info), v # Core, v \notin run'.todo
                 PROVE  WholeSet(v)'
      BY <1>3, <1>7 DEF SetsWhole, Unwritten, SetsOf
    <2>1. ~run.moved /\ Blocked(claim) = run.blocked
      BY <1>7
    <2>2. v \in FeatureSet
      BY <1>1, FeatureAssumption DEF SetsOf
    <2>3. CASE v = w
      <3>1. run'.wrote[v] = mod
        BY <1>1, <1>2, <1>7, <2>3
      <3>2. Open(w) \subseteq run.list
        BY <1>3, <2>1 DEF DependsInv, ListWhole
      <3>3. Open(v)' \subseteq run'.wrote[v].hrs
        BY <1>5, <1>7, <2>3, <3>1, <3>2 DEF Open, Listed
      <3>4. ASSUME NEW f \in Feature, NEW r \in run'.wrote[v].deps[f]
            PROVE  f \in Listed(v)' /\ r \in Adds(run.blocked, f)
        <4>1. f \in run.list /\ r \in Needed(Blocked(claim), f)
          BY <1>5, <3>1, <3>4
        <4> QED
          BY <1>4, <1>6, <1>7, <2>1, <2>3, <4>1 DEF Listed
      <3> QED
        BY <1>7, <3>3, <3>4 DEF WholeSet
    <2>4. CASE v # w
      <3>1. run'.wrote[v] = run.wrote[v] /\ v \notin run.todo
        BY <1>1, <1>7, <2>2, <2>4
      <3>2. WholeSet(v)
        BY <1>3, <2>1, <3>1 DEF DependsInv, SetsWhole, Writing, Unwritten
      <3> QED
        BY <1>7, <3>1, <3>2 DEF WholeSet, Open, Listed
    <2> QED
      BY <2>3, <2>4
  <1> QED
    BY <1>8, <1>10, <1>11 DEF DependsInv

\* Each step of EnableFeatures keeps the invariant.
LEMMA DependsController == ASSUME DependsInv, WrittenInv', Controller PROVE DependsInv'
  <1>1. TypeOK /\ run \in RunType /\ claim \in Claim
    BY DEF DependsInv, WrittenInv, Typed, TypeOK
  <1>2. CASE Again \/ Done
    BY <1>2, DependsIdle DEF Again, Done
  <1>3. CASE Reconcile
    BY <1>3 DEF Reconcile, DependsInv, InfoClosed, CoreWhole, SetsWhole, ListWhole, Writing
  <1>4. CASE AddRequiredFeatures
    <2>1. run.info \in FeatureList
      BY <1>4 DEF AddRequiredFeatures, DependsInv, WrittenInv, Typed, Reads
    <2>2. Closed(Blocked(claim), Closure[Blocked(claim)][run.info])
      BY <1>1, <2>1, BlockedType, ClosureClosed
    <2>3. run'.info = Closure[Blocked(claim)][run.info] /\ run'.blocked = Blocked(claim)
      BY <1>1, <1>4 DEF AddRequiredFeatures, RunType
    <2> QED
      BY <1>4, <2>2, <2>3
         DEF AddRequiredFeatures, DependsInv, InfoClosed, CoreWhole, SetsWhole, ListWhole, Writing
  <1>5. CASE EnableCore
    BY <1>5, DependsCore
  <1>6. ASSUME NEW w \in FeatureSet, SanitizeFeatures(w) PROVE DependsInv'
    BY <1>6, DependsSanitize
  <1>7. CASE EnableFeatureSet
    BY <1>7, DependsEnable
  <1>8. CASE StartRemoval \/ Completed
    BY <1>1, <1>8, DependsRemoval DEF StartRemoval, Completed, RunType, Writing, Unwritten
  <1>9. ASSUME NEW w \in FeatureSet, Proceed(w), pc = "remove", UNCHANGED pc
        PROVE  DependsInv'
    BY <1>1, <1>9, DependsRemoval DEF Proceed, RunType, Writing, Unwritten
  <1>10. ASSUME NEW w \in FeatureSet, RemoveNothing(w) \/ RemoveSome(w) \/ RemoveAll(w)
         PROVE  DependsInv'
    BY <1>2, <1>9, <1>10 DEF RemoveNothing, RemoveSome, RemoveAll
  <1> QED
    BY <1>2, <1>3, <1>4, <1>5, <1>6, <1>7, <1>8, <1>10
       DEF Controller, RequirementNotFound, EnableCoreFails, EnableFeatureSetFails, SanitizeFails

\* Every step keeps the invariant.
LEMMA DependsStep == DependsInv /\ [Next]_vars => DependsInv'
  <1> SUFFICES ASSUME DependsInv, [Next]_vars PROVE DependsInv'
    OBVIOUS
  <1>1. WrittenInv'
    BY WrittenStep DEF DependsInv
  <1>2. CASE UNCHANGED vars
    BY <1>1, <1>2, DependsSame DEF vars
  <1>3. CASE Controller
    BY <1>1, <1>3, DependsController
  <1>4. CASE CallFails
    BY <1>1, <1>4, DependsIdle DEF CallFails, Again
  <1>5. CASE Resync \/ SyncWorks \/ Spoke \/ Users
    <2>1. UNCHANGED <<pc, run>>
      BY <1>5 DEF Resync, SyncWorks, Spoke, FirstReport, Report, Users, EditProfile, Toggle
    <2> QED
      BY <1>1, <2>1, DependsSame
  <1> QED
    BY <1>2, <1>3, <1>4, <1>5 DEF Next

\* At the end of a run whose claim did not move and whose reads were fresh, the
\* invariant gives each dependency its HelmRelease.
LEMMA DependsFound == DependsInv => DependsOnlyExcluded
  <1> SUFFICES ASSUME DependsInv, pc = "done", ~run.moved, run.stale = {},
                      NEW w \in SetsOf(run.info), NEW f \in works[w].hrs,
                      NEW r \in works[w].deps[f], Group[r] = NoGroup
               PROVE  r \in Installed
    BY DEF DependsOnlyExcluded
  <1>1. TypeOK /\ run.info \subseteq Feature /\ Writing /\ Unwritten = {}
    BY DEF DependsInv, WrittenInv, Typed, TypeOK, RunType, Writing, Unwritten
  <1>2. \A v \in SetsOf(run.info) : v \in FeatureSet /\ works[v] = run.wrote[v]
    BY <1>1, FeatureAssumption DEF DependsInv, WrittenInv, AsRendered, SetsOf
  <1>3. f \in Feature
    BY <1>1, <1>2 DEF TypeOK
  <1>4. PICK v \in SetsOf(run.info) : r \in run.wrote[v].hrs
    <2>1. Core \in SetsOf(run.info)
      BY FeatureAssumption DEF DependsInv, WrittenInv, InLoop, SetsOf
    <2>2. CASE w = Core
      BY <1>1, <1>2, <1>3, <2>2 DEF DependsInv, CoreWhole
    <2>3. CASE w # Core
      <3>1. WholeSet(w)
        BY <1>1, <2>3 DEF DependsInv, SetsWhole
      <3>2. f \in run.info /\ r \in Adds(run.blocked, f)
        BY <1>2, <1>3, <3>1 DEF WholeSet, Listed
      <3>3. r \in run.info
        BY <3>2 DEF DependsInv, InfoClosed, Closed
      <3>4. r \in Requires[f] /\ r # LicenseProxyServer /\ r \notin run.blocked
        BY <3>2 DEF Adds, Needed
      <3>5. r \notin Elsewhere
        BY <1>3, <3>4, ElsewhereAssumption
      <3>6. SetOf[r] \in SetsOf(run.info)
        BY <3>3 DEF SetsOf
      <3>7. CASE SetOf[r] = Core
        BY <1>1, <2>1, <3>3, <3>5, <3>7 DEF DependsInv, CoreWhole, CoreFeatures
      <3>8. CASE SetOf[r] # Core
        <4>1. WholeSet(SetOf[r])
          BY <1>1, <3>6, <3>8 DEF DependsInv, SetsWhole
        <4> QED
          BY <3>3, <3>4, <3>6, <4>1 DEF WholeSet, Open, Listed
      <3> QED
        BY <3>7, <3>8
    <2> QED
      BY <2>2, <2>3
  <1> QED
    BY <1>2, <1>4 DEF Installed

\* A completed run of EnableFeatures leaves no HelmRelease waiting for one that
\* is not installed, but for a requirement that sanitizeFeatures keeps out
\* because of its exclusion group: in whatever order the feature sets are
\* written, provided the claim was the same at every read and no ManifestWork
\* was read stale.  addRequiredFeatures, sanitizeFeatures and
\* updateHelmReleaseDependency each read the claim, and each may block a
\* requirement.
THEOREM DependsCorrect == Spec => []DependsOnlyExcluded
  <1>1. Init => WrittenInv
    BY TypeInit, NothingClean
       DEF Init, WrittenInv, AsRendered, Writing, AllClean, Clean, InLoop
  <1>2. Init => DependsInv
    BY <1>1 DEF Init, DependsInv, InfoClosed, CoreWhole, SetsWhole, ListWhole, Writing
  <1> QED
    BY <1>2, DependsStep, DependsFound, PTL DEF Spec
--------------------------------------------------------------------------------
(***************************************************************************)
(* One completed run settles the cluster.                                  *)
(***************************************************************************)

\* featureInfo is what addRequiredFeatures makes of the profile's features.
InfoOfProfile ==
    /\ pc = "require" => run.info = run.p.features
    /\ pc \in {"core", "sanitize", "enable", "remove", "done"} =>
          run.info = Closure[run.blocked][run.p.features]

\* The ManifestWorks written so far have the profile's values.
ValuesOfProfile ==
    Writing => \A w \in Current \ Unwritten : run.wrote[w].rev = run.p.rev

OfProfile == InfoOfProfile /\ ValuesOfProfile

\* A write renders the values of the profile the run has read.
LEMMA OfProfileWrites ==
  ASSUME TypeOK, OfProfile, NEW w \in FeatureSet, NEW mod \in Work, Writes(w, mod),
         mod.rev = run.p.rev, pc' = "sanitize", pc \in {"core", "enable"},
         w = Core \/ pc = "enable"
  PROVE  OfProfile'
  <1>1. run \in RunType /\ run.wrote \in [FeatureSet -> Work] /\ run.info \subseteq Feature
    BY DEF TypeOK, RunType
  <1>2. /\ run'.info = run.info /\ run'.wrote = [run.wrote EXCEPT ![w] = mod]
        /\ run'.todo = IF w = Core THEN SetsOf(run.info) \ {Core} ELSE run.todo \ {w}
        /\ run'.blocked = run.blocked
    BY WritesRun, WritesClaim
  <1>3. run'.p = run.p
    BY <1>1 DEF Writes, RunType
  <1>4. InfoOfProfile'
    BY <1>2, <1>3 DEF OfProfile, InfoOfProfile
  <1>5. ASSUME NEW v \in SetsOf(run.info), v \notin run'.todo PROVE run'.wrote[v].rev = run.p.rev
    <2>1. v \in FeatureSet
      BY <1>1, FeatureAssumption DEF SetsOf
    <2>2. CASE v = w
      BY <1>1, <1>2, <2>1, <2>2
    <2>3. CASE v # w
      <3>1. w # Core /\ v \notin run.todo /\ run'.wrote[v] = run.wrote[v]
        BY <1>1, <1>2, <1>5, <2>1, <2>3
      <3> QED
        BY <3>1 DEF OfProfile, ValuesOfProfile, Writing, Unwritten
    <2> QED
      BY <2>2, <2>3
  <1>6. ValuesOfProfile'
    BY <1>2, <1>3, <1>5 DEF ValuesOfProfile, Unwritten, SetsOf
  <1> QED
    BY <1>4, <1>6 DEF OfProfile

\* Every step keeps the run to the profile it has read.
LEMMA OfProfileStep == Typed /\ OfProfile /\ [Next]_vars => OfProfile'
  <1> SUFFICES ASSUME Typed, OfProfile, [Next]_vars PROVE OfProfile'
    OBVIOUS
  <1>1. TypeOK /\ run \in RunType
    BY DEF Typed, TypeOK
  <1>2. CASE UNCHANGED <<pc, run>>
    BY <1>2 DEF OfProfile, InfoOfProfile, ValuesOfProfile, Writing, Unwritten, SetsOf
  <1>3. CASE pc' = "idle"
    BY <1>3 DEF OfProfile, InfoOfProfile, ValuesOfProfile, Writing
  <1>4. ASSUME pc \in {"sanitize", "remove"}, pc' \in {"enable", "remove", "done"}, run'.p = run.p,
               run'.info = run.info, run'.blocked = run.blocked, run'.wrote = run.wrote,
               Unwritten \subseteq Unwritten'
        PROVE  OfProfile'
    BY <1>4 DEF OfProfile, InfoOfProfile, ValuesOfProfile, Writing, SetsOf
  <1>5. CASE Reconcile
    <2>1. run' = [NoRun EXCEPT !.p = profile, !.info = profile.features] /\ pc' = "require"
      BY <1>5 DEF Reconcile
    <2>2. run'.p = profile /\ run'.info = profile.features
      BY <2>1 DEF NoRun
    <2> QED
      BY <2>1, <2>2 DEF OfProfile, InfoOfProfile, ValuesOfProfile, Writing
  <1>6. CASE AddRequiredFeatures
    <2>1. /\ run'.info = Closure[Blocked(claim)][run.info] /\ run'.blocked = Blocked(claim)
          /\ run'.p = run.p /\ pc = "require" /\ pc' = "core"
      BY <1>1, <1>6 DEF AddRequiredFeatures, RunType
    <2> QED
      BY <2>1 DEF OfProfile, InfoOfProfile, ValuesOfProfile, Writing
  <1>7. CASE EnableCore
    <2> DEFINE mod == Rendered(CoreFeatures, CoreDependsOn(CoreFeatures))
    <2>1. mod \in Work /\ mod.rev = run.p.rev /\ Core \in FeatureSet
      <3>1. CoreFeatures \in SUBSET Feature
        BY <1>1 DEF CoreFeatures, RunType
      <3> QED
        BY <1>1, <3>1, RenderedType, FeatureAssumption DEF Rendered
    <2>2. Writes(Core, mod) /\ pc = "core" /\ pc' = "sanitize"
      BY <1>7 DEF EnableCore
    <2> HIDE DEF mod
    <2> QED
      BY <1>1, <2>1, <2>2, OfProfileWrites
  <1>8. CASE EnableFeatureSet
    <2> DEFINE mod == Rendered(run.list, DependsOn(run.list, Blocked(claim)))
    <2>1. mod \in Work /\ mod.rev = run.p.rev /\ run.set \in FeatureSet
      <3>1. run.list \in SUBSET Feature /\ run.set \in FeatureSet
        BY <1>1 DEF RunType
      <3> QED
        BY <1>1, <3>1, RenderedType DEF Rendered
    <2>2. Writes(run.set, mod) /\ pc = "enable" /\ pc' = "sanitize"
      BY <1>8 DEF EnableFeatureSet
    <2> HIDE DEF mod
    <2> QED
      BY <1>1, <2>1, <2>2, OfProfileWrites
  <1>9. ASSUME NEW w \in FeatureSet, SanitizeFeatures(w) PROVE OfProfile'
    BY <1>1, <1>4, <1>9 DEF SanitizeFeatures, RunType, Unwritten
  <1>10. CASE StartRemoval \/ Completed
    BY <1>1, <1>4, <1>10 DEF StartRemoval, Completed, RunType, Unwritten
  <1>11. ASSUME NEW w \in FeatureSet, RemoveNothing(w) \/ RemoveSome(w) \/ RemoveAll(w)
         PROVE  OfProfile'
    <2>1. CASE Proceed(w) /\ UNCHANGED pc
      BY <1>1, <1>4, <1>11, <2>1
         DEF RemoveNothing, RemoveSome, RemoveAll, Proceed, RunType, Unwritten
    <2> QED
      BY <1>3, <1>11, <2>1 DEF RemoveNothing, RemoveSome, RemoveAll, Again
  <1>12. CASE Controller
    BY <1>3, <1>5, <1>6, <1>7, <1>8, <1>9, <1>10, <1>11, <1>12
       DEF Controller, RequirementNotFound, EnableCoreFails, EnableFeatureSetFails, SanitizeFails,
           Again, Done
  <1>13. CASE CallFails
    BY <1>3, <1>13 DEF CallFails, Again
  <1>14. CASE Resync \/ SyncWorks \/ Spoke \/ Users \/ UNCHANGED vars
    BY <1>2, <1>14
       DEF Resync, SyncWorks, Spoke, FirstReport, Report, Users, EditProfile, Toggle, vars
  <1> QED
    BY <1>12, <1>13, <1>14 DEF Next

\* At the end of such a run the ManifestWorks are those of the profile.
LEMMA SettledFound == DependsInv /\ OfProfile => DoneIsSettled
  <1> SUFFICES ASSUME DependsInv, OfProfile, pc = "done", ~run.moved, run.stale = {},
                      profile = run.p, Blocked(claim) = run.blocked
               PROVE  Settled
    BY DEF DoneIsSettled
  <1>1. TypeOK /\ run.info \subseteq Feature /\ Writing /\ Unwritten = {}
    BY DEF DependsInv, WrittenInv, Typed, TypeOK, RunType, Writing, Unwritten
  <1>2. Closure[Blocked(claim)][profile.features] = run.info
    BY DEF OfProfile, InfoOfProfile
  <1>3. \A v \in SetsOf(run.info) : v \in FeatureSet /\ works[v] = run.wrote[v]
    BY <1>1, FeatureAssumption DEF DependsInv, WrittenInv, AsRendered, SetsOf
  <1> SUFFICES ASSUME NEW w \in SetsOf(run.info)
               PROVE  /\ works[w].rev = profile.rev
                      /\ works[w].hrs \subseteq run.info
                      /\ \A f \in run.info \ Elsewhere :
                            /\ SetOf[f] = w
                            /\ w = Core \/ (f \notin Blocked(claim) /\ Group[f] = NoGroup)
                            => f \in works[w].hrs
    BY <1>2 DEF Settled
  <1>4. works[w].rev = profile.rev
    BY <1>1, <1>3 DEF OfProfile, ValuesOfProfile
  <1>5. works[w].hrs \subseteq run.info
    BY <1>3 DEF DependsInv, WrittenInv, AllClean, Clean
  <1>6. ASSUME NEW f \in run.info \ Elsewhere, SetOf[f] = w, w = Core PROVE f \in works[w].hrs
    BY <1>1, <1>3, <1>6 DEF DependsInv, CoreWhole, CoreFeatures
  <1>7. ASSUME NEW f \in run.info, SetOf[f] = w, w # Core, f \notin run.blocked,
               Group[f] = NoGroup
        PROVE  f \in works[w].hrs
    <2>1. WholeSet(w)
      BY <1>1, <1>7 DEF DependsInv, SetsWhole
    <2> QED
      BY <1>3, <1>7, <2>1 DEF WholeSet, Open, Listed
  <1> QED
    BY <1>4, <1>5, <1>6, <1>7

\* One completed run is enough, whatever the ManifestWorks held before and in
\* whatever order the feature sets were written: unless the profile or the claim
\* moved meanwhile or a ManifestWork was read stale, every feature set of the
\* profile holds what the profile asks for, with its values, and nothing else.
THEOREM SettledCorrect == Spec => []DoneIsSettled
  <1>1. Init => DependsInv /\ OfProfile
    <2>1. Init => WrittenInv
      BY TypeInit, NothingClean
         DEF Init, WrittenInv, AsRendered, Writing, AllClean, Clean, InLoop
    <2> QED
      BY <2>1
         DEF Init, DependsInv, InfoClosed, CoreWhole, SetsWhole, ListWhole, Writing, OfProfile,
             InfoOfProfile, ValuesOfProfile
  <1>2. DependsInv => Typed
    BY DEF DependsInv, WrittenInv
  <1> QED
    BY <1>1, <1>2, DependsStep, OfProfileStep, SettledFound, PTL DEF Spec
--------------------------------------------------------------------------------
(***************************************************************************)
(* A second feature of an exclusion group.                                 *)
(***************************************************************************)

\* In the list sanitizeFeatures made, a feature the ManifestWork does not have
\* shares its group only with features it has and that the claim had not reported.
OnceInv ==
    pc = "enable" /\ run.set \notin run.stale =>
        \A f \in run.list \ works[run.set].hrs : \A g \in run.list \ {f} :
            Group[f] = Group[g] /\ Group[f] # NoGroup =>
                g \in works[run.set].hrs /\ g \notin run.enabled

\* The two invariants together.
OnceBoth == DependsInv /\ OnceInv

\* sanitizeFeatures lists one feature of a group that is not installed, and
\* only while the claim reports none: two first ones have the same rank.
LEMMA OnceSanitize ==
  ASSUME DependsInv, NEW w \in FeatureSet, SanitizeFeatures(w)
  PROVE  OnceInv'
  <1>1. run \in RunType
    BY DEF DependsInv, WrittenInv, Typed, TypeOK
  <1>2. /\ run'.set = w /\ run'.list = Sanitized(w) /\ run'.enabled = claim.enabled
        /\ run'.stale = StaleNow(w) /\ UNCHANGED works
        /\ Listed(w) \subseteq HubCatalogue /\ Listed(w) \subseteq Feature
    BY <1>1 DEF SanitizeFeatures, Sanitizable, RunType, Listed
  <1> SUFFICES ASSUME w \notin StaleNow(w),
                      NEW f \in Sanitized(w), f \notin works[w].hrs,
                      NEW g \in Sanitized(w), g # f, Group[f] = Group[g], Group[f] # NoGroup
               PROVE  g \in works[w].hrs /\ g \notin claim.enabled
    BY <1>2 DEF OnceInv
  <1> DEFINE open == Listed(w) \ Blocked(claim)
  <1>3. SeenWorks[w] = works[w]
    BY DEF StaleNow
  <1>4. f \in open /\ g \in open /\ SetOf[f] = w /\ SetOf[g] = w
    BY DEF Sanitized, Listed
  <1>5. ~Exists(f)
    BY <1>3, <1>4 DEF Exists
  <1>6. ~Taken(f) /\ FirstOfGroup(f, open)
    BY <1>5 DEF Sanitized
  <1>7. g \notin claim.enabled
    BY <1>2, <1>4, <1>6 DEF Taken
  <1>8. ~FirstOfGroup(g, open)
    <2>1. Rank[f] \in Nat /\ Rank[g] \in Nat /\ Rank[f] # Rank[g]
      BY <1>2, <1>4, FeatureAssumption
    <2> QED
      BY <1>4, <1>6, <2>1 DEF FirstOfGroup
  <1>9. Exists(g)
    BY <1>8 DEF Sanitized
  <1> QED
    BY <1>3, <1>4, <1>7, <1>9 DEF Exists

\* Every step keeps the invariant.
LEMMA OnceStep == OnceBoth /\ [Next]_vars => OnceBoth'
  <1> SUFFICES ASSUME OnceBoth, [Next]_vars PROVE OnceInv'
    BY DependsStep DEF OnceBoth
  <1>1. CASE UNCHANGED <<pc, run, works>>
    BY <1>1 DEF OnceBoth, OnceInv
  <1>2. CASE pc' # "enable"
    BY <1>2 DEF OnceInv
  <1>3. ASSUME NEW w \in FeatureSet, SanitizeFeatures(w) PROVE OnceInv'
    BY <1>3, OnceSanitize DEF OnceBoth
  <1> QED
    <2>1. CASE Controller
      BY <1>2, <1>3, <2>1
         DEF Controller, Again, Reconcile, AddRequiredFeatures, RequirementNotFound, EnableCore,
             EnableCoreFails, SanitizeFails, EnableFeatureSet, EnableFeatureSetFails,
             StartRemoval, RemoveNothing, RemoveSome, RemoveAll, Completed, Done
    <2>2. CASE CallFails
      BY <1>2, <2>2 DEF CallFails, Again
    <2>3. CASE Resync \/ SyncWorks \/ Spoke \/ Users \/ UNCHANGED vars
      BY <1>1, <2>3
         DEF Resync, SyncWorks, Spoke, FirstReport, Report, Users, EditProfile, Toggle, vars
    <2> QED
      BY <2>1, <2>2, <2>3 DEF Next

\* The write of a feature set gives it the list that sanitizeFeatures made.
LEMMA OnceWrite ==
  ASSUME OnceBoth, EnableFeatureSet, run.set \notin run'.stale
  PROVE  run.set \notin run.stale /\ works'[run.set].hrs = run.list
  <1> DEFINE mod == Rendered(run.list, DependsOn(run.list, Blocked(claim)))
  <1>1. TypeOK /\ run.list \in SUBSET Feature /\ run.set \in FeatureSet
    BY DEF OnceBoth, DependsInv, WrittenInv, Typed, TypeOK, RunType
  <1>2. mod \in Work /\ mod.hrs = run.list
    BY <1>1, RenderedType DEF Rendered
  <1>3. Writes(run.set, mod)
    BY DEF EnableFeatureSet
  <1> HIDE DEF mod
  <1>4. run'.stale = StaleNow(run.set) /\ run'.wrote = [run.wrote EXCEPT ![run.set] = mod]
    BY <1>1, <1>2, <1>3, WritesRun
  <1>5. run'.wrote[run.set] = mod
    BY <1>1, <1>4 DEF TypeOK, RunType
  <1>6. works'[run.set] = mod
    BY <1>1, <1>2, <1>3, <1>5, WritesWorks
  <1> QED
    BY <1>2, <1>4, <1>6 DEF StaleNow

\* A feature set never gets a second feature of an exclusion group from a fresh
\* read, unless the first one was installed before and the claim that
\* sanitizeFeatures read had not reported it: for every group, every order of
\* the features and every claim.
THEOREM SecondCorrect == Spec => SecondOnlyUnreported
  <1> DEFINE Second ==
               pc = "enable" /\ run.set \notin run'.stale =>
                 \A f \in works'[run.set].hrs \ works[run.set].hrs :
                    \A g \in works'[run.set].hrs \ {f} :
                       Group[f] = Group[g] /\ Group[f] # NoGroup =>
                          g \in works[run.set].hrs /\ g \notin run.enabled
  <1>1. Init => OnceBoth
    <2>1. Init => WrittenInv
      BY TypeInit, NothingClean
         DEF Init, WrittenInv, AsRendered, Writing, AllClean, Clean, InLoop
    <2> QED
      BY <2>1
         DEF Init, OnceBoth, OnceInv, DependsInv, InfoClosed, CoreWhole, SetsWhole, ListWhole,
             Writing
  <1>2. ASSUME OnceBoth, [Next]_vars PROVE [Second]_vars
    <2>1. CASE EnableFeatureSet
      BY <1>2, <2>1, OnceWrite DEF OnceBoth, OnceInv
    <2>2. CASE UNCHANGED works
      BY <2>2
    <2>3. CASE pc # "enable"
      BY <2>3
    <2> QED
      BY <1>2, <2>1, <2>2, <2>3
         DEF Next, Controller, Reconcile, AddRequiredFeatures, RequirementNotFound, EnableCore,
             EnableCoreFails, SanitizeFeatures, SanitizeFails, EnableFeatureSetFails,
             StartRemoval, RemoveNothing, RemoveSome, RemoveAll, Completed, Done, CallFails,
             Resync, SyncWorks, Spoke, FirstReport, Report, Users, EditProfile, Toggle, vars
  <1> QED
    BY <1>1, <1>2, OnceStep, PTL DEF Spec, SecondOnlyUnreported
--------------------------------------------------------------------------------
(***************************************************************************)
(* The loop of sanitizeFeatures, for every list of features, leaves the    *)
(* set that Installer defines without a loop.  The induction over its      *)
(* turns is by a smallest counterexample.                                  *)
(***************************************************************************)

\* A set of numbers that is not empty has a smallest one.
LEMMA SmallestOf ==
  ASSUME NEW T \in SUBSET Nat, T # {}
  PROVE  \E x \in T : \A y \in T : x <= y
  <1> DEFINE R == OpToRel(<, Nat)
  <1>1. IsWellFoundedOn(R, Nat)
    BY NatLessThanWellFounded, Zenon
  <1>2. \A x, y \in Nat : y < x => <<y, x>> \in R
    BY DEF OpToRel
  <1> HIDE DEF R
  <1>3. PICK x \in T : \A y \in T : ~ (<<y, x>> \in R)
    BY <1>1, WFMin
  <1>4. ASSUME NEW y \in T PROVE x <= y
    <2>1. x \in Nat /\ y \in Nat
      OBVIOUS
    <2>2. ~(y < x)
      BY <1>2, <1>3, <2>1
    <2> QED
      BY <2>1, <2>2
  <1> QED
    BY <1>4

\* The features of list fs that come first in their group: each group has one.
LEMMA FirstExists ==
  ASSUME NEW fs \in SUBSET Feature, NEW f \in fs
  PROVE  \E g \in fs : Group[g] = Group[f] /\ Rank[g] <= Rank[f] /\ FirstOfGroup(g, fs)
  <1> DEFINE same == {g \in fs : Group[g] = Group[f]}
             T    == {Rank[g] : g \in same}
  <1>1. \A g \in fs : Rank[g] \in Nat
    BY FeatureAssumption
  <1>2. T \in SUBSET Nat /\ T # {}
    BY <1>1
  <1>3. PICK x \in T : \A y \in T : x <= y
    BY <1>2, SmallestOf
  <1>4. PICK g \in same : Rank[g] = x
    BY <1>3
  <1>5. \A h \in fs : Group[h] = Group[g] => Rank[g] <= Rank[h]
    BY <1>3, <1>4
  <1> QED
    BY <1>3, <1>4, <1>5 DEF FirstOfGroup

\* What the loop has kept after the features up to place n, and the groups it
\* has found taken.
Kept(w, n) == {f \in Sanitized(w) : Rank[f] <= n}

LoopHas(w, n) ==
    [keep |-> Kept(w, n), taken |-> LoopStart.taken \cup {Group[f] : f \in Kept(w, n)}]

\* One turn of the loop keeps the feature in place n if it is in Sanitized.
LEMMA LoopTurn ==
  ASSUME TypeOK, NEW w \in FeatureSet, NEW n \in Nat \ {0}
  PROVE  LoopAdds(w, n, LoopHas(w, n - 1)) = {f \in Sanitized(w) : Rank[f] = n}
  <1> DEFINE open == Listed(w) \ Blocked(claim)
  <1>1. open \subseteq Feature /\ Sanitized(w) \subseteq open
    BY DEF TypeOK, RunType, Listed, Sanitized
  <1>2. \A f \in open : Rank[f] \in Nat
    BY <1>1, FeatureAssumption
  <1> SUFFICES ASSUME NEW f \in open, Rank[f] = n, Group[f] # NoGroup, ~Exists(f)
               PROVE  Group[f] \notin LoopHas(w, n - 1).taken
                        <=> ~Taken(f) /\ FirstOfGroup(f, open)
    BY <1>1 DEF LoopAdds, Sanitized
  <1>3. Group[f] \notin LoopHas(w, n - 1).taken
          <=> ~Taken(f) /\ \A g \in Kept(w, n - 1) : Group[g] # Group[f]
    BY DEF LoopHas, LoopStart, Taken
  <1>4. ASSUME FirstOfGroup(f, open), NEW g \in Kept(w, n - 1), Group[g] = Group[f]
        PROVE  FALSE
    <2>1. g \in open /\ Rank[g] <= n - 1
      BY <1>1 DEF Kept
    <2>2. n <= Rank[g]
      BY <1>4, <2>1 DEF FirstOfGroup
    <2> QED
      BY <1>2, <2>1, <2>2
  <1>5. ASSUME ~Taken(f), \A g \in Kept(w, n - 1) : Group[g] # Group[f]
        PROVE  FirstOfGroup(f, open)
    <2>1. PICK g \in open : Group[g] = Group[f] /\ Rank[g] <= n /\ FirstOfGroup(g, open)
      BY <1>1, FirstExists
    <2>2. ~Taken(g)
      BY <1>5, <2>1 DEF Taken
    <2>3. g \in Sanitized(w)
      BY <2>1, <2>2 DEF Sanitized
    <2>4. Rank[g] = n
      BY <1>2, <1>5, <2>1, <2>3 DEF Kept
    <2> QED
      BY <2>1, <2>4 DEF FirstOfGroup
  <1> QED
    BY <1>3, <1>4, <1>5

\* So the closed form obeys the equations of the loop.
LEMMA LoopEquation ==
  ASSUME TypeOK, NEW w \in FeatureSet
  PROVE  /\ LoopHas(w, 0) = LoopStart
         /\ \A n \in Nat \ {0} : LoopHas(w, n) = LoopStep(w, n, LoopHas(w, n - 1))
  <1>1. \A f \in Sanitized(w) : Rank[f] \in Nat \ {0}
    BY FeatureAssumption DEF TypeOK, RunType, Listed, Sanitized
  <1>2. Kept(w, 0) = {}
    BY <1>1 DEF Kept
  <1>3. LoopHas(w, 0) = LoopStart
    BY <1>2 DEF LoopHas, LoopStart
  <1>4. ASSUME NEW n \in Nat \ {0}
        PROVE  LoopHas(w, n) = LoopStep(w, n, LoopHas(w, n - 1))
    <2> DEFINE adds == LoopAdds(w, n, LoopHas(w, n - 1))
    <2>1. adds = {f \in Sanitized(w) : Rank[f] = n}
      BY LoopTurn
    <2>2. Kept(w, n) = Kept(w, n - 1) \cup adds
      BY <1>1, <2>1 DEF Kept
    <2> HIDE DEF adds
    <2>3. {Group[f] : f \in Kept(w, n)}
            = {Group[f] : f \in Kept(w, n - 1)} \cup {Group[f] : f \in adds}
      BY <2>2
    <2>4. LoopHas(w, n - 1).keep = Kept(w, n - 1)
          /\ LoopHas(w, n - 1).taken = LoopStart.taken \cup {Group[f] : f \in Kept(w, n - 1)}
      BY DEF LoopHas
    <2> QED
      BY <2>2, <2>3, <2>4 DEF LoopHas, LoopStep, adds
  <1> QED
    BY <1>3, <1>4

\* The loop and the closed form agree after each turn.
LEMMA LoopIsClosedForm ==
  ASSUME TypeOK, NEW w \in FeatureSet
  PROVE  LoopFrom(w)[Cardinality(Feature)].keep = Sanitized(w)
  <1> DEFINE N       == Cardinality(Feature)
             Solves(a) == a = [n \in 0..N |-> IF n = 0 THEN LoopStart ELSE LoopStep(w, n, a[n - 1])]
             closed  == [n \in 0..N |-> LoopHas(w, n)]
             acc     == LoopFrom(w)
  <1>1. N \in Nat
    BY FeatureAssumption, FS_CardinalityType
  <1>2. Solves(closed)
    <2>1. ASSUME NEW n \in 0..N
          PROVE  closed[n] = IF n = 0 THEN LoopStart ELSE LoopStep(w, n, closed[n - 1])
      BY <1>1, LoopEquation
    <2> QED
      BY <2>1
  <1>3. acc = CHOOSE a : Solves(a)
    BY DEF LoopFrom
  <1>4. Solves(acc)
    BY <1>2, <1>3
  <1> HIDE DEF acc
  <1>5. \A n \in 0..N : acc[n] = IF n = 0 THEN LoopStart ELSE LoopStep(w, n, acc[n - 1])
    BY <1>4
  <1>6. ASSUME NEW n \in 0..N, acc[n] # LoopHas(w, n) PROVE FALSE
    <2> DEFINE T == {i \in 0..N : acc[i] # LoopHas(w, i)}
    <2>1. T \in SUBSET Nat /\ T # {}
      BY <1>1, <1>6
    <2>2. PICK i \in T : \A j \in T : i <= j
      BY <2>1, SmallestOf
    <2>3. i # 0
      BY <1>1, <1>5, <2>2, LoopEquation
    <2>4. i - 1 \in 0..N /\ i \in Nat \ {0}
      BY <1>1, <2>2, <2>3
    <2>5. acc[i - 1] = LoopHas(w, i - 1)
      BY <2>2, <2>4
    <2>6. acc[i] = LoopStep(w, i, acc[i - 1])
      BY <1>5, <2>2, <2>3
    <2>7. acc[i] = LoopHas(w, i)
      BY <2>4, <2>5, <2>6, LoopEquation
    <2> QED
      BY <2>2, <2>7
  <1>7. acc[N] = LoopHas(w, N)
    BY <1>1, <1>6
  <1>8. Kept(w, N) = Sanitized(w)
    BY <1>1, FeatureAssumption DEF Kept, TypeOK, RunType, Listed, Sanitized
  <1> QED
    BY <1>7, <1>8 DEF LoopHas, acc

\* The set that Installer takes for the result of sanitizeFeatures is what its
\* loop over the sorted list computes: features blocked by the claim are
\* skipped, and a group that is taken, by the claim or by an earlier turn, lets
\* only features pass that are in the ManifestWork.
THEOREM SanitizedCorrect == Spec => []SanitizedIsLoop
  <1>1. TypeOK => SanitizedIsLoop
    BY LoopIsClosedForm DEF TypeOK, RunType, SanitizedIsLoop
  <1> QED
    BY <1>1, TypeCorrect, PTL
================================================================================

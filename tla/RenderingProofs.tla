---------------------------- MODULE RenderingProofs ----------------------------
(***************************************************************************)
(* Proofs about Rendering, for documents of any size and depth.  What they *)
(* rest on is that pruneNulls leaves nothing to prune, and that merging    *)
(* with an empty document changes nothing.  At the end, that MergeMaps and *)
(* PruneNulls are what the recursive functions of the code compute.        *)
(***************************************************************************)
EXTENDS Rendering, TLAPS, NaturalsInduction, WellFoundedInduction

\* A spec has these three fields.
IsSpec(x) == x = [version |-> x.version, ns |-> x.ns, values |-> x.values]

\* What the code path op renders now.
Target(op) == IF op = "install" THEN InstalledSpec(src) ELSE UpgradedSpec(src, The(stored))

\* The ManifestWork holds one spec, or none before the first installation.
StoresSpec == \A x \in stored : stored = {x} /\ IsSpec(x)

\* After a write, and until the sources change, the ManifestWork holds what the
\* path that wrote it renders, but for nulls.
StoresTarget ==
    last.op # "none" => stored # {} /\ Pruned(The(stored)) = Pruned(Target(last.op))

\* The invariant.
RenderInv ==
    /\ kind \in {"core", "feature"} /\ src \in Sources
    /\ StoresSpec /\ StoresTarget /\ ReachesGeneration /\ PathsAgree
--------------------------------------------------------------------------------
(***************************************************************************)
(* Documents                                                               *)
(***************************************************************************)

\* pruneNulls leaves nothing to prune: a null it keeps is in a list, which it
\* keeps as well.
LEMMA PruneTwice == ASSUME NEW d PROVE PruneNulls(PruneNulls(d)) = PruneNulls(d)
  <1> DEFINE e == PruneNulls(d)
  <1>1. /\ DOMAIN e = {p \in DOMAIN d : d[p] # "null" \/ InList(d, p)}
        /\ \A p \in DOMAIN e : e[p] = d[p]
        /\ e = [p \in DOMAIN e |-> e[p]]
    BY DEF PruneNulls
  <1>2. ASSUME NEW p \in DOMAIN e, e[p] = "null" PROVE InList(e, p)
    <2>1. Front(p) \in DOMAIN d /\ d[Front(p)] = "list"
      BY <1>1, <1>2 DEF InList
    <2> QED
      BY <1>1, <2>1 DEF InList
  <1> HIDE DEF e
  <1>3. {p \in DOMAIN e : e[p] # "null" \/ InList(e, p)} = DOMAIN e
    BY <1>2
  <1> QED
    BY <1>1, <1>3 DEF PruneNulls, e

\* Pruning a spec prunes its values.
LEMMA PrunedSpec ==
  ASSUME NEW x, IsSpec(x)
  PROVE  Pruned(x) = [version |-> x.version, ns |-> x.ns, values |-> PruneNulls(x.values)]
  BY DEF IsSpec, Pruned

\* Pruning a spec twice is pruning it once.
LEMMA PrunedTwice ==
  ASSUME NEW x, IsSpec(x)
  PROVE  IsSpec(Pruned(x)) /\ Pruned(Pruned(x)) = Pruned(x)
  <1>1. IsSpec(Pruned(x))
    BY PrunedSpec DEF IsSpec
  <1> QED
    BY <1>1, PrunedSpec, PruneTwice

\* Merging an empty document, or over one, changes nothing.
LEMMA MergeEmpty ==
  ASSUME NEW d, d = [p \in DOMAIN d |-> d[p]]
  PROVE  MergeMaps(d, Empty) = d /\ MergeMaps(Empty, d) = d
  <1>1. DOMAIN Empty = {}
    BY DEF Empty
  <1> QED
    BY <1>1 DEF MergeMaps

\* The element of a source that is there.
LEMMA TheOne == ASSUME NEW x PROVE The({x}) = x
  BY DEF The

\* A source is a document, or an empty one.
LEMMA OrEmptyDocument ==
  ASSUME NEW S \in SUBSET (ChartValues \cup FeatureValues \cup ProfileValues \cup BindingValues),
         NEW o \in Optional(S)
  PROVE  /\ OrEmpty(o) = [p \in DOMAIN OrEmpty(o) |-> OrEmpty(o)[p]]
         /\ o # {} => OrEmpty(o) = The(o)
  <1>1. Empty = [p \in DOMAIN Empty |-> Empty[p]]
    BY DEF Empty
  <1>2. CASE o = {}
    BY <1>1, <1>2 DEF OrEmpty
  <1>3. ASSUME NEW x \in S, o = {x} PROVE OrEmpty(o) = x /\ The(o) = x
    BY <1>3, TheOne DEF OrEmpty
  <1> QED
    BY <1>2, <1>3, ValuesAssumption DEF Optional, IsDocument, OrEmpty
--------------------------------------------------------------------------------
(***************************************************************************)
(* The two paths                                                           *)
(***************************************************************************)

\* Both paths render a spec, and rendering an upgrade again over its own result
\* gives the same.
LEMMA TargetSpec ==
  ASSUME NEW old
  PROVE  /\ IsSpec(InstalledSpec(src)) /\ IsSpec(UpgradedSpec(src, old))
         /\ \A new : new.ns = UpgradedSpec(src, old).ns
                => UpgradedSpec(src, new) = UpgradedSpec(src, old)
  BY DEF IsSpec, InstalledSpec, CreateHelmRelease, GenerateHelmRelease, UpgradedSpec,
         UpgradedCore, UpgradedFeature

\* Unless the sources diverge, installation and upgrade render the same.
LEMMA SameTarget ==
  ASSUME src \in Sources, kind \in {"core", "feature"}, ~Diverging(src), NEW old
  PROVE  InstalledSpec(src) = UpgradedSpec(src, old)
  <1>1. kind = "feature"
    BY DEF Diverging
  <1>2. InstalledValues(src) = UpgradedValues(src)
    <2>1. CASE src.binding # {}
      BY <2>1 DEF InstalledValues, UpgradedValues
    <2>2. CASE src.binding = {}
      <3> DEFINE c == OrEmpty(src.chart)
                 f == OrEmpty(src.feature)
      <3>1. src.chart \in Optional(ChartValues) /\ src.feature \in Optional(FeatureValues)
        BY DEF Sources
      <3>2. /\ c = [p \in DOMAIN c |-> c[p]] /\ f = [p \in DOMAIN f |-> f[p]]
            /\ src.feature # {} => f = The(src.feature)
        BY <3>1, OrEmptyDocument
      <3>3. src.chart = {} \/ src.feature = {}
        BY <2>2 DEF Diverging
      <3>4. src.chart = {} => c = Empty
        BY DEF OrEmpty
      <3>5. src.feature = {} => f = Empty
        BY DEF OrEmpty
      <3> HIDE DEF c, f
      <3>6. MergeMaps(c, f) = IF src.feature # {} THEN The(src.feature) ELSE c
        BY <3>2, <3>3, <3>4, <3>5, MergeEmpty
      <3> QED
        BY <2>2, <3>6 DEF InstalledValues, UpgradedValues, c, f
    <2> QED
      BY <2>1, <2>2
  <1>3. GenerateHelmRelease(src) = UpgradedFeature(src, old)
    BY <1>2 DEF Diverging, GenerateHelmRelease, UpgradedFeature, UpgradedNamespace
  <1> QED
    BY <1>1, <1>3 DEF InstalledSpec, UpgradedSpec

\* What CreateOrPatch stores is the rendered spec but for nulls, and if pruning
\* tells the two apart, it is not what was stored before.
LEMMA StoreSpec ==
  ASSUME StoresSpec, NEW new, IsSpec(new)
  PROVE  /\ IsSpec(Store(stored, new))
         /\ Pruned(Store(stored, new)) = Pruned(new)
         /\ Store(stored, new).ns = new.ns
         /\ stored # {} /\ Pruned(The(stored)) # Pruned(new) => {Store(stored, new)} # stored
  <1>1. Store(stored, new) \in {new, Pruned(new)}
    BY DEF Store
  <1>2. /\ IsSpec(Pruned(new)) /\ Pruned(Pruned(new)) = Pruned(new) /\ Pruned(new).ns = new.ns
    BY PrunedTwice, PrunedSpec
  <1>3. ASSUME {Store(stored, new)} = stored PROVE The(stored) = Store(stored, new)
    BY <1>3, TheOne
  <1> QED
    BY <1>1, <1>2, <1>3

\* A write by the path op.
LEMMA WriteKeeps ==
  ASSUME RenderInv, NEW op \in {"install", "upgrade"}, NEW changed,
         Write(op, Target(op), changed),
         op = "upgrade" => stored # {} /\ changed = SpecChanged(The(stored), Target(op))
  PROVE  RenderInv'
  <1> DEFINE new == Target(op)
             now == Store(stored, new)
  <1>1. StoresSpec /\ StoresTarget
    BY DEF RenderInv
  <1>2. IsSpec(new)
    BY TargetSpec DEF Target
  <1>3. /\ IsSpec(now) /\ Pruned(now) = Pruned(new) /\ now.ns = new.ns
        /\ stored # {} /\ Pruned(The(stored)) # Pruned(new) => {now} # stored
    BY <1>1, <1>2, StoreSpec
  <1>4. /\ stored' = {now} /\ The(stored') = now
        /\ last' = [op |-> op, prev |-> last.op, changed |-> changed, grew |-> {now} # stored,
                    differs |-> stored # {} /\ Pruned(now) # Pruned(The(stored))]
        /\ kind' = kind /\ src' = src
    BY TheOne DEF Write
  <1>5. StoresSpec'
    BY <1>3, <1>4 DEF StoresSpec
  <1>6. Target(op)' = new
    <2>1. CASE op = "install"
      BY <1>4, <2>1 DEF Target, InstalledSpec
    <2>2. CASE op = "upgrade"
      <3>1. new = UpgradedSpec(src, The(stored))
        BY <2>2 DEF Target
      <3>2. UpgradedSpec(src, now) = new
        BY <1>3, <3>1, TargetSpec
      <3>3. Target(op)' = UpgradedSpec(src, now)
        BY <1>4, <2>2 DEF Target, UpgradedSpec
      <3> QED
        BY <3>2, <3>3
    <2> QED
      BY <2>1, <2>2
  <1> HIDE DEF new, now
  <1>7. StoresTarget'
    BY <1>3, <1>4, <1>6 DEF StoresTarget
  <1>8. ReachesGeneration'
    BY <1>3, <1>4 DEF ReachesGeneration, SpecChanged, new
  <1>9. PathsAgree'
    <2> SUFFICES ASSUME last.op # "none", Pruned(now) # Pruned(The(stored)),
                        op = last.op \/ ~Diverging(src)
                 PROVE  FALSE
      BY <1>4 DEF PathsAgree, Diverging, UpgradedNamespace
    <2>1. Pruned(The(stored)) = Pruned(Target(last.op))
      BY <1>1 DEF StoresTarget
    <2>2. Target(last.op) = new
      BY SameTarget DEF RenderInv, Target, new
    <2> QED
      BY <1>3, <2>1, <2>2
  <1> QED
    BY <1>4, <1>5, <1>7, <1>8, <1>9 DEF RenderInv

\* Every step keeps the invariant.
LEMMA RenderStep == RenderInv /\ [Next]_vars => RenderInv'
  <1> SUFFICES ASSUME RenderInv, [Next]_vars PROVE RenderInv'
    OBVIOUS
  <1>1. CASE Install
    BY <1>1, WriteKeeps DEF Install, Target
  <1>2. CASE Upgrade
    BY <1>2, WriteKeeps DEF Upgrade, Target
  <1>3. ASSUME NEW s \in Sources, Edit(s) PROVE RenderInv'
    BY <1>3 DEF Edit, RenderInv, StoresSpec, StoresTarget, ReachesGeneration, PathsAgree, NoWrite
  <1>4. CASE Edits
    BY <1>3, <1>4 DEF Edits, Sources, RenderInv
  <1>5. CASE UNCHANGED vars
    BY <1>5 DEF vars, RenderInv, StoresSpec, StoresTarget, Target, InstalledSpec, UpgradedSpec,
                ReachesGeneration, PathsAgree, Diverging
  <1> QED
    BY <1>1, <1>2, <1>4, <1>5 DEF Next

\* The invariant holds throughout.
LEMMA RenderCorrect == Spec => []RenderInv
  <1>1. Init => RenderInv
    BY DEF Init, RenderInv, StoresSpec, StoresTarget, ReachesGeneration, PathsAgree, NoWrite
  <1> QED
    BY <1>1, RenderStep, PTL DEF Spec

\* When specChanged announces a change, and newUpgradeTarget therefore waits for
\* one more generation, the write changes the stored manifest: for all values,
\* with nulls at any depth, and whatever was stored before.
THEOREM ReachesCorrect == Spec => []ReachesGeneration
  <1>1. RenderInv => ReachesGeneration
    BY DEF RenderInv
  <1> QED
    BY <1>1, RenderCorrect, PTL

\* Installation and upgrade from the same sources leave each other's HelmRelease
\* alone, but for the diverging sources, and each leaves its own alone always:
\* for all values and every chart, version and namespace a profile may pin.
THEOREM AgreeCorrect == Spec => []PathsAgree
  <1>1. RenderInv => PathsAgree
    BY DEF RenderInv
  <1> QED
    BY <1>1, RenderCorrect, PTL
--------------------------------------------------------------------------------
(***************************************************************************)
(* MergeMaps and pruneNulls are recursive functions in the code, and are   *)
(* defined by paths here.  Both definitions obey the equations of the      *)
(* recursion, and nothing else does: at the shortest path where something  *)
(* that obeys them differs from the definition, what the two have under    *)
(* the first key of the path would differ at a shorter one.                *)
(***************************************************************************)

\* A document all of whose paths are over the keys of K.
IsDocumentOver(d, K) == IsDocument(d) /\ DOMAIN d \subseteq Seq(K)

\* The document that d has under key i.
Below(d, i) ==
    [p \in {Tail(q) : q \in {q \in DOMAIN d : Len(q) > 1 /\ Head(q) = i}} |-> d[<<i>> \o p]]

\* d and e have the same under key i.
SameUnder(d, e, i) ==
    /\ <<i>> \in DOMAIN d <=> <<i>> \in DOMAIN e
    /\ <<i>> \in DOMAIN d => d[<<i>>] = e[<<i>>]
    /\ Below(d, i) = Below(e, i)

\* Both have a map under key i.
BothMaps(a, b, i) ==
    <<i>> \in DOMAIN a /\ <<i>> \in DOMAIN b /\ a[<<i>>] = "map" /\ b[<<i>>] = "map"

\* One turn of MergeMaps, for key i: if b has not got the key, m has what a has
\* there; if both have a map, m has their merge, sub; otherwise what b has.
MergeTurn(m, sub, a, b, i) ==
    /\ <<i>> \notin DOMAIN b => SameUnder(m, a, i)
    /\ BothMaps(a, b, i) => <<i>> \in DOMAIN m /\ m[<<i>>] = "map" /\ Below(m, i) = sub
    /\ <<i>> \in DOMAIN b /\ ~BothMaps(a, b, i) => SameUnder(m, b, i)

\* What pruneNulls does to a list: the nulls among its elements stay.
PruneElements(d) ==
    [p \in {p \in DOMAIN d : d[p] # "null" \/ Len(p) = 1 \/ InList(d, p)} |-> d[p]]

\* One turn of pruneNulls, for key i of a map, whose nulls it drops, or of a
\* list: e keeps the node and has there what pruneNulls made of it, sub.
PruneTurn(e, sub, drops, d, i) ==
    /\ <<i>> \in DOMAIN e <=> <<i>> \in DOMAIN d /\ (drops => d[<<i>>] # "null")
    /\ <<i>> \in DOMAIN e => e[<<i>>] = d[<<i>>] /\ Below(e, i) = sub

\* A set of documents that has what they have under their keys as well.
ClosedBelow(Docs, K) ==
    \A d \in Docs : IsDocumentOver(d, K) /\ \A i \in K : Below(d, i) \in Docs

\* A set of numbers that is not empty has a smallest one.
LEMMA SmallestOf ==
  ASSUME NEW T \in SUBSET Nat, T # {}
  PROVE  \E x \in T : \A y \in T : x <= y
  <1> DEFINE R == OpToRel(<, Nat)
  <1>1. IsWellFoundedOn(R, Nat)
    BY NatLessThanWellFounded, Zenon
  <1>2. \A x, y \in Nat : y < x => <<y, x>> \in R
    BY DEF OpToRel
  <1> HIDE DEF R
  <1>3. PICK x \in T : \A y \in T : ~ (<<y, x>> \in R)
    BY <1>1, WFMin
  <1>4. ASSUME NEW y \in T PROVE x <= y
    <2>1. x \in Nat /\ y \in Nat
      OBVIOUS
    <2>2. ~(y < x)
      BY <1>2, <1>3, <2>1
    <2> QED
      BY <2>1, <2>2
  <1> QED
    BY <1>4

\* Two paths are the same if they agree at every place.
LEMMA PathsEqual ==
  ASSUME NEW K, NEW p \in Seq(K), NEW q \in Seq(K), Len(p) = Len(q),
         \A j \in 1..Len(p) : p[j] = q[j]
  PROVE  p = q
  OBVIOUS

\* Only the empty path has no keys.
LEMMA EmptyPath == ASSUME NEW K, NEW p \in Seq(K) PROVE p = <<>> <=> Len(p) = 0
  <1>1. Len(<<>>) = 0
    OBVIOUS
  <1>2. <<>> \in Seq(K)
    OBVIOUS
  <1>3. Len(p) = 0 => \A j \in 1..Len(p) : p[j] = <<>>[j]
    OBVIOUS
  <1> QED
    BY <1>1, <1>2, <1>3, PathsEqual

\* A path with a key in front.
LEMMA ConsPath ==
  ASSUME NEW K, NEW i \in K, NEW p \in Seq(K)
  PROVE  /\ <<i>> \o p \in Seq(K) /\ Len(<<i>> \o p) = Len(p) + 1
         /\ (<<i>> \o p)[1] = i /\ Head(<<i>> \o p) = i
         /\ \A j \in 1..Len(p) : (<<i>> \o p)[j + 1] = p[j]
  OBVIOUS

\* The key in front taken off again.
LEMMA TailOfCons ==
  ASSUME NEW K, NEW i \in K, NEW p \in Seq(K)
  PROVE  Tail(<<i>> \o p) = p
  <1> DEFINE s == <<i>> \o p
  <1>1. s \in Seq(K) /\ Len(s) = Len(p) + 1 /\ \A j \in 1..Len(p) : s[j + 1] = p[j]
    BY ConsPath
  <1> HIDE DEF s
  <1>2. Tail(s) \in Seq(K) /\ Len(Tail(s)) = Len(p) /\ \A j \in 1..Len(p) : Tail(s)[j] = s[j + 1]
    BY <1>1
  <1>3. Tail(s) = p
    BY <1>1, <1>2, PathsEqual
  <1> QED
    BY <1>3 DEF s

\* A path is its first key in front of the others.
LEMMA ConsOfTail ==
  ASSUME NEW K, NEW s \in Seq(K), Len(s) > 0
  PROVE  /\ Head(s) \in K /\ Head(s) = s[1] /\ Tail(s) \in Seq(K)
         /\ Len(Tail(s)) = Len(s) - 1 /\ s = <<Head(s)>> \o Tail(s)
  <1>1. Head(s) \in K /\ Head(s) = s[1] /\ Tail(s) \in Seq(K) /\ Len(Tail(s)) = Len(s) - 1
        /\ \A j \in 1..(Len(s) - 1) : Tail(s)[j] = s[j + 1]
    OBVIOUS
  <1> DEFINE t == Tail(s)  u == <<Head(s)>> \o t
  <1>2. u \in Seq(K) /\ Len(u) = Len(t) + 1 /\ u[1] = Head(s) /\ \A j \in 1..Len(t) : u[j + 1] = t[j]
    BY <1>1, ConsPath
  <1> HIDE DEF u, t
  <1>3. \A j \in 1..Len(s) : s[j] = u[j]
    <2> SUFFICES ASSUME NEW j \in 1..Len(s) PROVE s[j] = u[j]
      OBVIOUS
    <2>1. CASE j = 1
      BY <1>1, <1>2, <2>1
    <2>2. CASE j > 1
      <3>1. j - 1 \in 1..(Len(s) - 1) /\ (j - 1) + 1 = j
        BY <2>2
      <3> QED
        BY <1>1, <1>2, <3>1 DEF t
    <2> QED
      BY <2>1, <2>2
  <1>4. Len(s) = Len(u)
    BY <1>1, <1>2 DEF t
  <1>5. s = u
    BY <1>2, <1>3, <1>4, PathsEqual
  <1> QED
    BY <1>1, <1>5 DEF u, t

\* s is shorter than t and the same as far as it goes.
Leads(s, t) == Len(s) < Len(t) /\ \A j \in 1..Len(s) : s[j] = t[j]

\* This is what IsStrictPrefix says of paths.
LEMMA SamePrefix ==
  ASSUME NEW K, NEW s \in Seq(K), NEW t \in Seq(K)
  PROVE  IsStrictPrefix(s, t) <=> Leads(s, t)
  <1>1. CASE Len(s) > Len(t)
    BY <1>1 DEF IsStrictPrefix, IsPrefix, Leads
  <1>2. CASE Len(s) <= Len(t)
    <2> DEFINE u == SubSeq(s, 1, Len(s))  v == SubSeq(t, 1, Len(s))
    <2>1. u \in Seq(K) /\ Len(u) = Len(s) /\ \A j \in 1..Len(s) : u[j] = s[j]
      OBVIOUS
    <2>2. v \in Seq(K) /\ Len(v) = Len(s) /\ \A j \in 1..Len(s) : v[j] = t[j]
      BY <1>2
    <2> HIDE DEF u, v
    <2>3. u = v <=> \A j \in 1..Len(s) : s[j] = t[j]
      BY <2>1, <2>2, PathsEqual
    <2>4. Len(s) = Len(t) /\ (\A j \in 1..Len(s) : s[j] = t[j]) => s = t
      BY PathsEqual
    <2>5. IsStrictPrefix(s, t) <=> u = v /\ s # t
      BY <1>2 DEF IsStrictPrefix, IsPrefix, u, v
    <2> QED
      BY <1>2, <2>3, <2>4, <2>5 DEF Leads
  <1> QED
    BY <1>1, <1>2

\* A key in front of both paths keeps what is above what.
LEMMA ConsPrefix ==
  ASSUME NEW K, NEW i \in K, NEW p \in Seq(K), NEW q \in Seq(K)
  PROVE  IsStrictPrefix(<<i>> \o q, <<i>> \o p) <=> IsStrictPrefix(q, p)
  <1> DEFINE s == <<i>> \o q  t == <<i>> \o p
  <1>1. s \in Seq(K) /\ Len(s) = Len(q) + 1 /\ s[1] = i /\ \A j \in 1..Len(q) : s[j + 1] = q[j]
    BY ConsPath
  <1>2. t \in Seq(K) /\ Len(t) = Len(p) + 1 /\ t[1] = i /\ \A j \in 1..Len(p) : t[j + 1] = p[j]
    BY ConsPath
  <1> HIDE DEF s, t
  <1>3. IsStrictPrefix(s, t) <=> Leads(s, t)
    BY <1>1, <1>2, SamePrefix
  <1>4. IsStrictPrefix(q, p) <=> Leads(q, p)
    BY SamePrefix
  <1>5. ASSUME Len(q) < Len(p), \A j \in 1..Len(q) : q[j] = p[j]
        PROVE  \A j \in 1..Len(s) : s[j] = t[j]
    <2> SUFFICES ASSUME NEW j \in 1..Len(s) PROVE s[j] = t[j]
      OBVIOUS
    <2>1. CASE j = 1
      BY <1>1, <1>2, <2>1
    <2>2. CASE j > 1
      <3>1. j - 1 \in 1..Len(q) /\ j - 1 \in 1..Len(p) /\ (j - 1) + 1 = j
        BY <1>1, <1>5, <2>2
      <3> QED
        BY <1>1, <1>2, <1>5, <3>1
    <2> QED
      BY <2>1, <2>2
  <1>6. ASSUME Len(q) < Len(p), \A j \in 1..Len(s) : s[j] = t[j], NEW j \in 1..Len(q)
        PROVE  q[j] = p[j]
    <2>1. j + 1 \in 1..Len(s) /\ j \in 1..Len(p)
      BY <1>1, <1>6
    <2> QED
      BY <1>1, <1>2, <1>6, <2>1
  <1>7. IsStrictPrefix(s, t) <=> IsStrictPrefix(q, p)
    BY <1>1, <1>2, <1>3, <1>4, <1>5, <1>6 DEF Leads
  <1> QED
    BY <1>7 DEF s, t

\* What is above a path of key i is the key alone, or a path of the same key.
LEMMA AboveCons ==
  ASSUME NEW K, NEW i \in K, NEW p \in Seq(K), NEW r \in Seq(K), Len(r) > 0,
         IsStrictPrefix(r, <<i>> \o p)
  PROVE  r = <<i>> \/ \E q \in Seq(K) : q # <<>> /\ r = <<i>> \o q /\ IsStrictPrefix(q, p)
  <1>1. <<i>> \o p \in Seq(K) /\ (<<i>> \o p)[1] = i
    BY ConsPath
  <1>2. r[1] = i
    <2> DEFINE s == <<i>> \o p
    <2>1. s \in Seq(K) /\ IsStrictPrefix(r, s) /\ s[1] = i
      BY <1>1
    <2> HIDE DEF s
    <2>2. Leads(r, s)
      BY <2>1, SamePrefix
    <2> QED
      BY <2>1, <2>2 DEF Leads
  <1>3. Tail(r) \in Seq(K) /\ Len(Tail(r)) = Len(r) - 1 /\ r = <<i>> \o Tail(r)
    BY <1>2, ConsOfTail
  <1>4. CASE Tail(r) = <<>>
    <2>1. <<i>> \in Seq(K) /\ Len(<<i>>) = 1 /\ <<i>>[1] = i
      OBVIOUS
    <2>2. Len(r) = 1
      BY <1>3, <1>4
    <2> QED
      BY <1>2, <2>1, <2>2, PathsEqual
  <1>5. CASE Tail(r) # <<>>
    BY <1>3, <1>5, ConsPrefix
  <1> QED
    BY <1>4, <1>5

\* The key is above its paths.
LEMMA KeyAbove ==
  ASSUME NEW K, NEW i \in K, NEW p \in Seq(K), p # <<>>
  PROVE  IsStrictPrefix(<<i>>, <<i>> \o p)
  <1>1. <<i>> \in Seq(K) /\ Len(<<i>>) = 1 /\ <<i>>[1] = i
    OBVIOUS
  <1>2. Len(p) > 0
    BY EmptyPath
  <1>3. <<i>> \o p \in Seq(K) /\ Len(<<i>>) < Len(<<i>> \o p)
        /\ \A j \in 1..Len(<<i>>) : <<i>>[j] = (<<i>> \o p)[j]
    BY <1>1, <1>2, ConsPath
  <1> QED
    BY <1>1, <1>3, SamePrefix DEF Leads

\* The parent of a path.
LEMMA FrontPath ==
  ASSUME NEW K, NEW p \in Seq(K), Len(p) > 0
  PROVE  /\ Front(p) \in Seq(K) /\ Len(Front(p)) = Len(p) - 1
         /\ \A j \in 1..(Len(p) - 1) : Front(p)[j] = p[j]
  <1>1. Len(p) \in Nat /\ Len(p) - 1 \in Nat /\ Len(p) - 1 <= Len(p)
    OBVIOUS
  <1>2. ASSUME NEW n \in Nat, n <= Len(p)
        PROVE  /\ SubSeq(p, 1, n) \in Seq(K) /\ Len(SubSeq(p, 1, n)) = n
               /\ \A j \in 1..n : SubSeq(p, 1, n)[j] = p[j]
    BY <1>2
  <1> QED
    BY <1>1, <1>2 DEF Front

\* The parent of a path of key i, and that of a path of one key.
LEMMA FrontOfCons ==
  ASSUME NEW K, NEW i \in K, NEW p \in Seq(K)
  PROVE  /\ p # <<>> => Front(p) \in Seq(K) /\ Len(Front(p)) = Len(p) - 1
                        /\ Front(<<i>> \o p) = <<i>> \o Front(p)
         /\ Len(p) = 1 => Front(p) = <<>> /\ Front(<<i>> \o p) = <<i>>
         /\ Len(p) > 1 => Front(p) # <<>>
         /\ Front(<<i>>) = <<>>
  <1>1. Front(<<i>>) = <<>>
    BY DEF Front
  <1>2. ASSUME p # <<>>
        PROVE  Front(p) \in Seq(K) /\ Len(Front(p)) = Len(p) - 1 /\ Front(<<i>> \o p) = <<i>> \o Front(p)
    <2> DEFINE s == <<i>> \o p  f == Front(p)  g == Front(s)  u == <<i>> \o f
    <2>1. s \in Seq(K) /\ Len(s) = Len(p) + 1 /\ s[1] = i /\ \A j \in 1..Len(p) : s[j + 1] = p[j]
      BY ConsPath
    <2>2. Len(p) > 0
      BY <1>2, EmptyPath
    <2>3. f \in Seq(K) /\ Len(f) = Len(p) - 1 /\ \A j \in 1..(Len(p) - 1) : f[j] = p[j]
      BY <2>2, FrontPath
    <2> HIDE DEF s
    <2>4. g \in Seq(K) /\ Len(g) = Len(p) /\ \A j \in 1..Len(p) : g[j] = s[j]
      <3>1. Len(s) > 0 /\ Len(s) - 1 = Len(p)
        BY <2>1, <2>2
      <3> QED
        BY <2>1, <3>1, FrontPath
    <2> HIDE DEF f, g
    <2>5. u \in Seq(K) /\ Len(u) = Len(p) /\ u[1] = i /\ \A j \in 1..Len(f) : u[j + 1] = f[j]
      BY <2>2, <2>3, ConsPath
    <2> HIDE DEF u
    <2>6. \A j \in 1..Len(g) : g[j] = u[j]
      <3> SUFFICES ASSUME NEW j \in 1..Len(p) PROVE g[j] = u[j]
        BY <2>4
      <3>1. CASE j = 1
        BY <2>1, <2>4, <2>5, <3>1
      <3>2. CASE j > 1
        <4>1. j - 1 \in 1..Len(f) /\ j - 1 \in 1..Len(p) /\ j - 1 \in 1..(Len(p) - 1) /\ (j - 1) + 1 = j
          BY <2>3, <3>2
        <4>2. g[j] = s[j] /\ s[(j - 1) + 1] = p[j - 1]
          BY <2>1, <2>4, <4>1
        <4>3. u[(j - 1) + 1] = f[j - 1] /\ f[j - 1] = p[j - 1]
          BY <2>3, <2>5, <4>1
        <4> QED
          BY <4>1, <4>2, <4>3
      <3> QED
        BY <3>1, <3>2
    <2>7. g = u
      BY <2>4, <2>5, <2>6, PathsEqual
    <2> QED
      BY <2>3, <2>7 DEF f, g, s, u
  <1>3. ASSUME Len(p) = 1 PROVE Front(p) = <<>> /\ Front(<<i>> \o p) = <<i>>
    <2>1. Front(p) = <<>>
      BY <1>3 DEF Front
    <2>2. <<i>> \o <<>> = <<i>>
      OBVIOUS
    <2>3. Len(p) # 0
      BY <1>3
    <2>4. p # <<>>
      BY <2>3, EmptyPath
    <2> QED
      BY <1>2, <2>1, <2>2, <2>4
  <1>4. Len(p) > 1 => Front(p) # <<>>
    BY FrontPath, EmptyPath
  <1> QED
    BY <1>1, <1>2, <1>3, <1>4

\* Below: the paths that go on after key i.
LEMMA BelowPaths ==
  ASSUME NEW K, NEW i \in K, NEW d, IsDocumentOver(d, K)
  PROVE  /\ Below(d, i) = [p \in DOMAIN Below(d, i) |-> Below(d, i)[p]]
         /\ \A p : p \in DOMAIN Below(d, i) <=> p \in Seq(K) /\ p # <<>> /\ <<i>> \o p \in DOMAIN d
         /\ \A p \in DOMAIN Below(d, i) : Below(d, i)[p] = d[<<i>> \o p]
  <1> DEFINE under == {q \in DOMAIN d : Len(q) > 1 /\ Head(q) = i}
  <1>1. /\ Below(d, i) = [p \in DOMAIN Below(d, i) |-> Below(d, i)[p]]
        /\ DOMAIN Below(d, i) = {Tail(q) : q \in under}
        /\ \A p \in DOMAIN Below(d, i) : Below(d, i)[p] = d[<<i>> \o p]
    BY DEF Below
  <1>2. DOMAIN d \subseteq Seq(K)
    BY DEF IsDocumentOver
  <1>3. ASSUME NEW q \in under
        PROVE  Tail(q) \in Seq(K) /\ Tail(q) # <<>> /\ <<i>> \o Tail(q) \in DOMAIN d
    <2>1. q \in Seq(K) /\ Len(q) > 1 /\ Head(q) = i /\ q \in DOMAIN d
      BY <1>2
    <2>2. Tail(q) \in Seq(K) /\ Len(Tail(q)) = Len(q) - 1 /\ q = <<i>> \o Tail(q)
      BY <2>1, ConsOfTail
    <2>3. Tail(q) # <<>>
      BY <2>1, <2>2, EmptyPath
    <2> QED
      BY <2>1, <2>2, <2>3
  <1>4. ASSUME NEW p \in Seq(K), p # <<>>, <<i>> \o p \in DOMAIN d
        PROVE  p \in {Tail(q) : q \in under}
    <2>1. Len(<<i>> \o p) > 1 /\ Head(<<i>> \o p) = i /\ Len(p) > 0
      BY <1>4, ConsPath, EmptyPath
    <2>2. Tail(<<i>> \o p) = p
      BY TailOfCons
    <2> QED
      BY <1>4, <2>1, <2>2
  <1> HIDE DEF under
  <1> QED
    BY <1>1, <1>3, <1>4

\* What is above a path of a document is in it, and a map or a list.
LEMMA PrefixClosed ==
  ASSUME NEW K, NEW d, IsDocumentOver(d, K), NEW p \in DOMAIN d,
         NEW q \in Seq(K), Len(q) > 0, IsStrictPrefix(q, p)
  PROVE  q \in DOMAIN d /\ d[q] \in {"map", "list"}
  <1> DEFINE Cut(n) == SubSeq(p, 1, n)
             T == {n \in (Len(q) + 1)..Len(p) : Cut(n) \in DOMAIN d}
  <1>1. p \in Seq(K) /\ Len(p) \in Nat /\ Len(q) \in Nat
    BY DEF IsDocumentOver
  <1>2. Len(q) < Len(p) /\ \A j \in 1..Len(q) : q[j] = p[j]
    BY <1>1, SamePrefix DEF Leads
  <1>3. ASSUME NEW n \in 1..Len(p)
        PROVE  Cut(n) \in Seq(K) /\ Len(Cut(n)) = n /\ \A j \in 1..n : Cut(n)[j] = p[j]
    BY <1>1
  <1>4. Cut(Len(p)) = p
    BY <1>1
  <1> HIDE DEF Cut
  <1>5. Len(p) \in T
    BY <1>1, <1>2, <1>4
  <1>6. PICK n \in T : \A k \in T : n <= k
    <2>1. T \in SUBSET Nat
      BY <1>1
    <2> QED
      BY <1>5, <2>1, SmallestOf
  <1>7. n \in 1..Len(p) /\ n > Len(q) /\ n > 1 /\ n - 1 \in 1..Len(p) /\ Cut(n) \in DOMAIN d
    BY <1>1, <1>6
  <1>8. Front(Cut(n)) \in DOMAIN d /\ d[Front(Cut(n))] \in {"map", "list"}
    BY <1>3, <1>7 DEF IsDocumentOver, IsDocument
  <1>9. Front(Cut(n)) = Cut(n - 1)
    <2>1. Cut(n) \in Seq(K) /\ Len(Cut(n)) = n /\ \A j \in 1..n : Cut(n)[j] = p[j]
      BY <1>3, <1>7
    <2>2. Cut(n - 1) \in Seq(K) /\ Len(Cut(n - 1)) = n - 1 /\ \A j \in 1..(n - 1) : Cut(n - 1)[j] = p[j]
      BY <1>3, <1>7
    <2>3. Front(Cut(n)) \in Seq(K) /\ Len(Front(Cut(n))) = n - 1
          /\ \A j \in 1..(n - 1) : Front(Cut(n))[j] = Cut(n)[j]
      <3> DEFINE c == Cut(n)
      <3>1. c \in Seq(K) /\ Len(c) = n /\ Len(c) > 0
        BY <1>7, <2>1
      <3> HIDE DEF c
      <3>2. Front(c) \in Seq(K) /\ Len(Front(c)) = n - 1 /\ \A j \in 1..(n - 1) : Front(c)[j] = c[j]
        BY <3>1, FrontPath
      <3> QED
        BY <3>2 DEF c
    <2>4. \A j \in 1..(n - 1) : Front(Cut(n))[j] = Cut(n - 1)[j]
      BY <1>7, <2>1, <2>2, <2>3
    <2> QED
      BY <2>2, <2>3, <2>4, PathsEqual
  <1>10. n - 1 = Len(q)
    <2> SUFFICES ASSUME n - 1 # Len(q) PROVE FALSE
      OBVIOUS
    <2>1. n - 1 \in T
      BY <1>1, <1>7, <1>8, <1>9
    <2> QED
      BY <1>1, <1>6, <1>7, <2>1
  <1>11. Cut(n - 1) = q
    <2>1. Cut(n - 1) \in Seq(K) /\ Len(Cut(n - 1)) = Len(q) /\ \A j \in 1..Len(q) : Cut(n - 1)[j] = p[j]
      BY <1>3, <1>7, <1>10
    <2> QED
      BY <1>2, <2>1, PathsEqual
  <1> QED
    BY <1>8, <1>9, <1>11

\* A path of a document starts with a key of it.
LEMMA Rooted ==
  ASSUME NEW K, NEW i \in K, NEW d, IsDocumentOver(d, K), NEW p \in Seq(K), p # <<>>,
         <<i>> \o p \in DOMAIN d
  PROVE  <<i>> \in DOMAIN d /\ d[<<i>>] \in {"map", "list"}
  <1>1. <<i>> \in Seq(K) /\ Len(<<i>>) > 0
    OBVIOUS
  <1>2. IsStrictPrefix(<<i>>, <<i>> \o p)
    BY KeyAbove
  <1> QED
    BY <1>1, <1>2, PrefixClosed

\* What is above the parent of a path is above the path, as is the parent.
LEMMA AboveFront ==
  ASSUME NEW K, NEW p \in Seq(K), Len(p) > 1
  PROVE  /\ Front(p) \in Seq(K) /\ Len(Front(p)) > 0 /\ IsStrictPrefix(Front(p), p)
         /\ \A r \in Seq(K) : IsStrictPrefix(r, Front(p)) => IsStrictPrefix(r, p)
  <1> DEFINE f == Front(p)
  <1>1. f \in Seq(K) /\ Len(f) = Len(p) - 1 /\ \A j \in 1..(Len(p) - 1) : f[j] = p[j]
    BY FrontPath
  <1> HIDE DEF f
  <1>2. Leads(f, p) /\ Len(f) > 0
    BY <1>1 DEF Leads
  <1>3. \A r \in Seq(K) : Leads(r, f) => Leads(r, p)
    BY <1>1 DEF Leads
  <1>4. f \in Seq(K) /\ Len(f) > 0 /\ IsStrictPrefix(f, p)
        /\ \A r \in Seq(K) : IsStrictPrefix(r, f) => IsStrictPrefix(r, p)
    BY <1>1, <1>2, <1>3, SamePrefix
  <1> QED
    BY <1>4 DEF f

\* Functions that agree everywhere are one.
LEMMA SameFunction ==
  ASSUME NEW f, NEW g, f = [p \in DOMAIN f |-> f[p]], g = [p \in DOMAIN g |-> g[p]],
         DOMAIN f = DOMAIN g, \A p \in DOMAIN f : f[p] = g[p]
  PROVE  f = g
  OBVIOUS

\* A node of a stays: all that b has above it are maps in both.
Stays(a, b, p) == \A q \in DOMAIN b : IsStrictPrefix(q, p) => a[q] = "map" /\ b[q] = "map"

\* The paths of a merge.
LEMMA MergePaths ==
  ASSUME NEW a, NEW b
  PROVE  LET m == MergeMaps(a, b)
         IN  /\ m = [p \in DOMAIN m |-> m[p]]
             /\ \A p : p \in DOMAIN m <=> p \in DOMAIN b \/ (p \in DOMAIN a /\ Stays(a, b, p))
             /\ \A p \in DOMAIN m : m[p] = IF p \in DOMAIN b THEN b[p] ELSE a[p]
  BY DEF MergeMaps, Stays

\* A merge of documents is a document.
LEMMA MergeDocument ==
  ASSUME NEW K, NEW a, NEW b, IsDocumentOver(a, K), IsDocumentOver(b, K)
  PROVE  IsDocumentOver(MergeMaps(a, b), K)
  <1> DEFINE m == MergeMaps(a, b)
  <1>1. /\ m = [p \in DOMAIN m |-> m[p]]
        /\ \A p : p \in DOMAIN m <=> p \in DOMAIN b \/ (p \in DOMAIN a /\ Stays(a, b, p))
        /\ \A p \in DOMAIN m : m[p] = IF p \in DOMAIN b THEN b[p] ELSE a[p]
    BY MergePaths
  <1> HIDE DEF m
  <1>2. /\ DOMAIN a \subseteq Seq(K) /\ DOMAIN b \subseteq Seq(K)
        /\ \A p \in DOMAIN a : Len(p) > 0 /\ (Len(p) > 1 => Front(p) \in DOMAIN a /\ a[Front(p)] \in {"map", "list"})
        /\ \A p \in DOMAIN b : Len(p) > 0 /\ (Len(p) > 1 => Front(p) \in DOMAIN b /\ b[Front(p)] \in {"map", "list"})
    BY DEF IsDocumentOver, IsDocument
  <1>3. DOMAIN m \subseteq Seq(K) /\ \A p \in DOMAIN m : Len(p) > 0
    BY <1>1, <1>2
  <1>4. ASSUME NEW p \in DOMAIN m, Len(p) > 1
        PROVE  Front(p) \in DOMAIN m /\ m[Front(p)] \in {"map", "list"}
    <2>1. CASE p \in DOMAIN b
      BY <1>1, <1>2, <1>4, <2>1
    <2>2. CASE p \notin DOMAIN b
      <3>1. p \in Seq(K) /\ Stays(a, b, p) /\ Front(p) \in DOMAIN a /\ a[Front(p)] \in {"map", "list"}
        BY <1>1, <1>2, <1>4, <2>2
      <3>2. IsStrictPrefix(Front(p), p)
            /\ \A r \in Seq(K) : IsStrictPrefix(r, Front(p)) => IsStrictPrefix(r, p)
        BY <1>4, <3>1, AboveFront
      <3>3. CASE Front(p) \in DOMAIN b
        BY <1>1, <3>1, <3>2, <3>3 DEF Stays
      <3>4. CASE Front(p) \notin DOMAIN b
        <4>1. Stays(a, b, Front(p))
          BY <1>2, <3>1, <3>2 DEF Stays
        <4> QED
          BY <1>1, <3>1, <3>4, <4>1
      <3> QED
        BY <3>3, <3>4
    <2> QED
      BY <2>1, <2>2
  <1>5. IsDocumentOver(m, K)
    BY <1>1, <1>3, <1>4 DEF IsDocumentOver, IsDocument
  <1> QED
    BY <1>5 DEF m

\* Nothing is above a key.
LEMMA KeyStays ==
  ASSUME NEW K, NEW i \in K, NEW a, NEW b, IsDocumentOver(b, K)
  PROVE  Stays(a, b, <<i>>)
  <1> SUFFICES ASSUME NEW q \in DOMAIN b, IsStrictPrefix(q, <<i>>) PROVE FALSE
    BY DEF Stays
  <1>1. q \in Seq(K) /\ Len(q) > 0
    BY DEF IsDocumentOver, IsDocument
  <1>2. <<i>> \in Seq(K) /\ Len(<<i>>) = 1
    OBVIOUS
  <1>3. Leads(q, <<i>>)
    BY <1>1, <1>2, SamePrefix
  <1> QED
    BY <1>1, <1>2, <1>3 DEF Leads

\* A node under a key that is a map in both stays if it stays in what the two
\* have under the key.
LEMMA StaysBelow ==
  ASSUME NEW K, NEW i \in K, NEW a, NEW b, IsDocumentOver(a, K), IsDocumentOver(b, K),
         BothMaps(a, b, i), NEW p \in DOMAIN Below(a, i)
  PROVE  Stays(a, b, <<i>> \o p) <=> Stays(Below(a, i), Below(b, i), p)
  <1> DEFINE A == Below(a, i)  B == Below(b, i)  s == <<i>> \o p
  <1>1. /\ \A q : q \in DOMAIN A <=> q \in Seq(K) /\ q # <<>> /\ <<i>> \o q \in DOMAIN a
        /\ \A q \in DOMAIN A : A[q] = a[<<i>> \o q]
    BY BelowPaths
  <1>2. /\ \A q : q \in DOMAIN B <=> q \in Seq(K) /\ q # <<>> /\ <<i>> \o q \in DOMAIN b
        /\ \A q \in DOMAIN B : B[q] = b[<<i>> \o q]
    BY BelowPaths
  <1>3. p \in DOMAIN A
    OBVIOUS
  <1> HIDE DEF A, B
  <1>4. p \in Seq(K) /\ p # <<>> /\ s \in DOMAIN a
    BY <1>1, <1>3
  <1>5. \A r \in DOMAIN b : r \in Seq(K) /\ Len(r) > 0
    BY DEF IsDocumentOver, IsDocument
  <1>6. ASSUME NEW q \in Seq(K), q # <<>>, IsStrictPrefix(q, p)
        PROVE  IsStrictPrefix(<<i>> \o q, s) /\ <<i>> \o q \in DOMAIN a
    <2>1. IsStrictPrefix(<<i>> \o q, s)
      BY <1>4, <1>6, ConsPrefix
    <2>2. <<i>> \o q \in Seq(K) /\ Len(<<i>> \o q) > 0
      BY ConsPath
    <2> QED
      BY <1>4, <2>1, <2>2, PrefixClosed
  <1>7. ASSUME Stays(a, b, s) PROVE Stays(A, B, p)
    <2> SUFFICES ASSUME NEW q \in DOMAIN B, IsStrictPrefix(q, p) PROVE A[q] = "map" /\ B[q] = "map"
      BY DEF Stays
    <2>1. q \in Seq(K) /\ q # <<>> /\ <<i>> \o q \in DOMAIN b /\ B[q] = b[<<i>> \o q]
      BY <1>2
    <2>2. IsStrictPrefix(<<i>> \o q, s) /\ <<i>> \o q \in DOMAIN a
      BY <1>6, <2>1
    <2>3. A[q] = a[<<i>> \o q]
      BY <1>1, <2>1, <2>2
    <2> QED
      BY <1>7, <2>1, <2>2, <2>3 DEF Stays
  <1>8. ASSUME Stays(A, B, p) PROVE Stays(a, b, s)
    <2> SUFFICES ASSUME NEW r \in DOMAIN b, IsStrictPrefix(r, s) PROVE a[r] = "map" /\ b[r] = "map"
      BY DEF Stays
    <2>1. r = <<i>> \/ \E q \in Seq(K) : q # <<>> /\ r = <<i>> \o q /\ IsStrictPrefix(q, p)
      BY <1>4, <1>5, AboveCons
    <2>2. CASE r = <<i>>
      BY <2>2 DEF BothMaps
    <2>3. ASSUME NEW q \in Seq(K), q # <<>>, r = <<i>> \o q, IsStrictPrefix(q, p)
          PROVE  a[r] = "map" /\ b[r] = "map"
      <3>1. q \in DOMAIN B /\ B[q] = b[r]
        BY <1>2, <2>3
      <3>2. q \in DOMAIN A /\ A[q] = a[r]
        BY <1>1, <1>6, <2>3
      <3> QED
        BY <1>8, <2>3, <3>1, <3>2 DEF Stays
    <2> QED
      BY <2>1, <2>2, <2>3
  <1> QED
    BY <1>7, <1>8 DEF A, B

\* MergeMaps obeys the recursion of the code, and leaves a document.
LEMMA MergeUnfolds ==
  ASSUME NEW K, NEW i \in K, NEW a, NEW b, IsDocumentOver(a, K), IsDocumentOver(b, K)
  PROVE  /\ IsDocumentOver(MergeMaps(a, b), K)
         /\ MergeTurn(MergeMaps(a, b), MergeMaps(Below(a, i), Below(b, i)), a, b, i)
  <1> DEFINE m == MergeMaps(a, b)
             A == Below(a, i)  B == Below(b, i)  M == Below(m, i)
  <1>1. /\ \A p : p \in DOMAIN m <=> p \in DOMAIN b \/ (p \in DOMAIN a /\ Stays(a, b, p))
        /\ \A p \in DOMAIN m : m[p] = IF p \in DOMAIN b THEN b[p] ELSE a[p]
    BY MergePaths
  <1>2. IsDocumentOver(m, K)
    BY MergeDocument
  <1> HIDE DEF m
  <1>3. /\ A = [p \in DOMAIN A |-> A[p]]
        /\ \A p : p \in DOMAIN A <=> p \in Seq(K) /\ p # <<>> /\ <<i>> \o p \in DOMAIN a
        /\ \A p \in DOMAIN A : A[p] = a[<<i>> \o p]
    BY BelowPaths
  <1>4. /\ B = [p \in DOMAIN B |-> B[p]]
        /\ \A p : p \in DOMAIN B <=> p \in Seq(K) /\ p # <<>> /\ <<i>> \o p \in DOMAIN b
        /\ \A p \in DOMAIN B : B[p] = b[<<i>> \o p]
    BY BelowPaths
  <1>5. /\ M = [p \in DOMAIN M |-> M[p]]
        /\ \A p : p \in DOMAIN M <=> p \in Seq(K) /\ p # <<>> /\ <<i>> \o p \in DOMAIN m
        /\ \A p \in DOMAIN M : M[p] = m[<<i>> \o p]
    BY <1>2, BelowPaths
  <1>6. Stays(a, b, <<i>>)
    BY KeyStays
  <1>7. BothMaps(a, b, i) => \A p \in DOMAIN A : Stays(a, b, <<i>> \o p) <=> Stays(A, B, p)
    BY StaysBelow
  <1> HIDE DEF A, B, M
  <1>8. ASSUME <<i>> \notin DOMAIN b PROVE SameUnder(m, a, i)
    <2>1. \A p \in Seq(K) : p # <<>> => <<i>> \o p \notin DOMAIN b
      BY <1>8, Rooted
    <2>2. ASSUME NEW p \in Seq(K), p # <<>> PROVE Stays(a, b, <<i>> \o p)
      <3> SUFFICES ASSUME NEW r \in DOMAIN b, IsStrictPrefix(r, <<i>> \o p) PROVE FALSE
        BY DEF Stays
      <3>1. r \in Seq(K) /\ Len(r) > 0
        BY DEF IsDocumentOver, IsDocument
      <3>2. r = <<i>> \/ \E q \in Seq(K) : q # <<>> /\ r = <<i>> \o q /\ IsStrictPrefix(q, p)
        BY <2>2, <3>1, AboveCons
      <3> QED
        BY <1>8, <2>1, <3>2
    <2>3. DOMAIN M = DOMAIN A /\ \A p \in DOMAIN M : M[p] = A[p]
      BY <1>1, <1>3, <1>5, <2>1, <2>2
    <2>4. M = A
      BY <1>3, <1>5, <2>3, SameFunction
    <2> QED
      BY <1>1, <1>6, <1>8, <2>4 DEF SameUnder, M, A
  <1>9. ASSUME BothMaps(a, b, i)
        PROVE  <<i>> \in DOMAIN m /\ m[<<i>>] = "map" /\ M = MergeMaps(A, B)
    <2> DEFINE N == MergeMaps(A, B)
    <2>1. /\ N = [p \in DOMAIN N |-> N[p]]
          /\ \A p : p \in DOMAIN N <=> p \in DOMAIN B \/ (p \in DOMAIN A /\ Stays(A, B, p))
          /\ \A p \in DOMAIN N : N[p] = IF p \in DOMAIN B THEN B[p] ELSE A[p]
      BY MergePaths
    <2> HIDE DEF N
    <2>2. \A p : p \in DOMAIN M <=> p \in DOMAIN B \/ (p \in DOMAIN A /\ Stays(a, b, <<i>> \o p))
      BY <1>1, <1>3, <1>4, <1>5
    <2>3. DOMAIN M = DOMAIN N
      BY <1>7, <1>9, <2>1, <2>2
    <2>4. \A p \in DOMAIN M : M[p] = IF p \in DOMAIN B THEN B[p] ELSE A[p]
      BY <1>1, <1>3, <1>4, <1>5, <2>2
    <2>5. M = N
      BY <1>5, <2>1, <2>3, <2>4, SameFunction
    <2> QED
      BY <1>1, <1>9, <2>5 DEF N, BothMaps
  <1>10. ASSUME <<i>> \in DOMAIN b, ~BothMaps(a, b, i) PROVE SameUnder(m, b, i)
    <2>1. ASSUME NEW p \in Seq(K), p # <<>>, <<i>> \o p \in DOMAIN a PROVE ~Stays(a, b, <<i>> \o p)
      <3>1. <<i>> \in DOMAIN a /\ IsStrictPrefix(<<i>>, <<i>> \o p)
        BY <2>1, Rooted, KeyAbove
      <3> QED
        BY <1>10, <3>1 DEF Stays, BothMaps
    <2>2. DOMAIN M = DOMAIN B /\ \A p \in DOMAIN M : M[p] = B[p]
      BY <1>1, <1>4, <1>5, <2>1
    <2>3. M = B
      BY <1>4, <1>5, <2>2, SameFunction
    <2> QED
      BY <1>1, <1>10, <2>3 DEF SameUnder, M, B
  <1> QED
    BY <1>2, <1>8, <1>9, <1>10 DEF m, A, B, M, MergeTurn

\* pruneNulls of what d has under key i, a map or a list.
PrunedBelow(d, i) ==
    IF d[<<i>>] = "list" THEN PruneElements(Below(d, i)) ELSE PruneNulls(Below(d, i))

\* A node is an element of a list in d if it is one in what is under its key,
\* or its key is the list.
LEMMA InListBelow ==
  ASSUME NEW K, NEW i \in K, NEW d, IsDocumentOver(d, K), NEW p \in DOMAIN Below(d, i)
  PROVE  /\ Len(p) = 1 => (InList(d, <<i>> \o p) <=> d[<<i>>] = "list") /\ ~InList(Below(d, i), p)
         /\ Len(p) # 1 => (InList(d, <<i>> \o p) <=> InList(Below(d, i), p))
  <1> DEFINE D == Below(d, i)
  <1>1. /\ \A q : q \in DOMAIN D <=> q \in Seq(K) /\ q # <<>> /\ <<i>> \o q \in DOMAIN d
        /\ \A q \in DOMAIN D : D[q] = d[<<i>> \o q]
    BY BelowPaths
  <1>2. p \in DOMAIN D
    OBVIOUS
  <1> HIDE DEF D
  <1>3. p \in Seq(K) /\ p # <<>> /\ <<i>> \o p \in DOMAIN d
    BY <1>1, <1>2
  <1>4. Len(p) \in Nat /\ Len(p) > 0
    BY <1>3, EmptyPath
  <1>5. /\ Front(p) \in Seq(K) /\ Front(<<i>> \o p) = <<i>> \o Front(p)
        /\ Len(p) = 1 => Front(p) = <<>> /\ Front(<<i>> \o p) = <<i>>
        /\ Len(p) > 1 => Front(p) # <<>>
    BY <1>3, FrontOfCons
  <1>6. <<i>> \in DOMAIN d
    BY <1>3, Rooted
  <1>7. CASE Len(p) = 1
    BY <1>1, <1>5, <1>6, <1>7 DEF InList, D
  <1>8. CASE Len(p) # 1
    <2>1. Front(p) # <<>>
      BY <1>4, <1>5, <1>8
    <2>2. Front(p) \in DOMAIN D <=> Front(<<i>> \o p) \in DOMAIN d
      BY <1>1, <1>5, <2>1
    <2>3. Front(p) \in DOMAIN D => D[Front(p)] = d[Front(<<i>> \o p)]
      BY <1>1, <1>5
    <2> QED
      BY <1>8, <2>2, <2>3 DEF InList, D
  <1> QED
    BY <1>7, <1>8

\* A document without some of its nulls is a document.
LEMMA PruneDocument ==
  ASSUME NEW K, NEW d, IsDocumentOver(d, K), NEW S \in SUBSET DOMAIN d,
         \A p \in DOMAIN d : d[p] # "null" => p \in S
  PROVE  IsDocumentOver([p \in S |-> d[p]], K)
  <1>1. \A p \in S : Len(p) > 0 /\ (Len(p) > 1 => Front(p) \in S /\ d[Front(p)] \in {"map", "list"})
    BY DEF IsDocumentOver, IsDocument
  <1>2. S \subseteq Seq(K)
    BY DEF IsDocumentOver
  <1> QED
    BY <1>1, <1>2 DEF IsDocumentOver, IsDocument

\* pruneNulls obeys the recursion of the code, and leaves a document.
LEMMA PruneUnfolds ==
  ASSUME NEW K, NEW i \in K, NEW d, IsDocumentOver(d, K)
  PROVE  /\ IsDocumentOver(PruneNulls(d), K) /\ IsDocumentOver(PruneElements(d), K)
         /\ PruneTurn(PruneNulls(d), PrunedBelow(d, i), TRUE, d, i)
         /\ PruneTurn(PruneElements(d), PrunedBelow(d, i), FALSE, d, i)
  <1> DEFINE D == Below(d, i)
  <1>1. /\ D = [p \in DOMAIN D |-> D[p]]
        /\ \A p : p \in DOMAIN D <=> p \in Seq(K) /\ p # <<>> /\ <<i>> \o p \in DOMAIN d
        /\ \A p \in DOMAIN D : D[p] = d[<<i>> \o p]
    BY BelowPaths
  <1>2. ASSUME NEW S \in SUBSET DOMAIN d, \A p \in DOMAIN d : d[p] # "null" => p \in S,
               \A p \in DOMAIN D : <<i>> \o p \in S <=> D[p] # "null" \/ InList(d, <<i>> \o p)
        PROVE  LET e == [p \in S |-> d[p]]
               IN  IsDocumentOver(e, K) /\ Below(e, i) = PrunedBelow(d, i)
    <2> DEFINE e == [p \in S |-> d[p]]  E == Below(e, i)  F == PrunedBelow(d, i)
    <2>1. IsDocumentOver(e, K)
      BY <1>2, PruneDocument
    <2>2. DOMAIN e = S /\ \A p \in S : e[p] = d[p]
      OBVIOUS
    <2> HIDE DEF e
    <2>3. /\ E = [p \in DOMAIN E |-> E[p]]
          /\ \A p : p \in DOMAIN E <=> p \in Seq(K) /\ p # <<>> /\ <<i>> \o p \in S
          /\ \A p \in DOMAIN E : E[p] = e[<<i>> \o p]
      BY <2>1, <2>2, BelowPaths
    <2>4. \A p \in DOMAIN D :
             /\ Len(p) = 1 => (InList(d, <<i>> \o p) <=> d[<<i>>] = "list") /\ ~InList(D, p)
             /\ Len(p) # 1 => (InList(d, <<i>> \o p) <=> InList(D, p))
      BY InListBelow
    <2> HIDE DEF D, E
    <2>5. /\ F = [p \in DOMAIN F |-> F[p]]
          /\ DOMAIN F = {p \in DOMAIN D : D[p] # "null" \/ InList(D, p) \/ (d[<<i>>] = "list" /\ Len(p) = 1)}
          /\ \A p \in DOMAIN F : F[p] = D[p]
      <3>1. CASE d[<<i>>] = "list"
        BY <3>1 DEF PrunedBelow, PruneElements, D
      <3>2. CASE d[<<i>>] # "list"
        BY <3>2 DEF PrunedBelow, PruneNulls, D
      <3> QED
        BY <3>1, <3>2
    <2> HIDE DEF F
    <2>6. \A p : p \in DOMAIN E <=> p \in DOMAIN D /\ (D[p] # "null" \/ InList(d, <<i>> \o p))
      BY <1>1, <1>2, <2>3
    <2>7. DOMAIN E = DOMAIN F
      BY <2>4, <2>5, <2>6
    <2>8. \A p \in DOMAIN E : E[p] = F[p]
      BY <1>1, <2>2, <2>3, <2>5, <2>7
    <2>9. E = F
      BY <2>3, <2>5, <2>7, <2>8, SameFunction
    <2> QED
      BY <2>1, <2>9 DEF e, E, F
  <1>3. ~InList(d, <<i>>) /\ Len(<<i>>) = 1
    <2>1. Front(<<i>>) = <<>>
      BY DEF Front
    <2>2. <<>> \notin DOMAIN d
      BY DEF IsDocumentOver, IsDocument
    <2> QED
      BY <2>1, <2>2 DEF InList
  <1>4. \A p \in DOMAIN D : Len(<<i>> \o p) # 1
    <2> SUFFICES ASSUME NEW p \in DOMAIN D PROVE Len(<<i>> \o p) # 1
      OBVIOUS
    <2>1. p \in Seq(K) /\ p # <<>>
      BY <1>1
    <2> QED
      BY <2>1, ConsPath, EmptyPath
  <1> HIDE DEF D
  <1>5. LET e == PruneNulls(d)
        IN  /\ IsDocumentOver(e, K)
            /\ <<i>> \in DOMAIN e <=> <<i>> \in DOMAIN d /\ d[<<i>>] # "null"
            /\ <<i>> \in DOMAIN e => e[<<i>>] = d[<<i>>] /\ Below(e, i) = PrunedBelow(d, i)
    <2> DEFINE S == {p \in DOMAIN d : d[p] # "null" \/ InList(d, p)}
    <2>1. S \in SUBSET DOMAIN d /\ \A p \in DOMAIN d : d[p] # "null" => p \in S
      OBVIOUS
    <2>2. \A p \in DOMAIN D : <<i>> \o p \in S <=> D[p] # "null" \/ InList(d, <<i>> \o p)
      BY <1>1
    <2>3. <<i>> \in S <=> <<i>> \in DOMAIN d /\ d[<<i>>] # "null"
      BY <1>3
    <2>4. PruneNulls(d) = [p \in S |-> d[p]]
      BY DEF PruneNulls
    <2> HIDE DEF S
    <2> QED
      BY <1>2, <2>1, <2>2, <2>3, <2>4
  <1>6. LET e == PruneElements(d)
        IN  /\ IsDocumentOver(e, K)
            /\ <<i>> \in DOMAIN e <=> <<i>> \in DOMAIN d
            /\ <<i>> \in DOMAIN e => e[<<i>>] = d[<<i>>] /\ Below(e, i) = PrunedBelow(d, i)
    <2> DEFINE S == {p \in DOMAIN d : d[p] # "null" \/ Len(p) = 1 \/ InList(d, p)}
    <2>1. S \in SUBSET DOMAIN d /\ \A p \in DOMAIN d : d[p] # "null" => p \in S
      OBVIOUS
    <2>2. \A p \in DOMAIN D : <<i>> \o p \in S <=> D[p] # "null" \/ InList(d, <<i>> \o p)
      BY <1>1, <1>4
    <2>3. <<i>> \in S <=> <<i>> \in DOMAIN d
      BY <1>3
    <2>4. PruneElements(d) = [p \in S |-> d[p]]
      BY DEF PruneElements
    <2> HIDE DEF S
    <2> QED
      BY <1>2, <2>1, <2>2, <2>3, <2>4
  <1> QED
    BY <1>5, <1>6 DEF PruneTurn

\* x and y are not the same at p.
Differ(x, y, p) == ~((p \in DOMAIN x <=> p \in DOMAIN y) /\ (p \in DOMAIN x => x[p] = y[p]))

\* Documents that differ nowhere are one.
LEMMA SameDocument ==
  ASSUME NEW K, NEW x, NEW y, IsDocumentOver(x, K), IsDocumentOver(y, K),
         \A p \in Seq(K) : ~Differ(x, y, p)
  PROVE  x = y
  <1>1. /\ x = [p \in DOMAIN x |-> x[p]] /\ DOMAIN x \subseteq Seq(K)
        /\ y = [p \in DOMAIN y |-> y[p]] /\ DOMAIN y \subseteq Seq(K)
    BY DEF IsDocumentOver, IsDocument
  <1>2. DOMAIN x = DOMAIN y /\ \A p \in DOMAIN x : x[p] = y[p]
    BY <1>1 DEF Differ
  <1> QED
    BY <1>1, <1>2, SameFunction

\* Where documents differ: at a key, or in what they have under one.
LEMMA DifferBelow ==
  ASSUME NEW K, NEW x, NEW y, IsDocumentOver(x, K), IsDocumentOver(y, K),
         NEW p \in Seq(K), Differ(x, y, p)
  PROVE  \E i \in K : \/ Differ(x, y, <<i>>)
                      \/ \E q \in Seq(K) : Len(q) = Len(p) - 1 /\ Differ(Below(x, i), Below(y, i), q)
  <1>1. \A q \in DOMAIN x \cup DOMAIN y : Len(q) > 0
    BY DEF IsDocumentOver, IsDocument
  <1>2. Len(p) > 0
    BY <1>1 DEF Differ
  <1> DEFINE i == Head(p)  q == Tail(p)
  <1>3. i \in K /\ q \in Seq(K) /\ Len(q) = Len(p) - 1 /\ p = <<i>> \o q
    BY <1>2, ConsOfTail
  <1> HIDE DEF i, q
  <1>4. CASE q = <<>>
    <2>1. p = <<i>>
      BY <1>3, <1>4
    <2> QED
      BY <1>3, <2>1
  <1>5. CASE q # <<>>
    <2> DEFINE X == Below(x, i)  Y == Below(y, i)
    <2>1. (q \in DOMAIN X <=> p \in DOMAIN x) /\ (q \in DOMAIN X => X[q] = x[p])
      BY <1>3, <1>5, BelowPaths
    <2>2. (q \in DOMAIN Y <=> p \in DOMAIN y) /\ (q \in DOMAIN Y => Y[q] = y[p])
      BY <1>3, <1>5, BelowPaths
    <2> HIDE DEF X, Y
    <2>3. Differ(X, Y, q)
      BY <2>1, <2>2 DEF Differ
    <2> QED
      BY <1>3, <2>3 DEF X, Y
  <1> QED
    BY <1>4, <1>5

\* MergeMaps is what the recursion of the code computes: whatever obeys the
\* equations of its loop, key by key, is MergeMaps, for documents of any depth.
THEOREM MergeIsRecursion ==
  ASSUME NEW K, NEW Docs, ClosedBelow(Docs, K), NEW F,
         \A a, b \in Docs :
            /\ IsDocumentOver(F[a][b], K)
            /\ \A i \in K : MergeTurn(F[a][b], F[Below(a, i)][Below(b, i)], a, b, i)
  PROVE  \A a, b \in Docs : F[a][b] = MergeMaps(a, b)
  <1> DEFINE Wrong(a, b, n) == \E p \in Seq(K) : Len(p) = n /\ Differ(F[a][b], MergeMaps(a, b), p)
             T == {n \in Nat : \E a, b \in Docs : Wrong(a, b, n)}
  <1>1. ASSUME NEW a \in Docs, NEW b \in Docs
        PROVE  /\ IsDocumentOver(F[a][b], K) /\ IsDocumentOver(MergeMaps(a, b), K)
               /\ \A i \in K : /\ Below(a, i) \in Docs /\ Below(b, i) \in Docs
                               /\ MergeTurn(F[a][b], F[Below(a, i)][Below(b, i)], a, b, i)
                               /\ MergeTurn(MergeMaps(a, b), MergeMaps(Below(a, i), Below(b, i)), a, b, i)
    BY MergeUnfolds, MergeDocument DEF ClosedBelow
  <1>2. T = {}
    <2> SUFFICES ASSUME T # {} PROVE FALSE
      OBVIOUS
    <2>1. PICK n \in T : \A k \in T : n <= k
      BY SmallestOf
    <2>2. PICK a \in Docs, b \in Docs : Wrong(a, b, n)
      BY <2>1
    <2> DEFINE x == F[a][b]  y == MergeMaps(a, b)
    <2>3. PICK p \in Seq(K) : Len(p) = n /\ Differ(x, y, p)
      BY <2>2
    <2>4. IsDocumentOver(x, K) /\ IsDocumentOver(y, K)
      BY <1>1
    <2> HIDE DEF x, y
    <2>5. PICK i \in K : \/ Differ(x, y, <<i>>)
                         \/ \E q \in Seq(K) : Len(q) = n - 1 /\ Differ(Below(x, i), Below(y, i), q)
      BY <2>3, <2>4, DifferBelow
    <2> DEFINE A == Below(a, i)  B == Below(b, i)
    <2>6. MergeTurn(x, F[A][B], a, b, i) /\ MergeTurn(y, MergeMaps(A, B), a, b, i)
      BY <1>1 DEF x, y
    <2>7. ~Differ(x, y, <<i>>)
      BY <2>6 DEF MergeTurn, SameUnder, Differ, BothMaps
    <2>8. PICK q \in Seq(K) : Len(q) = n - 1 /\ Differ(Below(x, i), Below(y, i), q)
      BY <2>5, <2>7
    <2>9. CASE BothMaps(a, b, i)
      <3>1. Below(x, i) = F[A][B] /\ Below(y, i) = MergeMaps(A, B)
        BY <2>6, <2>9 DEF MergeTurn
      <3>2. A \in Docs /\ B \in Docs
        BY <1>1
      <3> HIDE DEF A, B
      <3>3. Wrong(A, B, n - 1)
        BY <2>8, <3>1
      <3>4. n - 1 \in Nat
        BY <2>8
      <3> HIDE DEF Wrong
      <3>5. n - 1 \in T
        BY <3>2, <3>3, <3>4
      <3> QED
        BY <2>1, <3>4, <3>5
    <2>10. CASE ~BothMaps(a, b, i)
      <3>1. Below(x, i) = Below(y, i)
        BY <2>6, <2>10 DEF MergeTurn, SameUnder
      <3> QED
        BY <2>8, <3>1 DEF Differ
    <2> QED
      BY <2>9, <2>10
  <1>3. ASSUME NEW a \in Docs, NEW b \in Docs, NEW p \in Seq(K) PROVE ~Differ(F[a][b], MergeMaps(a, b), p)
    <2>1. Len(p) \in Nat
      OBVIOUS
    <2> QED
      BY <1>2, <2>1
  <1> HIDE DEF T, Wrong
  <1> QED
    BY <1>1, <1>3, SameDocument

\* PruneNulls is what the recursion of the code computes: if P, for maps, and E,
\* for lists, obey the equations of its two loops, P is PruneNulls, for
\* documents of any depth.
THEOREM PruneIsRecursion ==
  ASSUME NEW K, NEW Docs, ClosedBelow(Docs, K), NEW P, NEW E,
         \A d \in Docs :
            /\ IsDocumentOver(P[d], K) /\ IsDocumentOver(E[d], K)
            /\ \A i \in K :
                  LET sub == IF d[<<i>>] = "list" THEN E[Below(d, i)] ELSE P[Below(d, i)]
                  IN  PruneTurn(P[d], sub, TRUE, d, i) /\ PruneTurn(E[d], sub, FALSE, d, i)
  PROVE  \A d \in Docs : P[d] = PruneNulls(d) /\ E[d] = PruneElements(d)
  <1> DEFINE Wrong(d, n) == \E p \in Seq(K) : /\ Len(p) = n
                                              /\ \/ Differ(P[d], PruneNulls(d), p)
                                                 \/ Differ(E[d], PruneElements(d), p)
             Sub(d, i) == IF d[<<i>>] = "list" THEN E[Below(d, i)] ELSE P[Below(d, i)]
             T == {n \in Nat : \E d \in Docs : Wrong(d, n)}
  <1>1. ASSUME NEW d \in Docs
        PROVE  /\ IsDocumentOver(P[d], K) /\ IsDocumentOver(E[d], K) /\ IsDocumentOver(d, K)
               /\ \A i \in K : /\ Below(d, i) \in Docs
                               /\ PruneTurn(P[d], Sub(d, i), TRUE, d, i)
                               /\ PruneTurn(E[d], Sub(d, i), FALSE, d, i)
    BY DEF ClosedBelow
  <1>2. ASSUME NEW d \in Docs
        PROVE  /\ IsDocumentOver(PruneNulls(d), K) /\ IsDocumentOver(PruneElements(d), K)
               /\ \A i \in K : /\ PruneTurn(PruneNulls(d), PrunedBelow(d, i), TRUE, d, i)
                               /\ PruneTurn(PruneElements(d), PrunedBelow(d, i), FALSE, d, i)
    <2>1. IsDocumentOver(d, K)
      BY <1>1
    <2>2. IsDocumentOver(PruneNulls(d), K) /\ IsDocumentOver(PruneElements(d), K)
      BY <2>1, PruneDocument DEF PruneNulls, PruneElements
    <2> QED
      BY <2>1, <2>2, PruneUnfolds
  <1>3. ASSUME NEW n \in Nat, NEW d \in Docs, NEW x, NEW y, NEW drops \in BOOLEAN,
               IsDocumentOver(x, K), IsDocumentOver(y, K),
               \A i \in K : /\ PruneTurn(x, Sub(d, i), drops, d, i)
                            /\ PruneTurn(y, PrunedBelow(d, i), drops, d, i),
               NEW p \in Seq(K), Len(p) = n, Differ(x, y, p)
        PROVE  n - 1 \in T
    <2>1. PICK i \in K : \/ Differ(x, y, <<i>>)
                         \/ \E q \in Seq(K) : Len(q) = n - 1 /\ Differ(Below(x, i), Below(y, i), q)
      BY <1>3, DifferBelow
    <2>2. PruneTurn(x, Sub(d, i), drops, d, i) /\ PruneTurn(y, PrunedBelow(d, i), drops, d, i)
      BY <1>3
    <2> HIDE DEF Sub
    <2>3. ~Differ(x, y, <<i>>)
      BY <2>2 DEF PruneTurn, Differ
    <2>4. PICK q \in Seq(K) : Len(q) = n - 1 /\ Differ(Below(x, i), Below(y, i), q)
      BY <2>1, <2>3
    <2>5. <<i>> \in DOMAIN x
      <3> SUFFICES ASSUME <<i>> \notin DOMAIN x PROVE FALSE
        OBVIOUS
      <3>1. <<i>> \notin DOMAIN y
        BY <2>2 DEF PruneTurn
      <3>2. q \notin DOMAIN Below(x, i) /\ q \notin DOMAIN Below(y, i)
        BY <1>3, <3>1, BelowPaths, Rooted
      <3> QED
        BY <2>4, <3>2 DEF Differ
    <2>6. Below(x, i) = Sub(d, i) /\ Below(y, i) = PrunedBelow(d, i)
      BY <2>2, <2>5 DEF PruneTurn
    <2> DEFINE D == Below(d, i)
    <2>7. D \in Docs
      BY <1>1
    <2>8. \/ Differ(P[D], PruneNulls(D), q)
          \/ Differ(E[D], PruneElements(D), q)
      BY <2>4, <2>6 DEF Sub, PrunedBelow
    <2> HIDE DEF D
    <2>9. n - 1 \in Nat
      BY <2>4
    <2>10. Wrong(D, n - 1)
      BY <2>4, <2>8
    <2> HIDE DEF Wrong
    <2> QED
      BY <2>7, <2>9, <2>10
  <1>4. T = {}
    <2> SUFFICES ASSUME T # {} PROVE FALSE
      OBVIOUS
    <2>1. PICK n \in T : \A k \in T : n <= k
      BY SmallestOf
    <2>2. PICK d \in Docs : Wrong(d, n)
      BY <2>1
    <2>3. PICK p \in Seq(K) : /\ Len(p) = n
                              /\ \/ Differ(P[d], PruneNulls(d), p)
                                 \/ Differ(E[d], PruneElements(d), p)
      BY <2>2
    <2> HIDE DEF T, Sub, Wrong
    <2>4. n \in Nat
      BY <2>3
    <2>5. CASE Differ(P[d], PruneNulls(d), p)
      <3> DEFINE x == P[d]  y == PruneNulls(d)
      <3>1. /\ IsDocumentOver(x, K) /\ IsDocumentOver(y, K)
            /\ \A i \in K : PruneTurn(x, Sub(d, i), TRUE, d, i) /\ PruneTurn(y, PrunedBelow(d, i), TRUE, d, i)
        BY <1>1, <1>2
      <3>2. Differ(x, y, p)
        BY <2>5
      <3> HIDE DEF x, y
      <3>3. n - 1 \in T
        BY <1>3, <2>3, <2>4, <3>1, <3>2
      <3> QED
        BY <2>1, <2>4, <3>3
    <2>6. CASE Differ(E[d], PruneElements(d), p)
      <3> DEFINE x == E[d]  y == PruneElements(d)
      <3>1. /\ IsDocumentOver(x, K) /\ IsDocumentOver(y, K)
            /\ \A i \in K : PruneTurn(x, Sub(d, i), FALSE, d, i) /\ PruneTurn(y, PrunedBelow(d, i), FALSE, d, i)
        BY <1>1, <1>2
      <3>2. Differ(x, y, p)
        BY <2>6
      <3> HIDE DEF x, y
      <3>3. n - 1 \in T
        BY <1>3, <2>3, <2>4, <3>1, <3>2
      <3> QED
        BY <2>1, <2>4, <3>3
    <2> QED
      BY <2>3, <2>5, <2>6
  <1>5. ASSUME NEW d \in Docs, NEW p \in Seq(K)
        PROVE  ~Differ(P[d], PruneNulls(d), p) /\ ~Differ(E[d], PruneElements(d), p)
    <2>1. Len(p) \in Nat
      OBVIOUS
    <2> QED
      BY <1>4, <2>1
  <1> HIDE DEF T, Wrong, Sub
  <1> QED
    BY <1>1, <1>2, <1>5, SameDocument
================================================================================

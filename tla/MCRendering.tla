----------------------------- MODULE MCRendering -------------------------------
(***************************************************************************)
(* Small documents for Rendering: maps in maps, a leaf where another       *)
(* source has a map, nulls at both depths, in a list and below one.        *)
(***************************************************************************)
EXTENDS Rendering

k  == <<"k">>
kx == <<"k", "x">>
ky == <<"k", "y">>
m  == <<"m">>

MCChart   == {k :> "map" @@ kx :> "1" @@ ky :> "null", k :> "1" @@ m :> "1"}
MCFeature == {k :> "map" @@ ky :> "2", m :> "null"}
MCProfile == {k :> "map" @@ kx :> "null",
              m :> "list" @@ <<"m", "1">> :> "null" @@ <<"m", "2">> :> "map"
                @@ <<"m", "2", "x">> :> "null" @@ <<"m", "2", "y">> :> "3"}
MCBinding == {k :> "map" @@ kx :> "4" @@ ky :> "null"}

(***************************************************************************)
(* Reference definitions: documents as trees, and MergeMaps and pruneNulls *)
(* with the recursion of the code.                                         *)
(***************************************************************************)
Leaf(x) == [leaf |-> x]
List(f) == [list |-> f]
Map(f)  == [map |-> f]
IsMap(t)  == "map" \in DOMAIN t
IsList(t) == "list" \in DOMAIN t

RECURSIVE Children(_, _)
Children(d, q) ==
    LET tree(p) == CASE d[p] = "map"  -> Map(Children(d, p))
                     [] d[p] = "list" -> List(Children(d, p))
                     [] OTHER         -> Leaf(d[p])
    IN  [i \in {Last(p) : p \in {p \in DOMAIN d : Front(p) = q}} |-> tree(Append(q, i))]

Tree(d) == Children(d, <<>>)

RECURSIVE MergeTrees(_, _)
MergeTrees(a, b) ==
    [i \in DOMAIN a \cup DOMAIN b |->
        IF i \notin DOMAIN b THEN a[i]
        ELSE IF i \in DOMAIN a /\ IsMap(a[i]) /\ IsMap(b[i])
               THEN Map(MergeTrees(a[i].map, b[i].map))
               ELSE b[i]]

RECURSIVE PruneTree(_)
PruneTree(t) ==
    CASE IsMap(t)  -> Map([i \in {i \in DOMAIN t.map : t.map[i] # Leaf("null")} |->
                              PruneTree(t.map[i])])
      [] IsList(t) -> List([i \in DOMAIN t.list |-> PruneTree(t.list[i])])
      [] OTHER     -> t

\* MergeMaps and pruneNulls, defined by paths, do to the tree of a document
\* what the recursive functions do, one merge over another included.
AsTheCode ==
    \A a \in src.chart \cup src.feature, b \in src.feature \cup src.profile,
       c \in src.profile \cup src.binding :
        LET ab == MergeMaps(a, b)
        IN  /\ Tree(ab) = MergeTrees(Tree(a), Tree(b))
            /\ Tree(MergeMaps(ab, c)) = MergeTrees(Tree(ab), Tree(c))
            /\ \A d \in {a, b, c, ab} : Map(Tree(PruneNulls(d))) = PruneTree(Map(Tree(d)))
================================================================================

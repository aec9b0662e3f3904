------------------------------- MODULE MCUpgrade -------------------------------
(***************************************************************************)
(* Instances of Upgrade for TLC.  opscenter-core holds opscenter-features  *)
(* and kube-ui-server; a second feature set holds kubedb.                  *)
(***************************************************************************)
EXTENDS UpgradeRefinement

\* opscenter-features alone.
OneRelease == {"opscenter-features"}
OneWorkOf == [h \in OneRelease |-> "opscenter-core"]

\* Two releases of opscenter-core.
CoreReleases == {"opscenter-features", "kube-ui-server"}
CoreWorks == {"opscenter-core"}
CoreWorkOf == [h \in CoreReleases |-> "opscenter-core"]

\* A release in each of two feature sets.
TwoReleases == {"opscenter-features", "kubedb"}
TwoWorks == {"opscenter-core", "opscenter-datastore"}
TwoWorkOf == [h \in TwoReleases |->
                 IF h = "opscenter-features" THEN "opscenter-core" ELSE "opscenter-datastore"]

\* Every chart moves with the catalogue; an empty version resolves to the last.
Last(vs) == CHOOSE v \in vs : \A w \in vs : w <= v
Moving(hs) ==
    [h \in hs |-> [v \in Version \cup {0} |->
        IF h = "opscenter-features" THEN v ELSE IF v = 0 THEN Last(Version) ELSE v]]

CoreMoving == Moving(CoreReleases)
OneMoving  == Moving(OneRelease)
\* Catalogue 2 dropped the features.
TwoDropping == [h \in TwoReleases |-> [v \in Version \cup {0} |->
                   IF h # "opscenter-features" /\ v = 2 THEN 0 ELSE Moving(TwoReleases)[h][v]]]
================================================================================

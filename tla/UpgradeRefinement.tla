--------------------------- MODULE UpgradeRefinement ---------------------------
(***************************************************************************)
(* Upgrade implements UpgradeJob: the job is the one upgrader ConfigMap    *)
(* that exists.                                                            *)
(***************************************************************************)
EXTENDS Upgrade

\* The job an upgrader ConfigMap describes.
JobOf(m) ==
    [phase   |-> IF m.status = "completed" THEN "closed"
                 ELSE IF m.recorded THEN "waiting" ELSE "announced",
     version |-> {m.version},
     stamp   |-> IF m.recorded \/ m.status = "completed" THEN {m.stamp} ELSE {},
     ready   |-> {h \in HelmRelease : m.data[h]}]

There(maps) == {n \in ConfigMapName : Present(maps[n])}

JobIn(maps) ==
    IF There(maps) = {}
      THEN [phase |-> "none", version |-> {}, stamp |-> {}, ready |-> {}]
      ELSE JobOf(maps[CHOOSE n \in There(maps) : TRUE])

Job == JobIn(cms)

Abstract == INSTANCE UpgradeJob
            WITH job <- Job, Version <- Version \cup {0}, Stamp <- Stamp \cup {0}

\* Whatever calls fail and whenever the process restarts, the UI sees one job
\* after another, each announced by createConfigMapInSpokeClusterNamespace,
\* launched by recordPendingUpgrade, marked by evaluateTargets and closed by
\* finishUpgrade, in this order; none is reopened and no mark is taken back.
ImplementsJob == Abstract!Spec
================================================================================

------------------------------ MODULE MCInstaller ------------------------------
(***************************************************************************)
(* Instances of Installer for TLC.                                         *)
(***************************************************************************)
EXTENDS Installer

Sorted == <<"akp-crd-manager", "cert-manager", "grafana", "kube-ui-server", "kubedb",
            "license-proxyserver", "opscenter-features", "prometheus", "stash", "vault", "victoria">>

Features == {Sorted[i] : i \in DOMAIN Sorted}

Ranks == [f \in Features |-> CHOOSE i \in DOMAIN Sorted : Sorted[i] = f]

CoreList == {"kube-ui-server", "opscenter-features"}

Sets == [f \in Features |->
            CASE f = "cert-manager" -> "opscenter-security"
              [] f = "kubedb"       -> "opscenter-datastore"
              [] f \in {"stash", "vault"} -> "opscenter-datastore"
              [] f \in {"grafana", "prometheus", "victoria"} -> "opscenter-monitoring"
              [] OTHER              -> "opscenter-core"]

SetNames == {Sets[f] : f \in Features}

\* kubedb requires cert-manager, which requires akp-crd-manager of opscenter-core.
\* grafana requires a feature of an exclusion group, stash one nobody has.
Requirements ==
    [f \in Features |-> CASE f = "kubedb"       -> {"cert-manager"}
                          [] f = "cert-manager" -> {"akp-crd-manager", "license-proxyserver"}
                          [] f = "grafana"      -> {"victoria"}
                          [] f = "stash"        -> {"vault"}
                          [] OTHER              -> {}]

Groups == [f \in Features |-> IF f \in {"prometheus", "victoria"} THEN "tsdb" ELSE "none"]

\* No catalogue has vault.
Known == Features \ {"vault"}

WithCore(fs) == CoreList \cup fs

AllLists == {WithCore({"kubedb", "license-proxyserver"}), WithCore({"grafana", "prometheus"}),
             WithCore({"grafana"}), WithCore({"prometheus"}), WithCore({"stash"})}

MonitoringLists == {WithCore({"grafana", "prometheus"}), WithCore({"grafana"}),
                    WithCore({"prometheus"})}
================================================================================

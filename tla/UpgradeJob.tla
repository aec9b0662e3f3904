------------------------------ MODULE UpgradeJob -------------------------------
(***************************************************************************)
(* What the upgrader promises to the UI, which reads the upgrader          *)
(* ConfigMap of a cluster: at most one upgrade job at a time, for one      *)
(* version and one force-upgrade time; releases become ready one after     *)
(* another and stay so while the job waits; a job that is closed does not  *)
(* change any more until it is replaced.  Nothing is said of caches,       *)
(* reconciles and retries.                                                 *)
(***************************************************************************)
CONSTANTS HelmRelease, Version, Stamp

VARIABLE job

NoJob == [phase |-> "none", version |-> {}, stamp |-> {}, ready |-> {}]

Init == job = NoJob

\* A job is announced while the manifests are still being written.
Announce(v) ==
    /\ job.phase = "none"
    /\ job' = [phase |-> "announced", version |-> {v}, stamp |-> {}, ready |-> {}]

\* All manifests are written; the job waits for the releases.
Launch(t) ==
    /\ job.phase = "announced"
    /\ job' = [phase |-> "waiting", version |-> job.version, stamp |-> {t}, ready |-> job.ready]

\* Releases are found ready.
Mark(hs) ==
    /\ job.phase = "waiting"
    /\ job' = [job EXCEPT !.ready = @ \cup hs]

\* All releases are ready, or the time is up.
Close ==
    /\ job.phase = "waiting"
    /\ job' = [job EXCEPT !.phase = "closed"]

\* Another upgrade is about to be announced.
Discard == job' = NoJob

Next ==
    \/ \E v \in Version : Announce(v)
    \/ \E t \in Stamp : Launch(t)
    \/ \E hs \in SUBSET HelmRelease : Mark(hs)
    \/ Close
    \/ Discard

Spec == Init /\ [][Next]_job
================================================================================

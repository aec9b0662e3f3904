----------------------------- MODULE MCSetProfile ------------------------------
(***************************************************************************)
(* Instances of SetProfile for TLC: two cluster sets, and two clusters     *)
(* that start in the same one.                                             *)
(***************************************************************************)
EXTENDS SetProfile

AllInBlue == [c \in Cluster |-> "blue"]
================================================================================

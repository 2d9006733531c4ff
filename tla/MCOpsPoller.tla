---------------------------- MODULE MCOpsPoller ----------------------------
(***************************************************************************)
(* Instances of OpsPoller.  Entities are interchangeable.                  *)
(***************************************************************************)
EXTENDS OpsPoller, TLC

Symmetry == Permutations(Entity)
=============================================================================

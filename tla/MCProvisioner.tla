---------------------------- MODULE MCProvisioner ----------------------------
(* Two sites, one alias, one supported and one deprecated PHP version and  *)
(* two plans: enough for every pair of operations to meet.                 *)
EXTENDS Provisioner, TLC

Symmetry == Permutations(Sites)
=============================================================================

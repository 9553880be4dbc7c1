---------------------------- MODULE LaunchAgentMC ----------------------------
(* Instances of LaunchAgent for TLC. *)
EXTENDS LaunchAgent, TLC

HomeSymmetry == Permutations(Homes)
=============================================================================

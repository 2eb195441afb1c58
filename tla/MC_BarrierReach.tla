-------------------------- MODULE MC_BarrierReach --------------------------
(* Instances of the barrier engine for TLC; see MC_Systems. *)
EXTENDS BarrierReach, MC_Systems

=============================================================================

-------------------------- MODULE MC_MessageReach --------------------------
(* Instances of the message-driven engine for TLC; see MC_Systems. *)
EXTENDS MessageReach, MC_Systems

=============================================================================

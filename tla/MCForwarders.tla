---------------------------- MODULE MCForwarders ----------------------------
(* Two users, two tokens, and a logic reference no carrier of ours has. *)
EXTENDS Forwarders

MCLogicRefs == {"wrap_v1", "foreign"}
MCAmounts == 0 .. 2

=============================================================================

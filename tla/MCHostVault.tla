---------------------------- MODULE MCHostVault ----------------------------
(* Every seed byte, every order of the three pubkeys. *)
EXTENDS HostVault

MCCurvePoints == 1 .. 3
MCQuantities == {0, 1, 4}

=============================================================================

----------------------------- MODULE MCMpServer -----------------------------
(* An instance of MpServer: three starts of a player.                       *)
EXTENDS MpServer
=============================================================================

------------------------------ MODULE MCMpFifo ------------------------------
(* Instances of MpFifo: the real size, with one button and with two.        *)
EXTENDS MpFifo
=============================================================================

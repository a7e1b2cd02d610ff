------------------------------ MODULE MCCache2 ------------------------------
(* Instances of Cache2 for TLC.  The sizes keep the order of cache_init's   *)
(* numbers (a fill <= fill_limit < ring - back_size) on a ring of five or   *)
(* six sectors.                                                             *)
EXTENDS Cache2Stream
=============================================================================

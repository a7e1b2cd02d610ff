----------------------------- MODULE MCDemuxer -----------------------------
(* Files for the instances of Demuxer: an evenly interleaved one, and one   *)
(* whose audio comes first.                                                 *)
EXTENDS Demuxer

Interleaved == <<"video", "audio", "video", "audio", "video">>
AudioFirst == <<"audio", "audio", "video", "video">>
=============================================================================

---------------------------- MODULE Cache2Stream ----------------------------
(***************************************************************************)
(* The cached stream keeps the promise of ByteStream.  While the demuxing  *)
(* thread is inside cache_read nothing is ready; the call takes effect when*)
(* it returns.                                                             *)
(***************************************************************************)
EXTENDS Cache2

(* Where the client is, a seek under way counted as done, and what is ready *)
(* for it.                                                                  *)
At == IF Resting THEN Tell ELSE IF cmd = "seek" THEN target ELSE spos
Ready == IF Resting THEN SubSeq(sbuf, bufpos + 1, Len(sbuf)) ELSE <<>>

Promise == INSTANCE ByteStream WITH tell <- At, view <- Ready, ended <- seof

(* Read and sought through the cache, the file is the file: no byte is      *)
(* skipped, repeated or taken from elsewhere in the ring by the copies of   *)
(* cache_read, whatever cache_fill stores meanwhile.                        *)
KeepsPromise == Promise!Spec
=============================================================================

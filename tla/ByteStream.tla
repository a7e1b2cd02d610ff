----------------------------- MODULE ByteStream -----------------------------
(***************************************************************************)
(* What a stream_t promises the demuxers that call stream_read, stream_seek*)
(* and stream_tell, whether there is a cache behind it or not: from the    *)
(* position that stream_tell names, the bytes of the file in order, none   *)
(* skipped and none repeated, until the stream says that it has ended.     *)
(* The byte of the file at position p is the integer p.                    *)
(***************************************************************************)
EXTENDS Integers, Sequences

CONSTANT FileSize

VARIABLES
  tell,   \* stream_tell, the position of the next byte
  view,   \* the bytes that are ready from tell on
  ended   \* stream_eof

stream == <<tell, view, ended>>

Bytes(p, n) == [i \in 1..n |-> p + i - 1]

Init == tell = 0 /\ view = <<>> /\ ended = FALSE

(* stream_read takes n ready bytes. *)
Take ==
  /\ \E n \in 1..Len(view) : tell' = tell + n /\ view' = SubSeq(view, n + 1, Len(view))
  /\ UNCHANGED ended

(* stream_fill_buffer makes the next bytes ready, or finds the end. *)
Refill ==
  /\ view = <<>> /\ ~ended
  /\ \E n \in 1..(FileSize - tell) : view' = Bytes(tell, n)
  /\ UNCHANGED <<tell, ended>>

End ==
  /\ view = <<>> /\ ended' = TRUE
  /\ UNCHANGED <<tell, view>>

(* stream_seek to a ready byte, or anywhere: then nothing is ready.  When   *)
(* the stream ends before the position, it is left at an earlier one.       *)
SeekNear ==
  /\ \E p \in 0..(tell + Len(view)) :
       tell' = p /\ view' = Bytes(p, tell + Len(view) - p)
  /\ UNCHANGED ended

SeekFar ==
  /\ tell' \in Nat /\ view' = <<>> /\ ended' = FALSE

SeekShort ==
  /\ view = <<>> /\ ~ended
  /\ \E n \in 0..(tell - tell') : view' = Bytes(tell', n) /\ ended' = (n = 0)
  /\ tell' \in 0..(tell - 1)

Next == Take \/ Refill \/ End \/ SeekNear \/ SeekFar \/ SeekShort

Spec == Init /\ [][Next]_stream
=============================================================================

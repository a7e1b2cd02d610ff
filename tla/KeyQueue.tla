------------------------------ MODULE KeyQueue ------------------------------
(***************************************************************************)
(* What the key fifo promises the input layer: a queue of bounded length   *)
(* that gives the events in the order they came, and that refuses a key    *)
(* press before it refuses the other events.  An event that comes when it  *)
(* is refused is dropped.                                                  *)
(***************************************************************************)
EXTENDS Integers, Sequences

CONSTANTS Capacity, Reserve, Buttons

Event == {"down", "up", "double"} \X Buttons

VARIABLE queue

Accepts(e, q) == Len(q) < Capacity /\ (e[1] = "down" => Capacity - Len(q) >= Reserve)
Offer(e, q) == IF Accepts(e, q) THEN Append(q, e) ELSE q

Init == queue = <<>>

(* An event of a button, with or without a double click of that button.     *)
Put == \E e \in Event :
         \/ queue' = Offer(e, queue)
         \/ queue' = Offer(<<"double", e[2]>>, Offer(e, queue))

Get == queue # <<>> /\ queue' = Tail(queue)

Next == Put \/ Get

Spec == Init /\ [][Next]_queue
=============================================================================

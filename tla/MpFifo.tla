------------------------------- MODULE MpFifo -------------------------------
(***************************************************************************)
(* The key fifo of mp_fifo.c, between a video output that reports button   *)
(* events (mplayer_put_key) and the input layer that reads them            *)
(* (mplayer_get_key) and keeps the list of the buttons that are down       *)
(* (interpret_key of input/input.c).  All run in the main thread.          *)
(* A code is a kind and a button: "down" has MP_KEY_DOWN, "up" has not,    *)
(* "double" is one of MOUSE_BTN0_DBL to MOUSE_BTN9_DBL.                    *)
(***************************************************************************)
EXTENDS Integers, Sequences

CONSTANTS
  key_fifo_size,   \* 7
  Buttons,         \* MOUSE_BTN0 to MOUSE_BTN9
  DoubleModes,     \* the values of doubleclick_time # 0 that may be configured
  None             \* no button: the initial last_key[], and the initial slots

ASSUME SizeAssumption == key_fifo_size \in Nat \ {0, 1}
ASSUME ButtonsAssumption == None \notin Buttons /\ DoubleModes \subseteq BOOLEAN

Codes == {"down", "up", "double"} \X Buttons
Slots == 0..(key_fifo_size - 1)

VARIABLES
  key_fifo_data, key_fifo_read, key_fifo_write,
  doubles,      \* doubleclick_time # 0
  last_key,     \* the buttons of the last two presses
  recent,       \* the press before the last one is less than doubleclick_time ago
  pressed,      \* the buttons that are down on the device
  key_down      \* the buttons that the input layer has in its list

fifo == <<key_fifo_data, key_fifo_read, key_fifo_write>>
clicks == <<doubles, last_key, recent>>
vars == <<fifo, clicks, pressed, key_down>>

Init ==
  /\ key_fifo_data = [i \in Slots |-> None] /\ key_fifo_read = 0 /\ key_fifo_write = 0
  /\ doubles \in DoubleModes /\ last_key = <<None, None>> /\ recent = FALSE
  /\ pressed = {} /\ key_down = {}

-----------------------------------------------------------------------------
(* Mutant: a full fifo is taken for an empty one.                           *)
FreeNoGap(f) == IF key_fifo_read - f.write <= 0 THEN key_fifo_read - f.write + key_fifo_size
                                                ELSE key_fifo_read - f.write

(* fifo_free: one slot stays empty.                                         *)
Free(f) == IF key_fifo_read - f.write - 1 < 0
             THEN key_fifo_read - f.write - 1 + key_fifo_size
             ELSE key_fifo_read - f.write - 1

(* Mutant: no space reserved for releases.                                  *)
FitsAny(code, f) == Free(f) # 0

Fits(code, f) == /\ Free(f) # 0
                 /\ code[1] = "down" => Free(f) >= key_fifo_size \div 2

(* Mutant: the write index is not wrapped.                                  *)
StoreUnwrapped(code, f) ==
  IF Fits(code, f) THEN [data |-> [f.data EXCEPT ![f.write] = code],
                         write |-> f.write + 1]
                   ELSE f

(* mplayer_put_key_internal: a code that does not fit is dropped.           *)
Store(code, f) ==
  IF Fits(code, f) THEN [data |-> [f.data EXCEPT ![f.write] = code],
                         write |-> (f.write + 1) % key_fifo_size]
                   ELSE f

(* mplayer_put_key: the code, and a double click of its button after it.    *)
PutKey(code, double) ==
  LET f == Store(code, [data |-> key_fifo_data, write |-> key_fifo_write])
      g == IF double THEN Store(<<"double", code[2]>>, f) ELSE f
  IN  /\ key_fifo_data' = g.data /\ key_fifo_write' = g.write
      /\ UNCHANGED <<key_fifo_read, doubles, key_down>>

(* A press: the second of a button within doubleclick_time is a double one. *)
Press ==
  \E b \in Buttons \ pressed :
    /\ pressed' = pressed \cup {b}
    /\ recent' \in IF doubles THEN BOOLEAN ELSE {FALSE}
    /\ last_key' = <<b, last_key[1]>>
    /\ PutKey(<<"down", b>>, recent' /\ last_key[1] = b)

(* So is the release after it, unless the time has passed.                  *)
Release ==
  \E b \in pressed :
    /\ pressed' = pressed \ {b}
    /\ recent' \in {FALSE, recent}
    /\ PutKey(<<"up", b>>, recent' /\ last_key = <<b, b>>)
    /\ UNCHANGED last_key

(* A double click that the system made: ignored if they are made here.      *)
SystemDouble ==
  \E b \in Buttons :
    /\ ~doubles
    /\ PutKey(<<"double", b>>, FALSE)
    /\ UNCHANGED <<last_key, recent, pressed>>

(* interpret_key: the list of the keys that are down.                       *)
Interpret(code) ==
  key_down' = CASE code[1] = "down" -> key_down \cup {code[2]}
                [] code[1] = "up" -> key_down \ {code[2]}
                [] OTHER -> key_down

(* mplayer_get_key, and what the input layer makes of the code.             *)
GetKey ==
  /\ key_fifo_read # key_fifo_write
  /\ Interpret(key_fifo_data[key_fifo_read])
  /\ key_fifo_read' = (key_fifo_read + 1) % key_fifo_size
  /\ UNCHANGED <<key_fifo_data, key_fifo_write, clicks, pressed>>

Next == Press \/ Release \/ SystemDouble \/ GetKey

Spec == Init /\ [][Next]_vars

-----------------------------------------------------------------------------
(* How many codes lie between the two indices, the slot of the n-th, and    *)
(* the codes as a sequence.                                                 *)
Count(r, w) == IF r <= w THEN w - r ELSE w - r + key_fifo_size
Place(r, n) == IF r + n - 1 < key_fifo_size THEN r + n - 1 ELSE r + n - 1 - key_fifo_size
Contents(data, r, w) == [n \in 1..Count(r, w) |-> data[Place(r, n)]]

(* The types of the ring, the click state and the two sets of buttons; what *)
(* lies between the indices are codes, none of them a slot not yet written. *)
TypeOK ==
  /\ key_fifo_data \in [Slots -> Codes \cup {None}]
  /\ key_fifo_read \in Slots /\ key_fifo_write \in Slots
  /\ Contents(key_fifo_data, key_fifo_read, key_fifo_write) \in Seq(Codes)
  /\ doubles \in BOOLEAN /\ recent \in BOOLEAN
  /\ last_key \in (Buttons \cup {None}) \X (Buttons \cup {None})
  /\ pressed \subseteq Buttons /\ key_down \subseteq Buttons

(* The ring and its two indices are the bounded queue of KeyQueue: no code  *)
(* is lost once it is stored, none overtakes another, a press is refused    *)
(* where the reserve begins.                                                *)
Promise == INSTANCE KeyQueue WITH
  Capacity <- key_fifo_size - 1, Reserve <- key_fifo_size \div 2,
  queue <- Contents(key_fifo_data, key_fifo_read, key_fifo_write)
KeepsQueue == Promise!Spec

(* "reserve some space for key release events to avoid stuck keys": once    *)
(* the input layer has read everything, no button is down for it that is up.*)
(* (With doubleclick_time 0 the double clicks of the system, which come at  *)
(* any time, may take the reserved slots.)                                  *)
NoStuckKey == doubles /\ key_fifo_read = key_fifo_write => key_down \subseteq pressed

-----------------------------------------------------------------------------
(* Behind NoStuckKey, for hands that hold one button at a time: the reserve *)
(* keeps a place for the release of a press that the fifo has taken.        *)

(* b is down for the input layer, or will be, and nothing in the fifo says  *)
(* yet that it is up.                                                       *)
Unanswered(queue, down, b) ==
  /\ \A n \in 1..Len(queue) : queue[n] = <<"up", b>> =>
        \E m \in (n + 1)..Len(queue) : queue[m] = <<"down", b>>
  /\ b \in down \/ \E n \in 1..Len(queue) : queue[n] = <<"down", b>>

OneAtATime == [][Press => pressed = {}]_vars

PlaceKept ==
  LET queue == Contents(key_fifo_data, key_fifo_read, key_fifo_write)
  IN  /\ \A b, c \in pressed : b = c
      /\ doubles => \A b \in Buttons :
                     Unanswered(queue, key_down, b) =>
                       b \in pressed /\ Len(queue) < key_fifo_size - 1
=============================================================================

---------------------------- MODULE MpFifo_proofs ----------------------------
(***************************************************************************)
(* The key fifo implements the bounded queue, for every size and set of    *)
(* buttons.                                                                *)
(***************************************************************************)
EXTENDS MpFifo, SequenceTheorems, TLAPS

Rings == [data : [Slots -> Codes \cup {None}], write : Slots]

(* The next index is the next slot, or the first after the last.            *)
LEMMA NextSlot ==
  ASSUME NEW i \in Slots
  PROVE  (i + 1) % key_fifo_size = IF i + 1 < key_fifo_size THEN i + 1 ELSE 0
BY SizeAssumption DEF Slots

(* The number of codes and their places, and the free slots beside them.    *)
LEMMA Geometry ==
  ASSUME NEW r \in Slots, NEW w \in Slots
  PROVE  /\ Count(r, w) \in 0..(key_fifo_size - 1)
         /\ \A n \in 1..Count(r, w) : Place(r, n) \in Slots
         /\ \A n \in 1..Count(r, w) : Place(r, n) # w
         /\ Place(r, Count(r, w) + 1) = w
         /\ Count(r, w) = 0 <=> r = w
BY SizeAssumption DEF Slots, Count, Place

(* One more code, if not all but one of the slots are taken.                *)
LEMMA NextCount ==
  ASSUME NEW r \in Slots, NEW w \in Slots, Count(r, w) # key_fifo_size - 1
  PROVE  Count(r, IF w + 1 < key_fifo_size THEN w + 1 ELSE 0) = Count(r, w) + 1
<1>0. /\ key_fifo_size \in Int /\ r \in Int /\ w \in Int
      /\ 0 <= r /\ r < key_fifo_size /\ 0 <= w /\ w < key_fifo_size
  BY SizeAssumption DEF Slots
<1>1. CASE r <= w /\ w + 1 < key_fifo_size
  BY <1>0, <1>1 DEF Count
<1>2. CASE r <= w /\ ~ (w + 1 < key_fifo_size)
  <2>1. w = key_fifo_size - 1 /\ Count(r, w) = w - r
    BY <1>0, <1>2 DEF Count
  <2>2. r # 0
    BY <1>0, <2>1
  <2>3. Count(r, 0) = 0 - r + key_fifo_size
    BY <1>0, <2>2 DEF Count
  <2> QED
    BY <1>0, <1>2, <2>1, <2>3
<1>3. CASE ~ (r <= w)
  <2>1. Count(r, w) = w - r + key_fifo_size /\ w + 1 < key_fifo_size /\ r # w + 1
    BY <1>0, <1>3 DEF Count
  <2>2. Count(r, w + 1) = w + 1 - r + key_fifo_size
    BY <1>0, <1>3, <2>1 DEF Count
  <2> QED
    BY <1>0, <2>1, <2>2
<1> QED
  BY <1>1, <1>2, <1>3

LEMMA ContentsTyped ==
  ASSUME NEW f \in Rings, NEW r \in Slots
  PROVE  /\ Contents(f.data, r, f.write) \in Seq(Codes \cup {None})
         /\ Len(Contents(f.data, r, f.write)) = Count(r, f.write)
<1>1. f.data \in [Slots -> Codes \cup {None}] /\ f.write \in Slots
  BY DEF Rings
<1>2. /\ Count(r, f.write) \in Nat
      /\ \A n \in 1..Count(r, f.write) : Place(r, n) \in Slots
  BY <1>1, Geometry, SizeAssumption
<1>3. \A n \in 1..Count(r, f.write) : f.data[Place(r, n)] \in Codes \cup {None}
  BY <1>1, <1>2
<1> QED BY <1>2, <1>3 DEF Contents

(* Storing a code is offering it to the queue.                              *)
LEMMA StoreOffers ==
  ASSUME NEW code \in Codes, NEW f \in Rings, key_fifo_read \in Slots
  PROVE  /\ Store(code, f) \in Rings
         /\ Contents(Store(code, f).data, key_fifo_read, Store(code, f).write)
              = Promise!Offer(code, Contents(f.data, key_fifo_read, f.write))
<1> DEFINE r == key_fifo_read
           w == f.write
           q == Contents(f.data, r, w)
           g == Store(code, f)
<1>1. f.data \in [Slots -> Codes \cup {None}] /\ w \in Slots
  BY DEF Rings
<1>2. Free(f) = key_fifo_size - 1 - Count(r, w)
  BY <1>1, SizeAssumption DEF Free, Count, Slots
<1>3. q \in Seq(Codes \cup {None}) /\ Len(q) = Count(r, w)
  BY ContentsTyped
<1>4. Count(r, w) \in 0..(key_fifo_size - 1)
  BY <1>1, Geometry
<1>5. Fits(code, f) <=> Promise!Accepts(code, q)
  BY <1>2, <1>3, <1>4, SizeAssumption DEF Fits, Promise!Accepts
<1>6. CASE ~Fits(code, f)
  BY <1>5, <1>6 DEF Store, Promise!Offer
<1>7. CASE Fits(code, f)
  <2>1. g = [data |-> [f.data EXCEPT ![w] = code], write |-> (w + 1) % key_fifo_size]
    BY <1>7 DEF Store
  <2>2. g.write = IF w + 1 < key_fifo_size THEN w + 1 ELSE 0
    BY <2>1, <1>1, NextSlot
  <2>3. g \in Rings
    BY <2>1, <2>2, <1>1, SizeAssumption DEF Rings, Slots
  <2>4. Free(f) # 0
    BY <1>7 DEF Fits
  <2>5. Count(r, g.write) = Count(r, w) + 1
    <3>1. Count(r, w) # key_fifo_size - 1
      BY <2>4, <1>2, <1>4, SizeAssumption
    <3>2. r \in Slots
      OBVIOUS
    <3> HIDE DEF r, w, g
    <3> QED
      BY <2>2, <3>1, <3>2, <1>1, NextCount
  <2>6. \A n \in 1..Count(r, w) : g.data[Place(r, n)] = f.data[Place(r, n)]
    BY <2>1, <1>1, Geometry
  <2>7. g.data[Place(r, Count(r, w) + 1)] = code
    BY <2>1, <1>1, Geometry
  <2>8. Contents(g.data, r, g.write) = Append(q, code)
    <3> DEFINE h == Contents(g.data, r, g.write)
    <3>1. h \in Seq(Codes \cup {None}) /\ Len(h) = Len(q) + 1
      BY <2>3, <2>5, <1>3, ContentsTyped
    <3>2. Append(q, code) \in Seq(Codes \cup {None}) /\ Len(Append(q, code)) = Len(q) + 1
      BY <1>3
    <3>3. ASSUME NEW n \in 1..(Len(q) + 1) PROVE h[n] = Append(q, code)[n]
      <4>1. h[n] = g.data[Place(r, n)]
        BY <2>5, <1>3, <1>4 DEF Contents
      <4>2. CASE n \in 1..Len(q)
        <5>1. h[n] = f.data[Place(r, n)]
          BY <4>1, <4>2, <2>6, <1>3
        <5>2. q[n] = f.data[Place(r, n)]
          BY <4>2, <1>3 DEF Contents
        <5>3. Append(q, code)[n] = q[n]
          <6> HIDE DEF q
          <6> QED BY <4>2, <1>3
        <5> QED BY <5>1, <5>2, <5>3
      <4>3. CASE n = Len(q) + 1
        BY <4>1, <4>3, <2>7, <1>3
      <4> QED BY <4>2, <4>3, <1>3, <1>4
    <3> DEFINE t == Append(q, code)
               S == Codes \cup {None}
    <3>4. h \in Seq(S) /\ t \in Seq(S) /\ Len(h) = Len(t)
      BY <3>1, <3>2
    <3>5. \A n \in 1..Len(h) : h[n] = t[n]
      BY <3>1, <3>3
    <3>6. h = t
      <4> HIDE DEF h, t, S
      <4> QED BY <3>4, <3>5, SeqEqual
    <3> QED BY <3>6
  <2> QED BY <2>3, <2>8, <1>5, <1>7 DEF Promise!Offer
<1> QED BY <1>6, <1>7

-----------------------------------------------------------------------------
Ring == [data |-> key_fifo_data, write |-> key_fifo_write]
Queue == Contents(key_fifo_data, key_fifo_read, key_fifo_write)

(* What is offered to a queue of codes leaves a queue of codes.             *)
LEMMA OfferTyped ==
  ASSUME NEW e \in Codes, NEW q \in Seq(Codes)
  PROVE  Promise!Offer(e, q) \in Seq(Codes)
BY DEF Promise!Offer

(* What a step that puts a key does to the ring, and leaves alone.          *)
Puts ==
  /\ key_fifo_data' \in [Slots -> Codes \cup {None}]
  /\ key_fifo_write' \in Slots /\ key_fifo_read' \in Slots
  /\ Queue' \in Seq(Codes)
  /\ doubles' = doubles /\ key_down' = key_down
  /\ Promise!Put

(* Putting a key keeps the ring's types and is a Put of the queue: the key  *)
(* is offered to it, and then the double click of its button.               *)
LEMMA PutKeyPuts ==
  ASSUME TypeOK, NEW code \in Codes, NEW double \in BOOLEAN, PutKey(code, double)
  PROVE  /\ Puts
         /\ Queue' = IF double
                       THEN Promise!Offer(<<"double", code[2]>>, Promise!Offer(code, Queue))
                       ELSE Promise!Offer(code, Queue)
<1> DEFINE f == Store(code, Ring)
           twice == <<"double", code[2]>>
           g == IF double THEN Store(twice, f) ELSE f
<1>1. Ring \in Rings /\ key_fifo_read \in Slots /\ Queue \in Seq(Codes)
  BY DEF TypeOK, Ring, Rings, Queue
<1>2. twice \in Codes
  BY DEF Codes
<1>3. f \in Rings /\ Contents(f.data, key_fifo_read, f.write) = Promise!Offer(code, Queue)
  BY <1>1, StoreOffers DEF Ring, Queue
<1>4. Promise!Offer(code, Queue) \in Seq(Codes)
  BY <1>1, OfferTyped
<1>5. /\ Store(twice, f) \in Rings
      /\ Contents(Store(twice, f).data, key_fifo_read, Store(twice, f).write)
           = Promise!Offer(twice, Promise!Offer(code, Queue))
  <2> HIDE DEF f, twice
  <2> QED BY <1>1, <1>2, <1>3, StoreOffers
<1>6. Promise!Offer(twice, Promise!Offer(code, Queue)) \in Seq(Codes)
  <2> HIDE DEF twice
  <2> QED BY <1>2, <1>4, OfferTyped
<1>7. /\ key_fifo_data' = g.data /\ key_fifo_write' = g.write /\ key_fifo_read' = key_fifo_read
      /\ doubles' = doubles /\ key_down' = key_down
  BY DEF PutKey, Ring
<1>8. Queue' = Contents(g.data, key_fifo_read, g.write)
  BY <1>7 DEF Queue
<1>9. /\ g \in Rings
      /\ Queue' = IF double THEN Promise!Offer(twice, Promise!Offer(code, Queue))
                            ELSE Promise!Offer(code, Queue)
  <2> HIDE DEF f, twice
  <2>1. CASE double
    BY <2>1, <1>5, <1>8
  <2>2. CASE ~double
    BY <2>2, <1>3, <1>8
  <2> QED BY <2>1, <2>2
<1>10. Promise!Put
  BY <1>9 DEF Promise!Put, Promise!Event, Codes, Queue
<1>11. g.data \in [Slots -> Codes \cup {None}] /\ g.write \in Slots
  <2> HIDE DEF g
  <2> QED BY <1>9 DEF Rings
<1> QED BY <1>1, <1>4, <1>6, <1>7, <1>9, <1>10, <1>11 DEF Puts

(* Reading takes the first code of the queue.                               *)
LEMMA GetKeyGets ==
  ASSUME TypeOK, GetKey
  PROVE  /\ key_fifo_read' \in Slots
         /\ Queue # <<>> /\ Queue' = Tail(Queue) /\ Queue[1] = key_fifo_data[key_fifo_read]
         /\ key_fifo_data[key_fifo_read] \in Codes
<1> DEFINE r == key_fifo_read
           w == key_fifo_write
<1>1. r \in Slots /\ w \in Slots /\ r # w /\ Queue \in Seq(Codes)
  BY DEF TypeOK, GetKey, Queue
<1>2. key_fifo_read' = IF r + 1 < key_fifo_size THEN r + 1 ELSE 0
  BY <1>1, NextSlot DEF GetKey
<1>3. key_fifo_read' \in Slots
  BY <1>1, <1>2, SizeAssumption DEF Slots
<1>4. key_fifo_data' = key_fifo_data /\ key_fifo_write' = w
  BY DEF GetKey
<1>5. Count(r, w) \in 1..(key_fifo_size - 1) /\ Len(Queue) = Count(r, w)
  BY <1>1, Geometry, SizeAssumption DEF Queue, Contents
<1>6. Count(key_fifo_read', w) = Count(r, w) - 1
  BY <1>1, <1>2, SizeAssumption DEF Count, Slots
<1>7. \A n \in 1..(Count(r, w) - 1) : Place(key_fifo_read', n) = Place(r, n + 1)
  BY <1>1, <1>2, <1>5, SizeAssumption DEF Place, Slots
<1>8. Queue' = [n \in 1..(Count(r, w) - 1) |-> key_fifo_data[Place(r, n + 1)]]
  BY <1>4, <1>6, <1>7 DEF Queue, Contents
<1>9. \A n \in 1..Count(r, w) : Queue[n] = key_fifo_data[Place(r, n)]
  BY <1>5 DEF Queue, Contents
<1>10. /\ Tail(Queue) \in Seq(Codes) /\ Len(Tail(Queue)) = Len(Queue) - 1
       /\ \A n \in 1..(Len(Queue) - 1) : Tail(Queue)[n] = Queue[n + 1]
  <2> HIDE DEF Queue
  <2> QED BY <1>1, <1>5
<1>11. \A n \in 1..(Count(r, w) - 1) : Queue[n + 1] = key_fifo_data[Place(r, n + 1)]
  BY <1>5, <1>9
<1>12. Queue' = Tail(Queue)
  <2> DEFINE t == [n \in 1..(Count(r, w) - 1) |-> key_fifo_data[Place(r, n + 1)]]
  <2>1. \A n \in 1..(Count(r, w) - 1) : t[n] = Tail(Queue)[n] /\ t[n] \in Codes
    BY <1>1, <1>5, <1>10, <1>11
  <2>2. t \in Seq(Codes) /\ Len(t) = Len(Tail(Queue))
    BY <2>1, <1>5, <1>10
  <2>3. t = Tail(Queue)
    <3> HIDE DEF t, Queue, Codes
    <3> QED BY <2>1, <2>2, <1>5, <1>10, SeqEqual
  <2> QED BY <2>3, <1>8
<1>13. Place(r, 1) = r
  BY <1>1, SizeAssumption DEF Place, Slots
<1>14. Queue[1] = key_fifo_data[r] /\ Queue[1] \in Codes
  BY <1>1, <1>5, <1>9, <1>13
<1> QED BY <1>1, <1>3, <1>5, <1>12, <1>14

(* A press puts a key, and keeps the types of what else it changes.         *)
LEMMA PressPuts ==
  ASSUME TypeOK, Press
  PROVE  /\ Puts /\ recent' \in BOOLEAN /\ pressed' \subseteq Buttons
         /\ last_key' \in (Buttons \cup {None}) \X (Buttons \cup {None})
<1>1. PICK b \in Buttons \ pressed :
        /\ pressed' = pressed \cup {b}
        /\ recent' \in IF doubles THEN BOOLEAN ELSE {FALSE}
        /\ last_key' = <<b, last_key[1]>>
        /\ PutKey(<<"down", b>>, recent' /\ last_key[1] = b)
  BY DEF Press
<1>2. PutKey(<<"down", b>>, TRUE) \/ PutKey(<<"down", b>>, FALSE)
  <2>1. CASE recent' /\ last_key[1] = b
    BY <1>1, <2>1 DEF PutKey
  <2>2. CASE ~(recent' /\ last_key[1] = b)
    BY <1>1, <2>2 DEF PutKey
  <2> QED BY <2>1, <2>2
<1>3. <<"down", b>> \in Codes
  BY DEF Codes
<1>4. Puts
  BY <1>2, <1>3, PutKeyPuts
<1>5. recent' \in BOOLEAN
  BY <1>1
<1> QED BY <1>1, <1>4, <1>5 DEF TypeOK

(* So does a release.                                                       *)
LEMMA ReleasePuts ==
  ASSUME TypeOK, Release
  PROVE  /\ Puts /\ recent' \in BOOLEAN /\ pressed' \subseteq Buttons
         /\ last_key' = last_key
<1>1. PICK b \in pressed :
        /\ pressed' = pressed \ {b}
        /\ recent' \in {FALSE, recent}
        /\ PutKey(<<"up", b>>, recent' /\ last_key = <<b, b>>)
        /\ UNCHANGED last_key
  BY DEF Release
<1>2. PutKey(<<"up", b>>, TRUE) \/ PutKey(<<"up", b>>, FALSE)
  <2>1. CASE recent' /\ last_key = <<b, b>>
    BY <1>1, <2>1 DEF PutKey
  <2>2. CASE ~(recent' /\ last_key = <<b, b>>)
    BY <1>1, <2>2 DEF PutKey
  <2> QED BY <2>1, <2>2
<1>3. <<"up", b>> \in Codes
  BY DEF Codes, TypeOK
<1>4. Puts
  BY <1>2, <1>3, PutKeyPuts
<1>5. recent' \in BOOLEAN
  BY <1>1 DEF TypeOK
<1> QED BY <1>1, <1>4, <1>5 DEF TypeOK

(* And a double click of the system, which changes nothing else.            *)
LEMMA SystemDoublePuts ==
  ASSUME TypeOK, SystemDouble
  PROVE  Puts /\ UNCHANGED <<last_key, recent, pressed>>
<1>1. PICK b \in Buttons : /\ PutKey(<<"double", b>>, FALSE)
                            /\ UNCHANGED <<last_key, recent, pressed>>
  BY DEF SystemDouble
<1>2. <<"double", b>> \in Codes
  BY DEF Codes
<1> QED BY <1>1, <1>2, PutKeyPuts

-----------------------------------------------------------------------------
(* At the start the ring is empty.                                          *)
LEMMA InitEmpty ==
  ASSUME Init
  PROVE  TypeOK /\ Queue = <<>>
<1>1. Queue = <<>>
  BY SizeAssumption DEF Init, Queue, Contents, Count
<1>2. Contents(key_fifo_data, key_fifo_read, key_fifo_write) \in Seq(Codes)
  BY <1>1 DEF Queue
<1>3. key_fifo_read \in Slots /\ key_fifo_write \in Slots
  BY SizeAssumption DEF Init, Slots
<1>4. key_fifo_data \in [Slots -> Codes \cup {None}]
  BY DEF Init
<1>5. doubles \in BOOLEAN /\ recent \in BOOLEAN
  BY ButtonsAssumption DEF Init
<1>6. /\ last_key \in (Buttons \cup {None}) \X (Buttons \cup {None})
      /\ pressed \subseteq Buttons /\ key_down \subseteq Buttons
  BY DEF Init
<1> QED BY <1>1, <1>2, <1>3, <1>4, <1>5, <1>6 DEF TypeOK

(* Every step keeps TypeOK: what lies between the indices was written, so   *)
(* what is read is a code.                                                  *)
LEMMA StepTyped ==
  ASSUME TypeOK, [Next]_vars
  PROVE  TypeOK'
<1>1. CASE Press
  BY <1>1, PressPuts DEF Puts, Queue, TypeOK
<1>2. CASE Release
  BY <1>2, ReleasePuts DEF Puts, Queue, TypeOK
<1>3. CASE SystemDouble
  BY <1>3, SystemDoublePuts DEF Puts, Queue, TypeOK
<1>4. CASE GetKey
  <2>1. /\ key_fifo_read' \in Slots /\ Queue' = Tail(Queue) /\ Queue # <<>>
        /\ key_fifo_data[key_fifo_read] \in Codes
    BY <1>4, GetKeyGets
  <2>2. Queue' \in Seq(Codes)
    <3>1. Queue \in Seq(Codes)
      BY DEF TypeOK, Queue
    <3> HIDE DEF Queue
    <3> QED BY <2>1, <3>1
  <2>3. key_fifo_data[key_fifo_read][2] \in Buttons
    BY <2>1 DEF Codes
  <2>4. key_down' \subseteq Buttons
    BY <1>4, <2>3 DEF GetKey, Interpret, TypeOK
  <2> QED BY <1>4, <2>1, <2>2, <2>4 DEF GetKey, Queue, TypeOK, clicks
<1>5. CASE UNCHANGED vars
  BY <1>5 DEF vars, fifo, clicks, TypeOK
<1> QED BY <1>1, <1>2, <1>3, <1>4, <1>5 DEF Next

(* The ring, the click state and the buttons keep their types, and what the *)
(* input layer reads is a code that was put: fifo of any size, any buttons. *)
THEOREM TypeCorrect == Spec => []TypeOK
<1>1. Init => TypeOK
  BY InitEmpty
<1>2. TypeOK /\ [Next]_vars => TypeOK'
  BY StepTyped
<1> QED BY <1>1, <1>2, PTL DEF Spec

(* The ring of mp_fifo.c is the bounded queue of KeyQueue: every step of it *)
(* is a Put, a Get or no step of the queue.                                 *)
THEOREM Implements == Spec => KeepsQueue
<1>1. Init => Promise!Init
  BY InitEmpty DEF Promise!Init, Queue
<1>2. TypeOK /\ [Next]_vars => [Promise!Next]_Queue
  <2> SUFFICES ASSUME TypeOK, [Next]_vars PROVE [Promise!Next]_Queue
    OBVIOUS
  <2>1. CASE Press
    BY <2>1, PressPuts DEF Puts, Promise!Next
  <2>2. CASE Release
    BY <2>2, ReleasePuts DEF Puts, Promise!Next
  <2>3. CASE SystemDouble
    BY <2>3, SystemDoublePuts DEF Puts, Promise!Next
  <2>4. CASE GetKey
    BY <2>4, GetKeyGets DEF Promise!Next, Promise!Get, Queue
  <2>5. CASE UNCHANGED vars
    BY <2>5 DEF vars, fifo, Queue
  <2> QED BY <2>1, <2>2, <2>3, <2>4, <2>5 DEF Next
<1> QED BY <1>1, <1>2, TypeCorrect, PTL DEF Spec, KeepsQueue, Promise!Spec, Queue

-----------------------------------------------------------------------------
(* No stuck key.                                                            *)

(* An event that is no press of b leaves b answered.                        *)
LEMMA AppendAnswers ==
  ASSUME NEW q \in Seq(Codes), NEW e \in Codes, NEW down, NEW b,
         e # <<"down", b>>, Unanswered(Append(q, e), down, b)
  PROVE  Unanswered(q, down, b) /\ e # <<"up", b>>
<1> DEFINE t == Append(q, e)
<1>1. /\ Len(q) \in Nat /\ Len(t) = Len(q) + 1 /\ t[Len(q) + 1] = e
      /\ \A n \in 1..Len(q) : t[n] = q[n]
  OBVIOUS
<1>2. /\ \A n \in 1..Len(t) : t[n] = <<"up", b>> =>
            \E m \in (n + 1)..Len(t) : t[m] = <<"down", b>>
      /\ b \in down \/ \E n \in 1..Len(t) : t[n] = <<"down", b>>
  BY DEF Unanswered
<1> HIDE DEF t
<1>3. ASSUME NEW n \in 1..Len(t), t[n] = <<"down", b>>
      PROVE  n \in 1..Len(q) /\ q[n] = <<"down", b>>
  <2>1. n # Len(q) + 1
    BY <1>1, <1>3
  <2> QED
    BY <2>1, <1>1, <1>3
<1>4. ASSUME NEW n \in 1..Len(q), q[n] = <<"up", b>>
      PROVE  \E m \in (n + 1)..Len(q) : q[m] = <<"down", b>>
  <2>1. PICK m \in (n + 1)..Len(t) : t[m] = <<"down", b>>
    <3>1. n \in 1..Len(t) /\ t[n] = <<"up", b>>
      BY <1>1, <1>4
    <3> QED
      BY <3>1, <1>2
  <2>2. m \in 1..Len(t)
    BY <1>1
  <2>3. m \in 1..Len(q) /\ q[m] = <<"down", b>>
    BY <2>1, <2>2, <1>3
  <2> QED
    BY <2>3, <1>1
<1>5. b \in down \/ \E n \in 1..Len(q) : q[n] = <<"down", b>>
  BY <1>2, <1>3
<1>6. e # <<"up", b>>
  BY <1>1, <1>2
<1> QED
  BY <1>4, <1>5, <1>6 DEF Unanswered

LEMMA OfferAnswers ==
  ASSUME NEW q \in Seq(Codes), NEW e \in Codes, NEW down, NEW b,
         e # <<"down", b>>, Unanswered(Promise!Offer(e, q), down, b)
  PROVE  /\ Unanswered(q, down, b)
         /\ e = <<"up", b>> => ~Promise!Accepts(e, q)
BY AppendAnswers DEF Promise!Offer

(* Reading an event moves it from the fifo into the list, and answers none. *)
LEMMA ReadingAnswers ==
  ASSUME NEW q \in Seq(Codes), q # <<>>, NEW down, NEW after, NEW b,
         q[1] = <<"up", b>> => b \notin after,
         b \in after => b \in down \/ q[1] = <<"down", b>>,
         Unanswered(Tail(q), after, b)
  PROVE  Unanswered(q, down, b)
<1> DEFINE t == Tail(q)
<1>1. /\ Len(q) \in Nat /\ Len(q) >= 1 /\ Len(t) = Len(q) - 1
      /\ \A n \in 1..Len(t) : t[n] = q[n + 1]
  OBVIOUS
<1>2. /\ \A n \in 1..Len(t) : t[n] = <<"up", b>> =>
            \E m \in (n + 1)..Len(t) : t[m] = <<"down", b>>
      /\ b \in after \/ \E n \in 1..Len(t) : t[n] = <<"down", b>>
  BY DEF Unanswered
<1> HIDE DEF t
<1>3. \A n \in 1..Len(t) : t[n] = <<"down", b>> =>
        n + 1 \in 2..Len(q) /\ q[n + 1] = <<"down", b>>
  BY <1>1
<1>4. ASSUME NEW n \in 1..Len(q), q[n] = <<"up", b>>
      PROVE  \E m \in (n + 1)..Len(q) : q[m] = <<"down", b>>
  <2>1. CASE n = 1
    BY <2>1, <1>2, <1>3, <1>4
  <2>2. CASE n # 1
    <3>1. n - 1 \in 1..Len(t) /\ t[n - 1] = <<"up", b>>
      BY <2>2, <1>1, <1>4
    <3>2. PICK m \in ((n - 1) + 1)..Len(t) : t[m] = <<"down", b>>
      BY <3>1, <1>2
    <3>3. m \in 1..Len(t) /\ m + 1 \in (n + 1)..Len(q)
      BY <1>1
    <3> QED
      BY <3>2, <3>3, <1>3
  <2> QED
    BY <2>1, <2>2
<1>5. b \in down \/ \E n \in 1..Len(q) : q[n] = <<"down", b>>
  <2>1. 1 \in 1..Len(q)
    BY <1>1
  <2>2. \A n \in 1..Len(t) : n + 1 \in 1..Len(q)
    BY <1>1
  <2> QED
    BY <2>1, <2>2, <1>2, <1>3
<1> QED
  BY <1>4, <1>5 DEF Unanswered

(* A press that is taken leaves room for a double click and the release.    *)
LEMMA PressKeepsPlace ==
  ASSUME key_fifo_size >= 6, TypeOK, PlaceKept, Press, pressed = {}
  PROVE  PlaceKept'
<1>1. PICK b \in Buttons \ pressed :
        /\ pressed' = pressed \cup {b}
        /\ PutKey(<<"down", b>>, recent' /\ last_key[1] = b)
  BY DEF Press
<1> DEFINE code == <<"down", b>>
           twice == <<"double", b>>
           q == Promise!Offer(code, Queue)
<1>2. code \in Codes /\ twice \in Codes /\ Queue \in Seq(Codes) /\ code[2] = b
  BY DEF Codes, TypeOK, Queue
<1>3. q \in Seq(Codes)
  BY <1>2, OfferTyped
<1>4. /\ doubles' = doubles /\ key_down' = key_down
      /\ Queue' \in {q, Promise!Offer(twice, q)}
  <2>1. CASE recent' /\ last_key[1] = b
    <3>1. PutKey(code, TRUE)
      BY <1>1, <2>1 DEF PutKey
    <3> QED
      BY <3>1, <1>2, PutKeyPuts DEF Puts
  <2>2. CASE ~(recent' /\ last_key[1] = b)
    <3>1. PutKey(code, FALSE)
      BY <1>1, <2>2 DEF PutKey
    <3> QED
      BY <3>1, <1>2, PutKeyPuts DEF Puts
  <2> QED
    BY <2>1, <2>2
<1>5. ASSUME doubles, NEW c \in Buttons, Unanswered(Queue', key_down, c)
      PROVE  c = b /\ Len(Queue') < key_fifo_size - 1
  <2>1. twice # <<"down", c>>
    OBVIOUS
  <2>2. Unanswered(q, key_down, c)
    <3> HIDE DEF q, twice
    <3> QED
      BY <2>1, <1>2, <1>3, <1>4, <1>5, OfferAnswers
  <2>3. ~Unanswered(Queue, key_down, c)
    BY <1>5 DEF PlaceKept, Queue
  <2>4. code = <<"down", c>>
    <3> HIDE DEF code
    <3> QED
      BY <2>2, <2>3, <1>2, OfferAnswers
  <2>5. Promise!Accepts(code, Queue)
    BY <2>2, <2>3 DEF Promise!Offer
  <2>6. Len(Queue) \in Nat /\ Len(Queue) <= key_fifo_size - 1 - 3
    <3>1. Len(Queue) \in Nat
      BY <1>2
    <3>2. key_fifo_size - 1 - Len(Queue) >= key_fifo_size \div 2
      BY <2>5 DEF Promise!Accepts
    <3>3. key_fifo_size \div 2 >= 3 /\ key_fifo_size \div 2 \in Int
      BY SizeAssumption
    <3> QED
      BY <3>1, <3>2, <3>3, SizeAssumption
  <2>7. Len(q) \in {Len(Queue), Len(Queue) + 1} /\ Len(q) \in Nat
    BY <1>2, <1>3 DEF Promise!Offer
  <2>8. Len(Promise!Offer(twice, q)) \in {Len(q), Len(q) + 1}
    <3> HIDE DEF q, twice
    <3> QED
      BY <1>2, <1>3 DEF Promise!Offer
  <2>9. Len(Queue') <= Len(Queue) + 2 /\ Len(Queue') \in Nat
    BY <2>6, <2>7, <2>8, <1>4
  <2>10. Len(Queue') < key_fifo_size - 1
    BY <2>6, <2>9, SizeAssumption
  <2> QED
    BY <2>4, <2>10
<1>6. pressed' = {b}
  BY <1>1
<1> QED
  BY <1>4, <1>5, <1>6 DEF PlaceKept, Queue

(* The release of the only button that is held has its place.               *)
LEMMA ReleaseKeepsPlace ==
  ASSUME TypeOK, PlaceKept, Release
  PROVE  PlaceKept'
<1>1. PICK b \in pressed : /\ pressed' = pressed \ {b}
                           /\ PutKey(<<"up", b>>, recent' /\ last_key = <<b, b>>)
  BY DEF Release
<1> DEFINE code == <<"up", b>>
           twice == <<"double", b>>
           q == Promise!Offer(code, Queue)
<1>2. code \in Codes /\ twice \in Codes /\ Queue \in Seq(Codes) /\ code[2] = b
  BY DEF Codes, TypeOK, Queue
<1>3. q \in Seq(Codes)
  BY <1>2, OfferTyped
<1>4. /\ doubles' = doubles /\ key_down' = key_down
      /\ Queue' \in {q, Promise!Offer(twice, q)}
  <2>1. CASE recent' /\ last_key = <<b, b>>
    <3>1. PutKey(code, TRUE)
      BY <1>1, <2>1 DEF PutKey
    <3> QED
      BY <3>1, <1>2, PutKeyPuts DEF Puts
  <2>2. CASE ~(recent' /\ last_key = <<b, b>>)
    <3>1. PutKey(code, FALSE)
      BY <1>1, <2>2 DEF PutKey
    <3> QED
      BY <3>1, <1>2, PutKeyPuts DEF Puts
  <2> QED
    BY <2>1, <2>2
<1>5. ASSUME doubles, NEW c \in Buttons PROVE ~Unanswered(Queue', key_down, c)
  <2> SUFFICES ASSUME Unanswered(Queue', key_down, c) PROVE FALSE
    OBVIOUS
  <2>1. twice # <<"down", c>> /\ code # <<"down", c>>
    OBVIOUS
  <2>2. Unanswered(q, key_down, c)
    <3> HIDE DEF q, twice
    <3> QED
      BY <2>1, <1>2, <1>3, <1>4, OfferAnswers
  <2>3. Unanswered(Queue, key_down, c) /\ (code = <<"up", c>> => ~Promise!Accepts(code, Queue))
    <3> HIDE DEF code
    <3> QED
      BY <2>1, <2>2, <1>2, OfferAnswers
  <2>4. c \in pressed /\ Len(Queue) < key_fifo_size - 1
    BY <2>3, <1>5 DEF PlaceKept, Queue
  <2>5. c = b
    BY <2>4 DEF PlaceKept
  <2> QED
    BY <2>3, <2>4, <2>5 DEF Promise!Accepts
<1>6. \A c, d \in pressed' : c = d
  BY <1>1 DEF PlaceKept
<1> QED
  BY <1>4, <1>5, <1>6 DEF PlaceKept, Queue

LEMMA GetKeyKeepsPlace ==
  ASSUME TypeOK, PlaceKept, GetKey
  PROVE  PlaceKept'
<1>1. /\ Queue # <<>> /\ Queue' = Tail(Queue) /\ Queue[1] = key_fifo_data[key_fifo_read]
      /\ Queue \in Seq(Codes)
  BY GetKeyGets DEF TypeOK, Queue
<1>2. doubles' = doubles /\ pressed' = pressed /\ Interpret(Queue[1])
  BY <1>1 DEF GetKey, clicks
<1>3. ASSUME doubles, NEW b \in Buttons, Unanswered(Queue', key_down', b)
      PROVE  b \in pressed /\ Len(Queue') < key_fifo_size - 1
  <2>1. /\ Queue[1] = <<"up", b>> => b \notin key_down'
        /\ b \in key_down' => b \in key_down \/ Queue[1] = <<"down", b>>
    <3>1. PICK kind \in {"down", "up", "double"}, c \in Buttons : Queue[1] = <<kind, c>>
      <4>1. Queue[1] \in Codes
        <5> HIDE DEF Queue
        <5> QED
          BY <1>1
      <4> QED
        BY <4>1 DEF Codes
    <3>2. key_down' = CASE kind = "down" -> key_down \cup {c}
                        [] kind = "up" -> key_down \ {c}
                        [] OTHER -> key_down
      BY <3>1, <1>2 DEF Interpret
    <3> HIDE DEF Queue
    <3> QED
      BY <3>1, <3>2
  <2>2. Unanswered(Queue, key_down, b)
    <3> HIDE DEF Queue
    <3> QED
      BY <2>1, <1>1, <1>3, ReadingAnswers
  <2>3. b \in pressed /\ Len(Queue) < key_fifo_size - 1
    BY <2>2, <1>3 DEF PlaceKept, Queue
  <2>4. Len(Queue') < Len(Queue) /\ Len(Queue') \in Int /\ Len(Queue) \in Int
    <3> HIDE DEF Queue
    <3> QED
      BY <1>1
  <2> QED
    BY <2>3, <2>4, SizeAssumption
<1> QED
  BY <1>2, <1>3 DEF PlaceKept, Queue

(* No key gets stuck, whatever the fifo drops, for a fifo of 6 slots or     *)
(* more (the code has 7), hands that hold one button at a time and double   *)
(* clicks that are made here (doubleclick_time is not 0).  With two buttons *)
(* held together the events of one may take the place of the release of the *)
(* other, in a fifo of any size.                                            *)
THEOREM NoKeyStaysDown ==
  ASSUME key_fifo_size >= 6
  PROVE  Spec /\ OneAtATime => []NoStuckKey
<1>1. Init => PlaceKept
  <2> SUFFICES ASSUME Init PROVE PlaceKept
    OBVIOUS
  <2>1. Queue = <<>>
    BY InitEmpty
  <2>2. pressed = {} /\ key_down = {}
    BY DEF Init
  <2>3. \A b \in Buttons : ~Unanswered(Queue, key_down, b)
    BY <2>1, <2>2 DEF Unanswered
  <2> QED
    BY <2>2, <2>3 DEF PlaceKept, Queue
<1>2. TypeOK /\ PlaceKept /\ [Next]_vars /\ [Press => pressed = {}]_vars => PlaceKept'
  <2> SUFFICES ASSUME TypeOK, PlaceKept, [Next]_vars, [Press => pressed = {}]_vars
               PROVE  PlaceKept'
    OBVIOUS
  <2>1. CASE UNCHANGED vars
    BY <2>1 DEF vars, fifo, clicks, PlaceKept
  <2>2. CASE Press /\ pressed = {}
    BY <2>2, PressKeepsPlace
  <2>3. CASE Release
    BY <2>3, ReleaseKeepsPlace
  <2>4. CASE SystemDouble
    <3>1. ~doubles /\ doubles' = doubles /\ pressed' = pressed
      BY <2>4, SystemDoublePuts DEF SystemDouble, Puts
    <3> QED
      BY <3>1 DEF PlaceKept
  <2>5. CASE GetKey
    BY <2>5, GetKeyKeepsPlace
  <2> QED
    BY <2>1, <2>2, <2>3, <2>4, <2>5 DEF Next
<1>3. TypeOK /\ PlaceKept => NoStuckKey
  <2> SUFFICES ASSUME TypeOK, PlaceKept, doubles, key_fifo_read = key_fifo_write,
                      NEW b \in key_down
               PROVE  b \in pressed
    BY DEF NoStuckKey
  <2>1. Queue = <<>> /\ b \in Buttons
    BY SizeAssumption DEF Queue, Contents, Count, TypeOK, Slots
  <2>2. Unanswered(Queue, key_down, b)
    BY <2>1 DEF Unanswered
  <2> QED
    BY <2>1, <2>2 DEF PlaceKept, Queue
<1> QED
  BY <1>1, <1>2, <1>3, TypeCorrect, PTL DEF Spec, OneAtATime

(* So with the one button that most hands use, where double clicks are made *)
(* here (the guard of NoStuckKey).                                          *)
COROLLARY OneButtonNeverStuck ==
  ASSUME key_fifo_size >= 6, NEW b, Buttons = {b}
  PROVE  Spec => []NoStuckKey
<1>1. TypeOK /\ [Next]_vars => [Press => pressed = {}]_vars
  BY DEF TypeOK, Press
<1> QED
  BY <1>1, TypeCorrect, NoKeyStaysDown, PTL DEF Spec, OneAtATime
=============================================================================

------------------------- MODULE Cache2Stream_proofs -------------------------
(***************************************************************************)
(* The cached stream keeps the promise of ByteStream to a client that goes *)
(* forward: for every size of the ring, every file and every interleaving  *)
(* of the two threads, in any order of the stores of a drop.               *)
(***************************************************************************)
EXTENDS Cache2Stream, Cache2_proofs

USE DEF vars, shared, locals, source, client

(* The stream is read and sought forward, its source goes where it is sent, *)
(* and the ring keeps a sector behind the reader: back_size is half the     *)
(* ring, 8 sectors at least, and only a youtube stream gives it up.         *)
ForwardClient ==
  /\ Seeks \subseteq {"forward"} /\ Requests \subseteq {"get", "quit"}
  /\ SeekMayFail = FALSE /\ Youtube = FALSE /\ SectorSize <= BackSize

-----------------------------------------------------------------------------
(* Arithmetic, and the length of a sequence, where the provers need typed   *)
(* variables.                                                               *)
LEMMA DifferenceSwap ==
  ASSUME NEW x \in Int, NEW y \in Int, NEW a \in Int, NEW b \in Int, a <= b, x - y >= b
  PROVE  y <= x - a
OBVIOUS

LEMMA DifferenceMonotone ==
  ASSUME NEW x \in Int, NEW y \in Int, NEW a \in Int, NEW n \in Int, n <= x - a, x <= y
  PROVE  n <= y - a
OBVIOUS

LEMMA Taken ==
  ASSUME NEW l \in Nat, NEW b \in 0..l, NEW c \in (b + 1)..l, NEW e \in Int
  PROVE  /\ c - b \in 1..(l - b) /\ e + b - l \in Int /\ l - b \in Nat
         /\ (e + b - l) + (c - b) = e + c - l /\ (l - b) - (c - b) = l - c
OBVIOUS

LEMMA Left ==
  ASSUME NEW l \in Nat, NEW b \in 0..l, NEW e \in Int, NEW f \in Int
  PROVE  /\ e + b \in Int /\ (l - b > 0 \/ l - b = 0)
         /\ l - b > 0 /\ e + l <= f => l - b \in 1..(f - (e + b))
OBVIOUS

LEMMA LengthOfBoth ==
  ASSUME NEW s \in Seq(Int), NEW t \in Seq(Int)
  PROVE  Len(s \o t) = Len(s) + Len(t)
OBVIOUS

-----------------------------------------------------------------------------
(* Sectors.                                                                 *)
LEMMA SectorStart ==
  ASSUME NEW p \in Int
  PROVE  /\ Sector(p) \in Int /\ Sector(p) <= p /\ p < Sector(p) + SectorSize
         /\ p >= 0 => Sector(p) >= 0
         /\ Sector(Sector(p)) = Sector(p)
BY SizesAssumption DEF Sector

LEMMA SectorMonotone ==
  ASSUME NEW p \in Int, NEW q \in Int, p <= q
  PROVE  Sector(p) <= Sector(q)
<1>1. p \div SectorSize \in Int /\ q \div SectorSize \in Int
  BY SizesAssumption
<1>2. p \div SectorSize <= q \div SectorSize
  BY SizesAssumption
<1> QED
  BY <1>1, <1>2, SizesAssumption DEF Sector

(* The start of a sector that is no further than q is no further than the   *)
(* start of the sector of q.                                                *)
LEMMA SectorBelow ==
  ASSUME NEW p \in Int, NEW q \in Int, Sector(p) <= q
  PROVE  Sector(p) <= Sector(q)
BY SectorStart, SectorMonotone

-----------------------------------------------------------------------------
(* What either thread leaves to the other.                                  *)
LEMMA ThreadKeepsClient ==
  ASSUME CacheThread
  PROVE  UNCHANGED client /\ read' = read
BY DEF CacheThread, Snapshot, DropStore, Reseek, PlanFull, PlanFill, Fill, StoreEof, StoreMax,
       StoreOffset, Poll, Refuse, NothingToExecute, ExecuteSeek, ExecuteOther, Finish

(* Where the client may go: not behind the position that it has reached.    *)
LEMMA SeekGoesOn ==
  ASSUME ForwardClient, TypeOK, ForwardInv, SeekLong
  PROVE  \E p \in Int : /\ target' = p /\ spos' = Sector(p) /\ read' = Sector(p)
                        /\ spos <= p /\ read = spos /\ 0 <= spos
                        /\ Sector(read) <= Sector(p)
<1>1. PICK p \in Targets : /\ seof \/ p >= spos \/ p < spos - Len(sbuf)
                           /\ target' = p /\ spos' = (p \div SectorSize) * SectorSize
  BY DEF SeekLong
<1>2. rpc = "idle" /\ read' = spos'
  BY DEF SeekLong
<1>3. /\ spos \in Int /\ read = spos /\ Len(sbuf) \in Nat /\ Len(sbuf) <= spos
      /\ bufpos \in 0..Len(sbuf)
  BY <1>2 DEF ForwardInv, Filled, Resting, TypeOK, ClientOK
<1>e. seof \in BOOLEAN /\ (seof => Len(sbuf) = 0)
  BY DEF ForwardInv, EofKnown, TypeOK, ClientOK
<1>4. p \in Int /\ p >= Tell
  <2>1. FileSize + SectorSize \in Int
    BY SizesAssumption
  <2> QED
    BY <2>1 DEF Targets, ForwardClient
<1>5. p >= spos
  <2>1. Tell >= spos - Len(sbuf) /\ Tell \in Int
    BY <1>3 DEF Tell
  <2>2. CASE seof
    BY <2>2, <1>e, <1>3, <1>4 DEF Tell
  <2>3. CASE ~seof
    BY <2>3, <1>1, <1>3, <1>4, <2>1
  <2> QED
    BY <1>e, <2>2, <2>3
<1>6. Sector(read) <= Sector(p)
  BY <1>3, <1>4, <1>5, SectorMonotone
<1> QED
  BY <1>1, <1>2, <1>3, <1>4, <1>5, <1>6 DEF Sector

-----------------------------------------------------------------------------
(* The window and the reader.                                               *)

(* The lower end is raised by no more than the ring keeps behind the reader.*)
LEMMA PlanFillNotBehind ==
  ASSUME ForwardClient, TypeOK, Geometry, ForwardInv, PlanFill
  PROVE  min' <= Sector(read) /\ min' \in Int /\ min <= min'
<1>1. /\ min \in Int /\ fread \in Int /\ read \in Int /\ BufferSize \in Int
      /\ SectorSize \in Int /\ 0 < SectorSize
  BY SizesAssumption DEF TypeOK, SharedOK, FillerOK
<1>2. /\ fpc = "plan" /\ min <= Sector(read) /\ Sector(fread) <= read /\ backSize = BackSize
      /\ SectorSize <= BackSize /\ BackSize \in Int
  BY SizesAssumption DEF PlanFill, ForwardInv, NotBehind, ForwardClient
<1>3. PICK n \in Int, back \in Nat, new \in Nat :
           /\ n <= BufferSize - (new + back)
           /\ back = Lesser(fread - min, backSize)
           /\ min' = IF min < fread - (BufferSize - (n + new))
                     THEN fread - (BufferSize - (n + new)) ELSE min
  BY FillPlan
<1>4. min' \in Int /\ min <= min'
  BY <1>1, <1>3
<1>5. CASE min' # min
  <2>1. fread - min' >= back
    BY <1>1, <1>3, <1>5
  <2>2. back = BackSize
    BY <1>1, <1>2, <1>3, <1>4, <1>5, <2>1 DEF Lesser
  <2>3. min' <= Sector(fread)
    <3>0. fread - min' >= BackSize
      BY <2>1, <2>2
    <3>1. min' <= fread - SectorSize
      BY <3>0, <1>1, <1>2, <1>4, DifferenceSwap
    <3>2. Sector(fread) \in Int /\ fread < Sector(fread) + SectorSize
      BY <1>1, SectorStart
    <3> QED
      BY <3>1, <3>2, <1>1, <1>4
  <2>4. Sector(fread) <= Sector(read)
    BY <1>1, <1>2, SectorBelow
  <2> QED
    BY <1>1, <1>4, <2>3, <2>4, SectorStart
<1> QED
  BY <1>2, <1>4, <1>5

(* A drop goes forward, to the start of a sector.                           *)
LEMMA SnapshotNotBehind ==
  ASSUME ForwardClient, TypeOK, ForwardInv, Snapshot
  PROVE  NotBehind' /\ (Inside => fpc' = "plan")
<1>1. /\ fpc = "snap" /\ fread' = read /\ UNCHANGED <<min, max, read, backSize>>
      /\ fpc' \in {"drop", "plan"} /\ (fpc' = "drop" => DropNeeded(read))
  BY DEF Snapshot
<1>2. min \in Int /\ max \in Int /\ read \in Int
  BY DEF TypeOK, SharedOK
<1>3. /\ min <= Sector(read) /\ 0 <= read /\ backSize = BackSize
      /\ read = Sector(read) \/ read <= max
  BY <1>1 DEF ForwardInv, NotBehind
<1>4. Sector(read) \in Int /\ Sector(read) <= read
  BY <1>2, SectorStart
<1>5. fpc' = "drop" => max < read /\ read = Sector(read)
  BY <1>1, <1>2, <1>3, <1>4 DEF DropNeeded
<1>6. Inside => read < max
  BY DEF ForwardInv, Loaded
<1> QED
  BY <1>1, <1>2, <1>3, <1>4, <1>5, <1>6 DEF NotBehind, Sector

LEMMA DropStoreNotBehind ==
  ASSUME TypeOK, Geometry, Geometry', ForwardInv, DropStore
  PROVE  NotBehind' /\ max <= max'
<1>1. /\ fpc = "drop" /\ fpc' \in {"drop", "reseek"} /\ fread' = fread
      /\ max' \in {max, fread} /\ UNCHANGED <<read, backSize>>
  BY DropStoreKeepsGeometry DEF DropStore
<1>2. /\ max \in Int /\ read \in Int /\ fread \in Int
  BY DEF TypeOK, SharedOK, FillerOK
<1>3. /\ 0 <= read /\ 0 <= fread /\ Sector(fread) <= read /\ backSize = BackSize
      /\ max <= fread /\ fread <= read /\ fread = Sector(fread)
      /\ read = Sector(read) \/ read <= max
  BY <1>1 DEF ForwardInv, NotBehind
<1>4. Sector(fread) <= Sector(read)
  BY <1>2, <1>3, SectorBelow
<1>5. fpc' = "reseek" => min' <= Sector(read)
  BY <1>1, <1>3, <1>4 DEF Geometry, Dropping
<1>6. read = Sector(read)
  BY <1>2, <1>3
<1> QED
  BY <1>1, <1>2, <1>3, <1>5, <1>6 DEF NotBehind, Sector

LEMMA NotBehindStep ==
  ASSUME ForwardClient, TypeOK, TypeOK', Geometry, Geometry', ForwardInv, [Next]_vars
  PROVE  NotBehind'
<1>0. /\ min \in Int /\ max \in Int /\ read \in Int /\ fread \in Int /\ len \in Int
      /\ NotBehind
  BY DEF TypeOK, SharedOK, FillerOK, ForwardInv
<1>1. CASE Snapshot
  BY <1>1, SnapshotNotBehind
<1>2. CASE DropStore
  BY <1>2, DropStoreNotBehind
<1>3. CASE PlanFill
  <2>1. min' <= Sector(read)
    BY <1>3, PlanFillNotBehind
  <2>2. /\ fpc' = "fill" /\ UNCHANGED <<read, fread, max, backSize>>
    BY <1>3 DEF PlanFill
  <2> QED
    BY <2>1, <2>2, <1>0 DEF NotBehind, Sector
<1>4. CASE StoreMax
  <2>1. /\ fpc = "max" /\ max' = max + len /\ fpc' \in {"wrap", "poll"} /\ 0 < len
        /\ UNCHANGED <<read, fread, min, backSize>>
    BY <1>4 DEF StoreMax, Geometry, Planned
  <2> QED
    BY <2>1, <1>0 DEF NotBehind, Sector
<1>5. CASE Poll
  <2>1. /\ fpc = "poll" /\ fread' = 0 /\ UNCHANGED <<read, max, min, backSize>>
        /\ fpc' \in {"refuse", "execute"}
    BY <1>5 DEF Poll
  <2>2. Sector(0) <= 0 /\ Sector(0) \in Int
    BY SectorStart
  <2> QED
    BY <2>1, <2>2, <1>0 DEF NotBehind, Sector
<1>6. CASE \/ Reseek \/ PlanFull \/ Fill \/ StoreEof \/ StoreOffset \/ Refuse
          \/ NothingToExecute \/ ExecuteSeek \/ ExecuteOther \/ Finish
  <2>1. /\ UNCHANGED <<read, fread, max, min, backSize>>
        /\ fpc # "drop" /\ fpc' \notin {"drop", "reseek"}
    BY <1>6 DEF Reseek, PlanFull, Fill, StoreEof, StoreOffset, Refuse, NothingToExecute,
                ExecuteSeek, ExecuteOther, Finish, ForwardClient
  <2> QED
    BY <2>1, <1>0 DEF NotBehind, Sector
<1>7. CASE SeekLong
  <2>1. PICK p \in Int : /\ read' = Sector(p) /\ read = spos /\ spos <= p /\ 0 <= spos
                         /\ Sector(read) <= Sector(p)
    BY <1>7, SeekGoesOn
  <2>2. UNCHANGED <<min, max, backSize, fread, fpc>>
    BY <1>7 DEF SeekLong
  <2>3. Sector(fread) <= Sector(read)
    BY <1>0, SectorBelow DEF NotBehind
  <2>4. /\ Sector(fread) \in Int /\ Sector(read) \in Int /\ Sector(p) \in Int
        /\ Sector(Sector(p)) = Sector(p) /\ 0 <= Sector(p)
    BY <1>0, <2>1, SectorStart
  <2>5. Sector(fread) <= read' /\ read' = Sector(read') /\ 0 <= read'
    BY <2>1, <2>3, <2>4
  <2>6. fpc # "drop" => min <= Sector(read')
    BY <2>1, <2>4, <1>0 DEF NotBehind
  <2>7. fpc \in {"drop", "reseek"} => max <= fread /\ fread <= read' /\ fread = Sector(fread)
    BY <2>5, <1>0 DEF NotBehind
  <2> QED
    BY <2>2, <2>5, <2>6, <2>7, <1>0 DEF NotBehind, Sector
<1>8. CASE Advance
  <2>1. /\ read' = read + newb /\ UNCHANGED <<min, max, backSize, fread, fpc>>
        /\ 0 < newb /\ newb <= max - read /\ newb \in Int /\ fpc \notin {"drop", "reseek"}
    BY <1>8 DEF Advance, ForwardInv, Loaded, Inside, TypeOK, ClientOK
  <2>2. Sector(read) <= Sector(read')
    BY <2>1, <1>0, SectorMonotone
  <2>3. Sector(read) \in Int /\ Sector(read') \in Int /\ Sector(fread) \in Int
    BY <2>1, <1>0, SectorStart
  <2>4. min <= Sector(read') /\ Sector(fread) <= read' /\ 0 <= read' /\ read' <= max
    BY <2>1, <2>2, <2>3, <1>0 DEF NotBehind
  <2> QED
    BY <2>1, <2>4, <1>0 DEF NotBehind, Sector
<1>9. CASE \/ ClearEof \/ CheckMax \/ CheckMin \/ CheckEof \/ LoadMax \/ LoadOffset \/ Copy
          \/ Return \/ Answered \/ QuitAnswered \/ Join \/ Consume \/ Read \/ SeekInBuffer
          \/ Request \/ UNCHANGED vars
  <2>1. UNCHANGED <<read, min, max, backSize, fread, fpc>>
    <3>1. CASE Answered
      BY <3>1 DEF Answered, ForwardInv, Filled, Resting
    <3> QED
      BY <1>9, <3>1 DEF ClearEof, CheckMax, CheckMin, CheckEof, LoadMax, LoadOffset, Copy,
           Return, QuitAnswered, Join, Consume, Read, SeekInBuffer, Request
  <2> QED
    BY <2>1, <1>0 DEF NotBehind, Sector
<1> QED
  BY <1>1, <1>2, <1>3, <1>4, <1>5, <1>6, <1>7, <1>8, <1>9
     DEF Next, CacheThread, DemuxThread, Client

-----------------------------------------------------------------------------
(* What cache_read has loaded.                                              *)

(* The slot of a position of the window, and of those behind it up to the   *)
(* end of the ring.                                                         *)
LEMMA SlotOfWindow ==
  ASSUME TypeOK, Geometry, fpc # "drop", NEW p \in Int, min <= p, p < max
  PROVE  /\ Slot(p) \in 0..(BufferSize - 1)
         /\ \A j \in Nat : p + j < max /\ Slot(p) + j < BufferSize
              => Slot(p + j) = Slot(p) + j
<1>1. /\ min \in Int /\ max \in Int /\ offset \in Int /\ BufferSize \in Int /\ 0 < BufferSize
  BY SizesAssumption DEF TypeOK, SharedOK
<1>2. /\ min <= max /\ max <= min + BufferSize /\ offset <= max /\ offset <= min + BufferSize
      /\ max <= offset + BufferSize
  BY <1>1 DEF Geometry, Window
<1>3. CASE p < offset
  <2>1. Slot(p) = p - offset + BufferSize
    BY <1>3 DEF Slot
  <2>2. ASSUME NEW j \in Nat, p + j < max, Slot(p) + j < BufferSize
        PROVE  Slot(p + j) = Slot(p) + j
    <3>1. p + j < offset
      BY <1>1, <2>1, <2>2
    <3> QED
      BY <1>1, <2>1, <3>1 DEF Slot
  <2> QED
    BY <1>1, <1>2, <1>3, <2>1, <2>2
<1>4. CASE offset <= p
  <2>1. Slot(p) = p - offset
    BY <1>1, <1>2, <1>4 DEF Slot
  <2>2. ASSUME NEW j \in Nat, p + j < max, Slot(p) + j < BufferSize
        PROVE  Slot(p + j) = Slot(p) + j
    BY <1>1, <1>4, <2>1, <2>2 DEF Slot
  <2> QED
    BY <1>1, <1>2, <1>4, <2>1, <2>2
<1> QED
  BY <1>1, <1>3, <1>4

(* The cache thread moves the window over a reader inside it, never away.   *)
LEMMA ThreadKeepsLoaded ==
  ASSUME ForwardClient, TypeOK, Geometry, ForwardInv, CacheThread
  PROVE  Loaded'
<1>0. /\ min \in Int /\ max \in Int /\ read \in Int /\ len \in Int /\ newb \in Int
  BY DEF TypeOK, SharedOK, FillerOK, ClientOK
<1>1. UNCHANGED <<rpc, newb, rpos, sbuf, read>>
  BY ThreadKeepsClient
<1>2. CASE ~Inside
  BY <1>1, <1>2 DEF Loaded, Inside
<1>3. CASE Inside
  <2>1. fpc \notin {"drop", "reseek"} /\ read < max /\ min <= read
    <3>1. fpc \notin {"drop", "reseek"} /\ read < max /\ min <= Sector(read)
      BY <1>3 DEF ForwardInv, Loaded, NotBehind
    <3> QED
      BY <3>1, <1>0, SectorStart
  <2>2. fpc' \notin {"drop", "reseek"} /\ max' \in Int /\ max <= max'
        /\ Slot(read)' = Slot(read)
    <3>1. CASE Snapshot
      <4>1. fpc' = "plan"
        BY <1>3, <3>1, SnapshotNotBehind
      <4> QED
        BY <3>1, <4>1, <1>0 DEF Snapshot, Slot
    <3>2. CASE StoreMax
      BY <3>2, <1>0 DEF StoreMax, Slot, Geometry, Planned
    <3>3. CASE StoreOffset
      BY <3>3, <1>0, <1>1, <2>1, SlotsStay DEF StoreOffset
    <3>4. CASE \/ PlanFull \/ PlanFill \/ Fill \/ StoreEof \/ Poll \/ Refuse
              \/ NothingToExecute \/ ExecuteSeek \/ ExecuteOther \/ Finish
      BY <3>4, <1>0 DEF PlanFull, PlanFill, Fill, StoreEof, Poll, Refuse, NothingToExecute,
                        ExecuteSeek, ExecuteOther, Finish, Slot
    <3>5. ~DropStore /\ ~Reseek
      BY <2>1 DEF DropStore, Reseek
    <3> QED
      BY <3>1, <3>2, <3>3, <3>4, <3>5 DEF CacheThread
  <2>3. Loaded
    BY DEF ForwardInv
  <2>4. Inside' => fpc' \notin {"drop", "reseek"} /\ read' < max'
    BY <1>0, <1>1, <2>1, <2>2
  <2>5. rpc' \in {"offset", "copy", "advance"} => 0 < newb' /\ newb' <= max' - read'
    BY <1>0, <1>1, <2>2, <2>3, DifferenceMonotone DEF Loaded
  <2>6. rpc' = "copy" => /\ rpos' = Slot(read)' /\ newb' <= BufferSize - rpos'
                        /\ newb' <= SectorSize - Len(sbuf')
    BY <1>1, <2>2, <2>3 DEF Loaded
  <2> QED
    BY <2>4, <2>5, <2>6, <1>1 DEF Loaded, Slot
<1> QED
  BY <1>2, <1>3

LEMMA LoadedStep ==
  ASSUME ForwardClient, TypeOK, Geometry, ForwardInv, [Next]_vars
  PROVE  Loaded'
<1>0. /\ min \in Int /\ max \in Int /\ read \in Int /\ newb \in Int /\ Len(sbuf) \in Nat
      /\ Loaded
  BY DEF TypeOK, SharedOK, ClientOK, ForwardInv
<1>1. CASE CacheThread
  BY <1>1, ThreadKeepsLoaded
<1>2. CASE CheckMax
  <2>1. /\ UNCHANGED <<read, max, fpc>> /\ rpc' \in {"empty", "checkmin"}
        /\ rpc' = "checkmin" => read < max
    BY <1>0, <1>2 DEF CheckMax
  <2>2. read < max => fpc \notin {"drop", "reseek"}
    BY <1>0 DEF ForwardInv, NotBehind, TypeOK, FillerOK
  <2> QED
    BY <2>1, <2>2 DEF Loaded, Inside
<1>3. CASE CheckMin
  BY <1>0, <1>3 DEF CheckMin, Loaded, Inside
<1>4. CASE LoadMax
  <2>1. rpc = "newb" /\ rpc' = "offset" /\ newb' = max - read /\ UNCHANGED <<read, max, fpc>>
    BY <1>4 DEF LoadMax
  <2> QED
    BY <2>1, <1>0 DEF Loaded, Inside
<1>5. CASE LoadOffset
  <2>1. /\ rpc = "offset" /\ rpc' = "copy" /\ rpos' = Slot(read)
        /\ newb' = Lesser(Lesser(newb, BufferSize - rpos'), SectorSize - Len(sbuf))
        /\ UNCHANGED <<read, max, offset, fpc, sbuf>>
    BY <1>5 DEF LoadOffset
  <2>2. fpc \notin {"drop", "reseek"} /\ read < max /\ min <= Sector(read) /\ 0 < newb
        /\ newb <= max - read /\ Len(sbuf) < SectorSize
    BY <2>1, <1>0 DEF Loaded, Inside, ForwardInv, NotBehind, Filled, Resting
  <2>3. Slot(read) \in 0..(BufferSize - 1)
    BY <2>2, <1>0, SectorStart, SlotOfWindow
  <2>4. /\ 0 < newb' /\ newb' <= newb /\ newb' <= BufferSize - rpos'
        /\ newb' <= SectorSize - Len(sbuf)
    BY <2>1, <2>2, <2>3, <1>0, SizesAssumption DEF Lesser
  <2>5. newb' \in Int
    BY <2>1, <2>3, <1>0, SizesAssumption DEF Lesser
  <2>6. Slot(read)' = Slot(read)
    BY <2>1 DEF Slot
  <2> QED
    BY <2>1, <2>2, <2>4, <2>5, <2>6, <1>0 DEF Loaded, Inside
<1>6. CASE Copy
  BY <1>6, <1>0 DEF Copy, Loaded, Inside
<1>7. CASE \/ ClearEof \/ CheckEof \/ Advance \/ Return \/ Answered \/ QuitAnswered \/ Join
          \/ Read \/ SeekLong \/ Request
  BY <1>7 DEF ClearEof, CheckEof, Advance, Return, Answered, QuitAnswered, Join, Read, SeekLong,
              Request, Loaded, Inside
<1>8. CASE Consume \/ SeekInBuffer \/ UNCHANGED vars
  <2>1. UNCHANGED <<rpc, fpc, read, max, offset, newb, rpos, sbuf>>
    BY <1>8 DEF Consume, SeekInBuffer
  <2> QED
    BY <2>1, <1>0 DEF Loaded, Inside, Slot
<1> QED
  BY <1>1, <1>2, <1>3, <1>4, <1>5, <1>6, <1>7, <1>8 DEF Next, DemuxThread, Client

-----------------------------------------------------------------------------
(* What stream->buffer holds.                                               *)

(* The bytes that memcpy takes out of the ring are those of the positions   *)
(* from read on.                                                            *)
LEMMA CopiedRight ==
  ASSUME TypeOK, FillInv, ForwardInv, Copy
  PROVE  /\ newb \in Nat \ {0} /\ Len(sbuf) + newb <= SectorSize
         /\ Len(sbuf') = Len(sbuf) + newb
         /\ \A i \in 1..Len(sbuf') : sbuf'[i] = spos + i - 1
<1>0. /\ newb \in Int /\ read \in Int /\ min \in Int /\ max \in Int /\ spos \in Int
      /\ sbuf \in Seq(Int) /\ Len(sbuf) \in Nat
  BY DEF TypeOK, SharedOK, ClientOK
<1>1. /\ rpc = "copy" /\ sbuf' = sbuf \o [i \in 1..newb |-> buffer[rpos + i - 1]]
  BY DEF Copy
<1>2. /\ 0 < newb /\ newb <= max - read /\ rpos = Slot(read) /\ newb <= BufferSize - rpos
      /\ newb <= SectorSize - Len(sbuf) /\ fpc \notin {"drop", "reseek"} /\ read < max
  BY <1>1 DEF ForwardInv, Loaded, Inside
<1>3. min <= read
  BY <1>0, <1>2, SectorStart DEF ForwardInv, NotBehind
<1>4. /\ read = spos + Len(sbuf)
      /\ \A i \in 1..Len(sbuf) : sbuf[i] = spos + i - 1
  BY <1>1 DEF ForwardInv, Filled, Resting
<1>5. ASSUME NEW j \in Nat, j < newb
      PROVE  buffer[rpos + j] = read + j
  <2>1. Slot(read) \in 0..(BufferSize - 1) /\ Slot(read + j) = Slot(read) + j
    BY <1>0, <1>2, <1>3, <1>5, SizesAssumption, SlotOfWindow DEF FillInv
  <2>2. read + j \in min..(max - 1)
    BY <1>0, <1>2, <1>3, <1>5
  <2>3. buffer[Slot(read + j)] = read + j
    BY <1>2, <2>2 DEF FillInv, RingHoldsFile
  <2> QED
    BY <1>2, <2>1, <2>3
<1>6. rpos \in Int
  BY DEF TypeOK, ClientOK
<1> DEFINE got == [i \in 1..newb |-> buffer[rpos + i - 1]]
<1>7. \A i \in 1..newb : got[i] = read + i - 1
  <2> SUFFICES ASSUME NEW i \in 1..newb PROVE buffer[rpos + i - 1] = read + i - 1
    OBVIOUS
  <2>1. i - 1 \in Nat /\ i - 1 < newb /\ rpos + (i - 1) = rpos + i - 1
        /\ read + (i - 1) = read + i - 1
    BY <1>0, <1>6
  <2> QED
    BY <2>1, <1>5
<1>8. got \in Seq(Int) /\ Len(got) = newb
  <2>1. got \in [1..newb -> Int]
    BY <1>7, <1>0
  <2> QED
    BY <2>1, <1>0, <1>2
<1> HIDE DEF got
<1>9. Len(sbuf') = Len(sbuf) + newb
  <2>1. sbuf' = sbuf \o got
    BY <1>1 DEF got
  <2> QED
    BY <2>1, <1>0, <1>8, LengthOfBoth
<1>10. ASSUME NEW i \in 1..Len(sbuf')
       PROVE  sbuf'[i] = spos + i - 1
  <2>1. i \in 1..(Len(sbuf) + newb) /\ sbuf' = sbuf \o got
    BY <1>1, <1>9 DEF got
  <2>2. CASE i <= Len(sbuf)
    BY <2>1, <2>2, <1>0, <1>4, <1>8
  <2>3. CASE i > Len(sbuf)
    <3>1. sbuf'[i] = got[i - Len(sbuf)] /\ i - Len(sbuf) \in 1..newb
      BY <2>1, <2>3, <1>0, <1>8
    <3> QED
      BY <3>1, <1>0, <1>4, <1>7
  <2> QED
    BY <2>2, <2>3, <1>0
<1>11. Len(sbuf) + newb <= SectorSize
  BY <1>0, <1>2, SizesAssumption
<1> QED
  BY <1>0, <1>2, <1>9, <1>10, <1>11

LEMMA FilledStep ==
  ASSUME ForwardClient, TypeOK, FillInv, ForwardInv, [Next]_vars
  PROVE  Filled'
<1>0. /\ spos \in Int /\ read \in Int /\ bufpos \in Int /\ newb \in Int /\ target \in Int
      /\ sbuf \in Seq(Int) /\ Len(sbuf) \in Nat /\ SectorSize \in Int /\ 0 < SectorSize
      /\ Filled
  BY SizesAssumption DEF TypeOK, SharedOK, ClientOK, ForwardInv
<1>1. CASE CacheThread \/ UNCHANGED vars
  <2>1. UNCHANGED client /\ read' = read
    BY <1>1, ThreadKeepsClient
  <2> QED
    BY <2>1, <1>0 DEF Filled, Resting
<1>2. CASE Consume
  BY <1>2, <1>0 DEF Consume, Filled, Resting
<1>3. CASE SeekInBuffer
  <2>1. /\ rpc = "idle" /\ UNCHANGED <<read, rpc, cmd, spos, sbuf, seof>>
        /\ \E p \in Targets : p < spos /\ p >= spos - Len(sbuf)
                             /\ bufpos' = p - (spos - Len(sbuf))
    BY <1>3 DEF SeekInBuffer
  <2>2. bufpos' \in 0..Len(sbuf)
    BY <2>1, <1>0 DEF Targets
  <2> QED
    BY <2>1, <2>2, <1>0 DEF Filled, Resting
<1>4. CASE Request
  BY <1>4, <1>0 DEF Request, ForwardClient, Filled, Resting
<1>5. CASE Answered \/ QuitAnswered \/ Join
  BY <1>5, <1>0 DEF Answered, QuitAnswered, Join, Filled, Resting
<1>6. CASE Read
  BY <1>6, <1>0 DEF Read, Filled, Resting
<1>7. CASE SeekLong
  <2>1. PICK p \in Int : /\ target' = p /\ spos' = Sector(p) /\ read' = Sector(p)
                         /\ spos <= p /\ 0 <= spos
    BY <1>7, SeekGoesOn
  <2>2. Sector(p) \in Int /\ Sector(p) <= p /\ 0 <= Sector(p)
    BY <2>1, <1>0, SectorStart
  <2>3. /\ rpc' = "clear" /\ cmd' = "seek" /\ sbuf' = <<>> /\ bufpos' = 0 /\ seof' = FALSE
    BY <1>7 DEF SeekLong
  <2> QED
    BY <2>1, <2>2, <2>3, <1>0 DEF Filled, Resting
<1>8. CASE ClearEof \/ CheckMax \/ CheckMin \/ CheckEof \/ LoadMax \/ LoadOffset
  <2>1. /\ UNCHANGED <<read, cmd, target, spos, sbuf, bufpos, seof>>
        /\ ~Resting /\ ~Resting' /\ rpc \notin {"advance", "return"} /\ rpc' # "advance"
    BY <1>8 DEF ClearEof, CheckMax, CheckMin, CheckEof, LoadMax, LoadOffset, Resting
  <2> QED
    BY <2>1, <1>0 DEF Filled
<1>9. CASE Copy
  <2>1. /\ rpc = "copy" /\ rpc' = "advance"
        /\ UNCHANGED <<read, newb, cmd, target, spos, bufpos, seof>>
    BY <1>9 DEF Copy
  <2>2. /\ newb \in Nat \ {0} /\ Len(sbuf) + newb <= SectorSize
        /\ Len(sbuf') = Len(sbuf) + newb
        /\ \A i \in 1..Len(sbuf') : sbuf'[i] = spos + i - 1
    BY <1>9, CopiedRight
  <2>3. ~Resting /\ ~Resting' /\ rpc # "advance" /\ rpc' = "advance"
    BY <2>1 DEF Resting
  <2>4. /\ spos >= 0 /\ bufpos = 0 /\ read = spos + Len(sbuf)
        /\ cmd \in {"read", "seek"} /\ ~seof /\ (cmd = "seek" => target >= spos)
    BY <2>3, <1>0 DEF Filled
  <2>5. read' + newb' = spos' + Len(sbuf') /\ Len(sbuf') <= SectorSize
    BY <2>1, <2>2, <2>4, <1>0
  <2> QED
    BY <2>1, <2>2, <2>3, <2>4, <2>5 DEF Filled
<1>10. CASE Advance
  BY <1>10, <1>0 DEF Advance, Filled, Resting
<1>11. CASE Return
  <2>1. /\ rpc = "return" /\ rpc' = "idle" /\ spos' = spos + Len(sbuf) /\ cmd' = "read"
        /\ bufpos' = IF cmd = "seek" /\ target - spos <= Len(sbuf) THEN target - spos ELSE 0
        /\ UNCHANGED <<read, sbuf>>
    BY <1>11 DEF Return
  <2>2. /\ read = spos + Len(sbuf) /\ spos >= 0
        /\ cmd = "seek" => target >= spos
        /\ \A i \in 1..Len(sbuf) : sbuf[i] = spos + i - 1
    BY <2>1, <1>0 DEF Filled, Resting
  <2>3. bufpos' \in 0..Len(sbuf)
    BY <2>1, <2>2, <1>0
  <2>4. \A i \in 1..Len(sbuf) : sbuf[i] = spos' - Len(sbuf) + i - 1
    BY <2>1, <2>2, <1>0
  <2>5. read' = spos' /\ Len(sbuf) <= spos'
    BY <2>1, <2>2, <1>0
  <2> QED
    BY <2>1, <2>3, <2>4, <2>5 DEF Filled, Resting
<1> QED
  BY <1>1, <1>2, <1>3, <1>4, <1>5, <1>6, <1>7, <1>8, <1>9, <1>10, <1>11
     DEF Next, DemuxThread, Client

-----------------------------------------------------------------------------
(* The end of the stream.                                                   *)

(* Once the source has ended with everything in the window, that stays so.  *)
LEMMA EndedStays ==
  ASSUME TypeOK, TypeOK', FillInv, Geometry', ForwardInv, ForwardClient, Ended, [Next]_vars
  PROVE  Ended'
<1>0. /\ max \in Int /\ max' \in Int /\ FileSize \in Int /\ srcEof /\ max >= FileSize
  BY SizesAssumption DEF TypeOK, SharedOK, Ended
<1>1. CASE DropStore
  <2>1. max <= max' /\ srcEof' = srcEof
    BY <1>1, DropStoreNotBehind DEF FillInv, DropStore
  <2> QED
    BY <2>1, <1>0 DEF Ended
<1>2. CASE Reseek
  BY <1>2, <1>0 DEF Reseek, FillInv, Geometry, Dropping, Ended, ForwardClient
<1>3. CASE Fill
  BY <1>3, <1>0 DEF Fill, Ended, FillInv, Geometry, Planned
<1>4. CASE StoreMax
  <2>1. max' = max + len /\ 0 < len /\ len \in Int /\ srcEof' = srcEof
    BY <1>4 DEF StoreMax, FillInv, Geometry, Planned, TypeOK, FillerOK
  <2> QED
    BY <2>1, <1>0 DEF Ended
<1>5. CASE \/ Snapshot \/ PlanFull \/ PlanFill \/ StoreEof \/ StoreOffset \/ Poll \/ Refuse
          \/ NothingToExecute \/ ExecuteSeek \/ ExecuteOther \/ Finish
  BY <1>5, <1>0 DEF Snapshot, PlanFull, PlanFill, StoreEof, StoreOffset, Poll, Refuse,
                    NothingToExecute, ExecuteSeek, ExecuteOther, Finish, Ended
<1>6. CASE DemuxThread \/ Client \/ UNCHANGED vars
  <2>1. UNCHANGED <<max, srcEof>>
    BY <1>6, ClientKeepsWindow DEF windowVars
  <2> QED
    BY <2>1, <1>0 DEF Ended
<1> QED
  BY <1>1, <1>2, <1>3, <1>4, <1>5, <1>6 DEF Next, CacheThread

(* What the cache thread learns of the end.                                 *)
LEMMA ThreadEofStep ==
  ASSUME ForwardClient, TypeOK, TypeOK', FillInv, Geometry', ForwardInv, CacheThread
  PROVE  EofKnown'
<1>0. /\ min \in Int /\ max \in Int /\ src \in Int /\ fread \in Int /\ space \in Int
      /\ len \in Int /\ FileSize \in Int /\ srcEof \in BOOLEAN /\ EofKnown
  BY SizesAssumption DEF TypeOK, SharedOK, FillerOK, ForwardInv
<1>1. UNCHANGED <<rpc, seof, sbuf, spos>>
  BY ThreadKeepsClient
<1>2. Ended => Ended'
  BY EndedStays DEF Next
<1>3. (seof => sbuf = <<>>)'
      /\ (sbuf # <<>> => spos + (IF Resting THEN 0 ELSE Len(sbuf)) <= FileSize)'
  BY <1>0, <1>1 DEF EofKnown, Resting
<1>4. CASE Fill
  <2>1. /\ fpc = "fill" /\ fpc' = (IF len' = 0 THEN "eof" ELSE "max") /\ UNCHANGED <<eof, min, max>>
        /\ len' = IF srcEof \/ src >= FileSize THEN 0 ELSE Lesser(space, FileSize - src)
        /\ srcEof' = (len' < space) /\ src' = src + len'
    BY <1>4 DEF Fill
  <2>2. 0 < space /\ src = max /\ (srcEof => src >= FileSize)
    BY <2>1, <1>0 DEF FillInv, Geometry, Planned, InStep, EofKnown
  <2>3. CASE srcEof \/ src >= FileSize
    <3>a. len' = 0 /\ fpc' = "eof"
      BY <2>1, <2>3
    <3>b. srcEof' = (0 < space) /\ src' = src + 0
      BY <3>a, <2>1
    <3>c. srcEof'
      BY <3>b, <2>2, Zenon
    <3>d. src' = src
      BY <3>b, <1>0
    <3>1. len' = 0 /\ fpc' = "eof" /\ srcEof' /\ src' = src
      BY <3>a, <3>c, <3>d
    <3>2. src >= FileSize /\ Ended'
      BY <2>1, <2>2, <2>3, <3>1 DEF Ended
    <3> QED
      BY <2>1, <3>1, <3>2, <1>0, <1>1, <1>3 DEF EofKnown
  <2>4. CASE ~(srcEof \/ src >= FileSize)
    <3>1. len' = Lesser(space, FileSize - src)
      BY <2>1, <2>4
    <3>2. /\ 0 < len' /\ len' <= space /\ src + len' <= FileSize
          /\ len' < space => src + len' = FileSize
      BY <3>1, <2>2, <2>4, <1>0 DEF Lesser
    <3> QED
      BY <2>1, <2>4, <3>1, <3>2, <1>0, <1>1, <1>2, <1>3 DEF EofKnown
  <2> QED
    BY <2>3, <2>4
<1>5. CASE DropStore
  <2>1. /\ fpc = "drop" /\ fpc' \in {"drop", "reseek"} /\ UNCHANGED <<eof, srcEof, src>>
    BY <1>5 DEF DropStore
  <2>2. max' <= FileSize \/ (fpc' # "drop" => min' = max')
    BY <2>1 DEF Geometry, Dropping
  <2> QED
    BY <2>1, <2>2, <1>0, <1>1, <1>2, <1>3 DEF EofKnown
<1>6. CASE Reseek
  <2>1. /\ fpc = "reseek" /\ fpc' = "plan" /\ UNCHANGED <<eof, min, max>>
        /\ src' = fread /\ srcEof' = (fread >= FileSize)
    BY <1>6 DEF Reseek, ForwardClient
  <2> QED
    BY <2>1, <1>0, <1>1, <1>2, <1>3 DEF EofKnown
<1>7. CASE PlanFill
  <2>1. /\ fpc = "plan" /\ fpc' = "fill" /\ UNCHANGED <<eof, max, src, srcEof>>
    BY <1>7 DEF PlanFill
  <2>2. min' \in Int /\ min <= min' /\ min' <= max
    BY <2>1, <1>7, PlanFillNotBehind DEF FillInv, Geometry, Window
  <2>3. min <= max
    BY <2>1 DEF FillInv, Geometry, Window
  <2> QED
    BY <2>1, <2>2, <2>3, <1>0, <1>1, <1>2, <1>3 DEF EofKnown
<1>8. CASE StoreMax
  <2>1. /\ fpc = "max" /\ fpc' \in {"wrap", "poll"} /\ UNCHANGED <<eof, min, src, srcEof>>
        /\ max' = max + len
    BY <1>8 DEF StoreMax
  <2>2. src = max + len
    BY <2>1 DEF FillInv, InStep
  <2> QED
    BY <2>1, <2>2, <1>0, <1>1, <1>2, <1>3 DEF EofKnown
<1>9. CASE StoreEof
  BY <1>9, <1>0, <1>1, <1>2, <1>3 DEF StoreEof, EofKnown
<1>10. CASE Aside \/ Snapshot \/ StoreOffset
  <2>1. CASE StoreEof
    BY <2>1, <1>9
  <2>2. CASE ExecuteSeek
    BY <2>2 DEF ExecuteSeek, FillInv
  <2>3. CASE ~StoreEof /\ ~ExecuteSeek
    <3>1. /\ UNCHANGED <<eof, min, max, src, srcEof>>
          /\ fpc \notin {"drop", "reseek", "max"} /\ fpc' \notin {"reseek", "max", "eof"}
      BY <1>10, <2>3 DEF Aside, Snapshot, StoreOffset, PlanFull, Poll, Refuse,
                         NothingToExecute, ExecuteOther, Finish
    <3> QED
      BY <3>1, <1>0, <1>1, <1>2, <1>3 DEF EofKnown
  <2> QED
    BY <2>1, <2>2, <2>3
<1> QED
  BY <1>4, <1>5, <1>6, <1>7, <1>8, <1>10 DEF CacheThread, Aside

(* What the demuxing thread learns of it.                                   *)
LEMMA EofStep ==
  ASSUME ForwardClient, TypeOK, TypeOK', FillInv, Geometry', ForwardInv, [Next]_vars
  PROVE  EofKnown'
<1>0. /\ min \in Int /\ max \in Int /\ read \in Int /\ spos \in Int /\ newb \in Int
      /\ FileSize \in Int /\ sbuf \in Seq(Int) /\ Len(sbuf) \in Nat /\ EofKnown
  BY SizesAssumption DEF TypeOK, SharedOK, ClientOK, ForwardInv
<1>1. CASE CacheThread
  BY <1>1, ThreadEofStep
<1>2. Ended => Ended'
  BY EndedStays
<1>3. CASE DemuxThread \/ Client \/ UNCHANGED vars
  <2>1. UNCHANGED <<fpc, min, max, src, srcEof>>
    BY <1>3, ClientKeepsWindow DEF windowVars
  <2>2. CASE Copy
    <3>1. /\ rpc = "copy" /\ rpc' = "advance" /\ UNCHANGED <<eof, seof, spos, read, newb>>
      BY <2>2 DEF Copy
    <3>2. newb <= max - read /\ read < max /\ min <= read /\ fpc # "drop"
      <4>1. newb <= max - read /\ read < max /\ fpc # "drop"
        BY <3>1 DEF ForwardInv, Loaded, Inside
      <4> QED
        BY <4>1, <1>0, SectorStart DEF ForwardInv, NotBehind
    <3>3. max <= FileSize
      BY <3>2, <1>0 DEF EofKnown
    <3>4. /\ Len(sbuf') = Len(sbuf) + newb /\ read = spos + Len(sbuf) /\ ~seof
      BY <2>2, <3>1, CopiedRight DEF ForwardInv, Filled, Resting
    <3>5. spos + Len(sbuf') <= FileSize
      BY <3>2, <3>3, <3>4, <1>0
    <3> QED
      BY <2>1, <3>1, <3>4, <3>5, <1>0, <1>2 DEF EofKnown, Ended, Resting
  <2>3. CASE Return
    <3>1. /\ rpc = "return" /\ rpc' = "idle" /\ spos' = spos + Len(sbuf) /\ seof' = (sbuf = <<>>)
          /\ UNCHANGED <<eof, sbuf>>
      BY <2>3 DEF Return
    <3>2. seof' => Ended'
      BY <3>1, <1>0, <1>2 DEF EofKnown
    <3>3. (sbuf # <<>> => spos + (IF Resting THEN 0 ELSE Len(sbuf)) <= FileSize)'
      BY <3>1, <1>0 DEF EofKnown, Resting
    <3> QED
      BY <2>1, <3>1, <3>2, <3>3, <1>0, <1>2 DEF EofKnown
  <2>4. CASE Advance
    <3>1. /\ rpc = "advance" /\ UNCHANGED <<eof, seof, spos, sbuf>>
          /\ rpc' = IF Len(sbuf) >= SectorSize THEN "return" ELSE "check"
      BY <2>4 DEF Advance
    <3>2. rpc' = "return" => sbuf # <<>>
      BY <3>1, SizesAssumption
    <3> QED
      BY <2>1, <3>1, <3>2, <1>0, <1>2 DEF EofKnown, Ended, Resting
  <2>5. CASE CheckEof \/ ClearEof \/ CheckMax \/ CheckMin \/ LoadMax \/ LoadOffset
    <3>1. /\ UNCHANGED <<seof, spos, sbuf>> /\ ~Resting /\ ~Resting'
          /\ rpc' = "return" => eof
          /\ eof' => eof
      BY <2>5 DEF CheckEof, ClearEof, CheckMax, CheckMin, LoadMax, LoadOffset, Resting
    <3> QED
      BY <2>1, <3>1, <1>0, <1>2 DEF EofKnown, Ended
  <2>6. CASE Read \/ SeekLong
    <3>1. /\ UNCHANGED eof /\ sbuf' = <<>> /\ rpc' # "return" /\ (seof' => seof)
      BY <2>6 DEF Read, SeekLong
    <3> QED
      BY <2>1, <3>1, <1>0, <1>2 DEF EofKnown, Ended
  <2>7. CASE Answered
    <3>1. /\ UNCHANGED <<eof, sbuf, seof, spos>> /\ Resting /\ Resting' /\ rpc' # "return"
      BY <2>7 DEF Answered, Resting, ForwardInv, Filled
    <3> QED
      BY <2>1, <3>1, <1>0, <1>2 DEF EofKnown, Ended
  <2>8. CASE Consume \/ SeekInBuffer \/ Request \/ QuitAnswered \/ Join
    <3>1. /\ UNCHANGED <<eof, sbuf, seof, spos>> /\ Resting /\ Resting' /\ rpc' # "return"
      BY <2>8 DEF Consume, SeekInBuffer, Request, QuitAnswered, Join, Resting
    <3> QED
      BY <2>1, <3>1, <1>0, <1>2 DEF EofKnown, Ended
  <2>9. CASE UNCHANGED vars
    BY <2>9, <1>0 DEF EofKnown, Ended, Resting
  <2> QED
    BY <1>3, <2>2, <2>3, <2>4, <2>5, <2>6, <2>7, <2>8, <2>9 DEF DemuxThread, Client
<1> QED
  BY <1>1, <1>3 DEF Next

-----------------------------------------------------------------------------
(* For a client that goes forward the reader is never overrun, what it has  *)
(* loaded of the ring stays true until it has used it, and its bytes are    *)
(* those of its position.                                                   *)
THEOREM ForwardInvariant ==
  ASSUME ForwardClient
  PROVE  Spec => []ForwardInv
<1>1. Init => ForwardInv
  <2> SUFFICES ASSUME Init PROVE ForwardInv
    OBVIOUS
  <2>1. Sector(0) = 0
    BY SectorStart
  <2>2. NotBehind
    BY <2>1 DEF Init, NotBehind
  <2>3. Loaded /\ Filled /\ EofKnown
    BY SizesAssumption DEF Init, Loaded, Inside, Filled, Resting, EofKnown
  <2> QED
    BY <2>2, <2>3 DEF ForwardInv
<1>2. TypeOK /\ TypeOK' /\ FillInv /\ FillInv' /\ ForwardInv /\ [Next]_vars => ForwardInv'
  <2> SUFFICES ASSUME TypeOK, TypeOK', FillInv, FillInv', ForwardInv, [Next]_vars
               PROVE  ForwardInv'
    OBVIOUS
  <2>1. Geometry /\ Geometry'
    BY DEF FillInv
  <2> QED
    BY <2>1, NotBehindStep, LoadedStep, FilledStep, EofStep DEF ForwardInv
<1>3. Spec => []FillInv
  BY FillInvariant DEF ForwardClient
<1> QED
  BY <1>1, <1>2, <1>3, TypeCorrect, PTL DEF Spec

(* The memcpy of cache_read stays inside the ring, though the bounds it     *)
(* works with were loaded before the cache thread moved the window.         *)
THEOREM CopyStaysInRing ==
  ASSUME ForwardClient
  PROVE  Spec => []CopyInRing
<1>1. TypeOK /\ FillInv /\ ForwardInv => CopyInRing
  <2> SUFFICES ASSUME TypeOK, FillInv, ForwardInv, rpc = "copy" PROVE InRing
    BY DEF CopyInRing
  <2>1. min \in Int /\ max \in Int /\ read \in Int /\ newb \in Int /\ BufferSize \in Int
    BY SizesAssumption DEF TypeOK, SharedOK, ClientOK
  <2>2. /\ 0 < newb /\ rpos = Slot(read) /\ newb <= BufferSize - rpos /\ read < max
        /\ fpc \notin {"drop", "reseek"}
    BY DEF ForwardInv, Loaded, Inside
  <2>3. min <= read
    BY <2>1, <2>2, SectorStart DEF ForwardInv, NotBehind
  <2>4. Slot(read) \in 0..(BufferSize - 1)
    BY <2>1, <2>2, <2>3, SlotOfWindow DEF FillInv
  <2> QED
    BY <2>1, <2>2, <2>4 DEF InRing
<1>2. Spec => []FillInv
  BY FillInvariant DEF ForwardClient
<1> QED
  BY <1>1, <1>2, ForwardInvariant, TypeCorrect, PTL

(* The demuxer hears of the end only after the source has ended with every  *)
(* byte in the ring: an eof of an earlier position is never taken for it.   *)
THEOREM EndAfterSource ==
  ASSUME ForwardClient
  PROVE  Spec => []EofAfterSource
<1>1. ForwardInv => EofAfterSource
  BY DEF ForwardInv, EofKnown, Ended, EofAfterSource
<1> QED
  BY <1>1, ForwardInvariant, PTL

-----------------------------------------------------------------------------
(* The promise of ByteStream.                                               *)

(* The bytes of stream->buffer from buf_pos on, when it ends at position e. *)
LEMMA BufferBytes ==
  ASSUME NEW s \in Seq(Int), NEW e \in Int, NEW b \in 0..Len(s),
         \A i \in 1..Len(s) : s[i] = e - Len(s) + i - 1
  PROVE  SubSeq(s, b + 1, Len(s)) = Promise!Bytes(e + b - Len(s), Len(s) - b)
<1>1. SubSeq(s, b + 1, Len(s)) = [i \in 1..(Len(s) - b) |-> s[b + i]]
  OBVIOUS
<1>2. ASSUME NEW i \in 1..(Len(s) - b)
      PROVE  s[b + i] = e + b - Len(s) + i - 1
  <2>1. b + i \in 1..Len(s) /\ Len(s) \in Nat
    OBVIOUS
  <2> QED
    BY <2>1
<1> QED
  BY <1>1, <1>2 DEF Promise!Bytes

LEMMA NoBytes ==
  ASSUME NEW t \in Int
  PROVE  Promise!Bytes(t, 0) = <<>>
BY DEF Promise!Bytes

LEMMA BytesLength ==
  ASSUME NEW t \in Int, NEW n \in Nat
  PROVE  Promise!Bytes(t, n) \in Seq(Int) /\ Len(Promise!Bytes(t, n)) = n
<1>1. Promise!Bytes(t, n) \in [1..n -> Int]
  BY DEF Promise!Bytes
<1> QED
  BY <1>1 DEF Promise!Bytes

(* Taking k of n bytes leaves those from k on.                              *)
LEMMA BytesTail ==
  ASSUME NEW t \in Int, NEW n \in Nat, NEW k \in 0..n
  PROVE  SubSeq(Promise!Bytes(t, n), k + 1, n) = Promise!Bytes(t + k, n - k)
<1> DEFINE B == Promise!Bytes(t, n)
<1>1. B \in Seq(Int) /\ Len(B) = n
  BY BytesLength
<1>2. \A i \in 1..n : B[i] = t + i - 1
  BY DEF Promise!Bytes
<1> HIDE DEF B
<1>3. \A i \in 1..Len(B) : B[i] = (t + n) - Len(B) + i - 1
  BY <1>1, <1>2
<1>4. SubSeq(B, k + 1, Len(B)) = Promise!Bytes((t + n) + k - Len(B), Len(B) - k)
  <2>1. t + n \in Int /\ k \in 0..Len(B)
    BY <1>1
  <2> QED
    BY <2>1, <1>1, <1>3, BufferBytes
<1>5. (t + n) + k - Len(B) = t + k
  BY <1>1
<1> QED
  BY <1>1, <1>4, <1>5 DEF B

(* Outside of cache_read: what the client has are the bytes of its position.*)
LEMMA ReadyBytes ==
  ASSUME TypeOK, ForwardInv, Resting
  PROVE  /\ At = Tell /\ Tell = spos + bufpos - Len(sbuf) /\ bufpos \in 0..Len(sbuf)
         /\ Len(sbuf) \in Nat /\ spos \in Int /\ Len(sbuf) <= spos
         /\ Ready = Promise!Bytes(Tell, Len(sbuf) - bufpos)
<1>1. /\ sbuf \in Seq(Int) /\ Len(sbuf) \in Nat /\ bufpos \in 0..Len(sbuf) /\ spos \in Int
      /\ Len(sbuf) <= spos
      /\ \A i \in 1..Len(sbuf) : sbuf[i] = spos - Len(sbuf) + i - 1
  BY DEF TypeOK, ClientOK, ForwardInv, Filled
<1>2. Ready = Promise!Bytes(Tell, Len(sbuf) - bufpos)
  BY <1>1, BufferBytes DEF Ready, Tell
<1> QED
  BY <1>1, <1>2 DEF At, Tell

-----------------------------------------------------------------------------
(* Each action, seen by the client.                                         *)

(* A step that leaves the client what it has.                               *)
Unseen == UNCHANGED <<At, Ready, seof>>

LEMMA ConsumeTakes ==
  ASSUME TypeOK, ForwardInv, TypeOK', ForwardInv', Consume
  PROVE  Promise!Take
<1>1. /\ rpc = "idle" /\ rpc' = "idle" /\ UNCHANGED <<spos, sbuf, seof>>
      /\ bufpos' \in (bufpos + 1)..Len(sbuf)
  BY DEF Consume
<1>2. Resting /\ Resting'
  BY <1>1 DEF Resting
<1>3. /\ At = Tell /\ Tell = spos + bufpos - Len(sbuf) /\ bufpos \in 0..Len(sbuf)
      /\ Len(sbuf) \in Nat /\ spos \in Int
      /\ Ready = Promise!Bytes(Tell, Len(sbuf) - bufpos)
  BY <1>2, ReadyBytes
<1>4. At' = spos + bufpos' - Len(sbuf)
  BY <1>1, <1>2 DEF At, Tell
<1>5. Ready' = Promise!Bytes(spos + bufpos' - Len(sbuf), Len(sbuf) - bufpos')
  <2>1. /\ sbuf \in Seq(Int) /\ bufpos' \in 0..Len(sbuf)
        /\ \A i \in 1..Len(sbuf) : sbuf[i] = spos - Len(sbuf) + i - 1
    BY <1>1, <1>2, <1>3 DEF TypeOK, ClientOK, ForwardInv, Filled
  <2>2. Ready' = SubSeq(sbuf, bufpos' + 1, Len(sbuf))
    BY <1>1, <1>2 DEF Ready
  <2> QED
    BY <2>1, <2>2, <1>3, BufferBytes
<1> DEFINE n == bufpos' - bufpos
           t == spos + bufpos - Len(sbuf)
           l == Len(sbuf) - bufpos
<1>6. n \in 1..l /\ t \in Int /\ l \in Nat
  BY <1>1, <1>3, Taken
<1>7. t + n = spos + bufpos' - Len(sbuf) /\ l - n = Len(sbuf) - bufpos'
  BY <1>1, <1>3, Taken
<1>8. Ready = Promise!Bytes(t, l) /\ Len(Ready) = l /\ At = t
  BY <1>3, <1>6, BytesLength
<1>9. At' = t + n /\ Ready' = Promise!Bytes(t + n, l - n)
  BY <1>4, <1>5, <1>7
<1> HIDE DEF n, t, l
<1>10. Ready' = SubSeq(Ready, n + 1, Len(Ready))
  BY <1>6, <1>8, <1>9, BytesTail
<1> QED
  BY <1>1, <1>6, <1>8, <1>9, <1>10 DEF Promise!Take

LEMMA SeekInBufferIsNear ==
  ASSUME TypeOK, ForwardInv, SeekInBuffer
  PROVE  Promise!SeekNear
<1>1. /\ rpc = "idle" /\ rpc' = "idle" /\ UNCHANGED <<spos, sbuf, seof>>
      /\ \E p \in Targets : p < spos /\ p >= spos - Len(sbuf)
                          /\ bufpos' = p - (spos - Len(sbuf))
  BY DEF SeekInBuffer
<1>2. PICK p \in Nat : p < spos /\ p >= spos - Len(sbuf) /\ bufpos' = p - (spos - Len(sbuf))
  BY <1>1 DEF Targets
<1>3. Resting /\ Resting'
  BY <1>1 DEF Resting
<1>4. /\ At = spos + bufpos - Len(sbuf) /\ bufpos \in 0..Len(sbuf)
      /\ Len(sbuf) \in Nat /\ spos \in Int
      /\ Ready = Promise!Bytes(At, Len(sbuf) - bufpos)
  BY <1>3, ReadyBytes
<1>5. At \in Int /\ Len(Ready) = Len(sbuf) - bufpos
  <2>1. At \in Int /\ Len(sbuf) - bufpos \in Nat
    BY <1>4
  <2> QED
    BY <2>1, <1>4, BytesLength
<1>6. At + Len(Ready) = spos
  BY <1>4, <1>5
<1>7. At' = p
  BY <1>1, <1>2, <1>3, <1>4 DEF At, Tell
<1>8. Ready' = Promise!Bytes(p, spos - p)
  <2>1. /\ sbuf \in Seq(Int) /\ bufpos' \in 0..Len(sbuf)
        /\ \A i \in 1..Len(sbuf) : sbuf[i] = spos - Len(sbuf) + i - 1
    BY <1>2, <1>3, <1>4 DEF TypeOK, ClientOK, ForwardInv, Filled
  <2>2. Ready' = SubSeq(sbuf, bufpos' + 1, Len(sbuf))
    BY <1>1, <1>3 DEF Ready
  <2>3. spos + bufpos' - Len(sbuf) = p /\ Len(sbuf) - bufpos' = spos - p
    BY <1>2, <1>4
  <2> QED
    BY <2>1, <2>2, <2>3, <1>4, BufferBytes
<1>9. p \in 0..(At + Len(Ready))
  BY <1>2, <1>4, <1>6
<1>10. Ready' = Promise!Bytes(p, At + Len(Ready) - p)
  <2>1. At + Len(Ready) - p = spos - p
    BY <1>2, <1>4, <1>5, <1>6
  <2> QED
    BY <2>1, <1>8, Zenon
<1> QED
  BY <1>1, <1>7, <1>9, <1>10 DEF Promise!SeekNear

LEMMA SeekLongIsFar ==
  ASSUME ForwardClient, TypeOK, ForwardInv, SeekLong
  PROVE  Promise!SeekFar
<1>1. PICK p \in Int : target' = p /\ spos <= p /\ 0 <= spos
  BY SeekGoesOn
<1>2. spos \in Int
  BY DEF TypeOK, ClientOK
<1>3. rpc' = "clear" /\ cmd' = "seek" /\ seof' = FALSE
  BY DEF SeekLong
<1> QED
  BY <1>1, <1>2, <1>3 DEF At, Ready, Resting, Promise!SeekFar

(* The call returns: the bytes are ready, or the end was found.             *)
LEMMA ReturnRefills ==
  ASSUME TypeOK, ForwardInv, Return
  PROVE  Promise!Refill \/ Promise!End \/ Promise!SeekShort \/ Unseen
<1> DEFINE n == Len(sbuf)
<1>1. /\ rpc = "return" /\ rpc' = "idle" /\ seof' = (sbuf = <<>>) /\ spos' = spos + n
      /\ bufpos' = IF cmd = "seek" /\ target - spos <= n THEN target - spos ELSE 0
      /\ UNCHANGED sbuf
  BY DEF Return
<1>2. ~Resting /\ Resting'
  BY <1>1 DEF Resting
<1>3. /\ sbuf \in Seq(Int) /\ n \in Nat /\ spos \in Int /\ target \in Int /\ FileSize \in Int
      /\ seof \in BOOLEAN
  BY SizesAssumption DEF TypeOK, ClientOK
<1>4. /\ spos >= 0 /\ ~seof
      /\ cmd \in {"read", "seek"}
      /\ cmd = "seek" => target >= spos
      /\ \A i \in 1..n : sbuf[i] = spos + i - 1
  BY <1>2 DEF ForwardInv, Filled
<1>5. sbuf # <<>> => spos + n <= FileSize
  BY <1>2 DEF ForwardInv, EofKnown
<1>6. Ready = <<>> /\ At = (IF cmd = "seek" THEN target ELSE spos)
  BY <1>2 DEF Ready, At
<1>7. bufpos' \in 0..n
  BY <1>1, <1>3, <1>4
<1>8. At' = spos + bufpos'
  BY <1>1, <1>2, <1>3, <1>7 DEF At, Tell
<1>9. Ready' = Promise!Bytes(spos + bufpos', n - bufpos')
  <2>1. Ready' = SubSeq(sbuf, bufpos' + 1, n)
    BY <1>1, <1>2 DEF Ready
  <2>2. /\ spos + n \in Int /\ (spos + n) + bufpos' - n = spos + bufpos'
        /\ \A i \in 1..n : sbuf[i] = (spos + n) - n + i - 1
    BY <1>3, <1>4, <1>7
  <2> HIDE DEF n
  <2>3. SubSeq(sbuf, bufpos' + 1, n) = Promise!Bytes((spos + n) + bufpos' - n, n - bufpos')
    BY <2>2, <1>3, <1>7, BufferBytes DEF n
  <2> QED
    BY <2>1, <2>2, <2>3
<1>10. sbuf = <<>> <=> n = 0
  BY <1>3
<1> HIDE DEF n
<1>11. CASE cmd = "read" \/ target - spos <= n
  <2>1. At' = At
    BY <1>1, <1>3, <1>4, <1>6, <1>8, <1>11
  <2>2. At = spos + bufpos'
    BY <2>1, <1>8
  <2>3. CASE n - bufpos' > 0
    <3>1. sbuf # <<>> /\ seof' = seof
      BY <2>3, <1>1, <1>3, <1>4, <1>7, <1>10
    <3>2. n - bufpos' \in 1..(FileSize - At)
      BY <3>1, <2>2, <2>3, <1>3, <1>5, <1>7, Left
    <3> QED
      BY <3>1, <3>2, <2>1, <2>2, <1>4, <1>6, <1>9 DEF Promise!Refill
  <2>4. CASE n - bufpos' = 0
    <3>1. Ready' = <<>>
      <4>1. Ready' = Promise!Bytes(spos + bufpos', 0)
        BY <2>4, <1>9, Zenon
      <4>2. spos + bufpos' \in Int
        BY <1>3, <1>7, Left
      <4> QED
        BY <4>1, <4>2, NoBytes, Zenon
    <3>2. CASE seof' = TRUE
      BY <3>1, <3>2, <2>1, <1>6 DEF Promise!End
    <3>3. CASE seof' = FALSE
      BY <3>1, <3>3, <2>1, <1>3, <1>4, <1>6 DEF Unseen
    <3> QED
      BY <3>2, <3>3, <1>1
  <2> QED
    BY <2>3, <2>4, <1>3, <1>7, Left
<1>12. CASE cmd = "seek" /\ ~(target - spos <= n)
  <2>1. bufpos' = 0
    BY <1>1, <1>12
  <2>2. At' = spos /\ Ready' = Promise!Bytes(spos, n) /\ At = target
    BY <2>1, <1>3, <1>6, <1>8, <1>9, <1>12
  <2>3. n \in 0..(At - At') /\ At' \in 0..(At - 1)
    BY <2>2, <1>3, <1>4, <1>12
  <2>4. seof' = (n = 0)
    BY <1>1, <1>10
  <2> QED
    BY <2>2, <2>3, <2>4, <1>4, <1>6 DEF Promise!SeekShort
<1> QED
  BY <1>4, <1>11, <1>12

LEMMA PromiseStep ==
  ASSUME ForwardClient, TypeOK, TypeOK', ForwardInv, ForwardInv', [Next]_vars
  PROVE  [Promise!Next]_<<At, Ready, seof>>
<1>1. CASE CacheThread \/ UNCHANGED vars
  <2>1. UNCHANGED client
    BY <1>1, ThreadKeepsClient
  <2> QED
    BY <2>1 DEF At, Ready, Tell, Resting
<1>2. CASE Consume
  BY <1>2, ConsumeTakes DEF Promise!Next
<1>3. CASE SeekInBuffer
  BY <1>3, SeekInBufferIsNear DEF Promise!Next
<1>4. CASE SeekLong
  BY <1>4, SeekLongIsFar DEF Promise!Next
<1>5. CASE Return
  BY <1>5, ReturnRefills DEF Promise!Next, Unseen
<1>6. CASE Read
  <2>1. /\ rpc = "idle" /\ bufpos = Len(sbuf) /\ rpc' = "check" /\ cmd' = "read"
        /\ UNCHANGED <<spos, seof>>
    BY <1>6 DEF Read
  <2>2. Resting /\ ~Resting'
    BY <2>1 DEF Resting
  <2>3. /\ At = spos + bufpos - Len(sbuf) /\ Len(sbuf) \in Nat /\ spos \in Int
        /\ Ready = Promise!Bytes(At, Len(sbuf) - bufpos)
    BY <2>2, ReadyBytes
  <2>4. At = spos /\ Ready = <<>>
    BY <2>1, <2>3, NoBytes
  <2>5. At' = spos /\ Ready' = <<>>
    BY <2>1, <2>2 DEF At, Ready
  <2> QED
    BY <2>1, <2>4, <2>5
<1>7. CASE Request \/ Answered \/ QuitAnswered \/ Join
  <2>1. /\ Resting /\ Resting' /\ UNCHANGED <<spos, bufpos, sbuf, seof>>
    BY <1>7 DEF Request, Answered, QuitAnswered, Join, Resting, ForwardInv, Filled
  <2> QED
    BY <2>1 DEF At, Ready, Tell
<1>8. CASE \/ ClearEof \/ CheckMax \/ CheckMin \/ CheckEof \/ LoadMax \/ LoadOffset \/ Copy
          \/ Advance
  <2>1. ~Resting /\ ~Resting' /\ UNCHANGED <<cmd, target, spos, seof>>
    BY <1>8 DEF ClearEof, CheckMax, CheckMin, CheckEof, LoadMax, LoadOffset, Copy, Advance,
                Resting
  <2> QED
    BY <2>1 DEF At, Ready
<1> QED
  BY <1>1, <1>2, <1>3, <1>4, <1>5, <1>6, <1>7, <1>8 DEF Next, DemuxThread, Client

(* Read and sought forward through the cache, the file is the file: every   *)
(* step of the two threads is a step of the promise, or invisible.          *)
THEOREM PromiseKept ==
  ASSUME ForwardClient
  PROVE  Spec => KeepsPromise
<1>1. Init => Promise!Init
  <2> SUFFICES ASSUME Init PROVE Promise!Init
    OBVIOUS
  <2>1. Resting /\ seof = FALSE /\ sbuf = <<>> /\ bufpos = 0 /\ Tell = 0
    <3>1. Resting /\ seof = FALSE /\ sbuf = <<>> /\ bufpos = 0 /\ spos = 0
      BY DEF Init, Resting
    <3>2. Len(sbuf) = 0 /\ 0 + 0 - 0 = 0
      BY <3>1
    <3> QED
      BY <3>1, <3>2 DEF Tell
  <2>2. Ready = <<>>
    BY <2>1 DEF Ready
  <2> QED
    BY <2>1, <2>2 DEF Promise!Init, At
<1>2. TypeOK /\ TypeOK' /\ ForwardInv /\ ForwardInv' /\ [Next]_vars
        => [Promise!Next]_<<At, Ready, seof>>
  BY PromiseStep
<1> QED
  BY <1>1, <1>2, TypeCorrect, ForwardInvariant, PTL DEF Spec, KeepsPromise, Promise!Spec,
     Promise!stream
=============================================================================

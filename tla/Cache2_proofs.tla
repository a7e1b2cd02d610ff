--------------------------- MODULE Cache2_proofs ---------------------------
(***************************************************************************)
(* What TLAPS proves of the stream cache for every size of the ring, every *)
(* file and every behaviour of the demuxing thread: its state is typed,    *)
(* and the cache thread keeps the ring faithful to the file as long as the *)
(* source goes where it is sent (no failed seek, no STREAM_CTRL_SEEK_TO_TIME).*)
(***************************************************************************)
EXTENDS Cache2, TLAPS

(* The copy that cache_read appends is a sequence of bytes.                 *)
LEMMA CopyTyped ==
  ASSUME NEW s \in Seq(Int), NEW n \in Nat, NEW f, \A i \in 1..n : f[i] \in Int,
         f = [i \in 1..n |-> f[i]]
  PROVE  s \o f \in Seq(Int)
<1>1. f \in [1..n -> Int]
  OBVIOUS
<1>2. f \in Seq(Int)
  BY <1>1
<1> QED
  BY <1>2

USE DEF vars, shared, locals, source, client

(* Every step of either thread keeps the types; this is the invariant the   *)
(* other theorems use to do arithmetic.                                     *)
THEOREM TypeCorrect == Spec => []TypeOK
<1>1. Init => TypeOK
  <2> SUFFICES ASSUME Init PROVE TypeOK
    OBVIOUS
  <2>1. eof \in BOOLEAN /\ quit \in BOOLEAN /\ srcEof \in BOOLEAN /\ seof \in BOOLEAN
    BY DEF Init
  <2>2. BackSize \in 0..BufferSize /\ 0 \in 0..MaxSeeks /\ 0 \in Int /\ stores \subseteq {}
    BY SizesAssumption, ModesAssumption DEF Init
  <2>3. buffer \in [0..(BufferSize - 1) -> Int] /\ sbuf \in Seq(Int)
    BY DEF Init, Hole
  <2>4. SharedOK
    BY <2>1, <2>2, <2>3, Zenon DEF Init, SharedOK, ControlStates
  <2>5. FillerOK
    BY <2>1, <2>2, Zenon DEF Init, FillerOK
  <2>6. ClientOK
    BY <2>1, <2>2, <2>3, Zenon DEF Init, ClientOK
  <2> QED
    BY <2>4, <2>5, <2>6 DEF TypeOK
<1>2. TypeOK /\ [Next]_vars => TypeOK'
  <2> SUFFICES ASSUME TypeOK, [Next]_vars PROVE TypeOK'
    OBVIOUS
  <2> USE SizesAssumption, ModesAssumption DEF TypeOK, SharedOK, FillerOK, ClientOK, ControlStates
  <2>1. CASE Snapshot
    BY <2>1 DEF Snapshot
  <2>2. CASE DropStore
    BY <2>2 DEF DropStore
  <2>3. CASE Reseek
    <3>1. CASE src' = fread /\ srcEof' = (fread >= FileSize)
      BY <2>3, <3>1 DEF Reseek
    <3>2. CASE src' = src /\ srcEof' = FALSE
      BY <2>3, <3>2 DEF Reseek
    <3> QED
      BY <2>3, <3>1, <3>2 DEF Reseek
  <2>4. CASE PlanFull
    BY <2>4 DEF PlanFull, Back, Lesser
  <2>5. CASE PlanFill
    BY <2>5 DEF PlanFill, Back, NewBytes, Room, FillPos, Lesser
  <2>6. CASE Fill
    BY <2>6 DEF Fill, Lesser
  <2>7. CASE StoreEof
    BY <2>7 DEF StoreEof
  <2>8. CASE StoreMax
    BY <2>8 DEF StoreMax
  <2>9. CASE StoreOffset
    BY <2>9 DEF StoreOffset
  <2>10. CASE Poll
    BY <2>10 DEF Poll
  <2>11. CASE Refuse
    BY <2>11 DEF Refuse
  <2>12. CASE NothingToExecute
    BY <2>12 DEF NothingToExecute
  <2>13. CASE ExecuteSeek
    BY <2>13 DEF ExecuteSeek
  <2>14. CASE ExecuteOther
    BY <2>14 DEF ExecuteOther
  <2>15. CASE Finish
    BY <2>15 DEF Finish
  <2>16. CASE ClearEof
    <3>1. SharedOK'
      BY <2>16 DEF ClearEof
    <3>2. FillerOK' /\ ClientOK'
      BY <2>16 DEF ClearEof
    <3> QED
      BY <3>1, <3>2
  <2>17. CASE CheckMax
    BY <2>17 DEF CheckMax
  <2>18. CASE CheckMin
    BY <2>18 DEF CheckMin
  <2>19. CASE CheckEof
    BY <2>19 DEF CheckEof
  <2>20. CASE LoadMax
    BY <2>20 DEF LoadMax
  <2>21. CASE LoadOffset
    BY <2>21 DEF LoadOffset, Slot, Lesser
  <2>22. CASE Copy
    <3>1. newb \in Nat /\ \A i \in 1..newb : buffer[rpos + i - 1] \in Int
      <4>1. newb \in Nat
        BY <2>22 DEF Copy, InRing
      <4>2. ASSUME NEW i \in 1..newb PROVE rpos + i - 1 \in 0..(BufferSize - 1)
        BY <2>22, <4>1 DEF Copy, InRing
      <4>3. ASSUME NEW i \in 1..newb PROVE buffer[rpos + i - 1] \in Int
        BY <4>2
      <4> QED
        BY <4>1, <4>3
    <3>2. sbuf \o [i \in 1..newb |-> buffer[rpos + i - 1]] \in Seq(Int)
      <4> DEFINE f == [i \in 1..newb |-> buffer[rpos + i - 1]]
      <4>1. \A i \in 1..newb : f[i] \in Int
        BY <3>1
      <4>2. f = [i \in 1..newb |-> f[i]]
        OBVIOUS
      <4> HIDE DEF f
      <4>3. sbuf \o f \in Seq(Int)
        BY <3>1, <4>1, <4>2, CopyTyped
      <4> QED
        BY <4>3 DEF f
    <3>3. sbuf' \in Seq(Int)
      BY <2>22, <3>2 DEF Copy
    <3> QED
      BY <2>22, <3>3 DEF Copy
  <2>23. CASE Advance
    BY <2>23 DEF Advance
  <2>24. CASE Return
    BY <2>24 DEF Return
  <2>25. CASE Answered
    BY <2>25 DEF Answered
  <2>26. CASE QuitAnswered
    BY <2>26 DEF QuitAnswered
  <2>27. CASE Join
    BY <2>27 DEF Join
  <2>28. CASE Consume
    BY <2>28 DEF Consume
  <2>29. CASE Read
    BY <2>29 DEF Read
  <2>30. CASE SeekInBuffer
    BY <2>30 DEF SeekInBuffer, Targets
  <2>31. CASE SeekLong
    <3>1. spos' \in Int /\ target' \in Int /\ read' \in Int
      BY <2>31 DEF SeekLong, Targets
    <3>2. sbuf' \in Seq(Int) /\ seeks' \in 0..MaxSeeks
      BY <2>31 DEF SeekLong
    <3> QED
      <4>1. SharedOK' /\ FillerOK'
        BY <2>31, <3>1 DEF SeekLong
      <4>2. /\ rpc' = "clear" /\ cmd' = "seek" /\ seof' = FALSE
            /\ bufpos' = 0 /\ newb' = newb /\ rpos' = rpos
        BY <2>31, Zenon DEF SeekLong
      <4>3. seof' \in BOOLEAN
        BY <4>2
      <4>4. newb' \in Int /\ rpos' \in Int /\ bufpos' \in Int
        BY <4>2
      <4>5. rpc' = "clear" /\ cmd' = "seek"
        BY <4>2
      <4>6. ClientOK'
        BY <4>3, <4>4, <4>5, <3>1, <3>2
      <4> QED
        BY <4>1, <4>6
  <2>32. CASE Request
    BY <2>32 DEF Request
  <2>33. CASE UNCHANGED vars
    BY <2>33
  <2> QED
    BY <2>1, <2>2, <2>3, <2>4, <2>5, <2>6, <2>7, <2>8, <2>9, <2>10, <2>11, <2>12,
       <2>13, <2>14, <2>15, <2>16, <2>17, <2>18, <2>19, <2>20, <2>21, <2>22, <2>23,
       <2>24, <2>25, <2>26, <2>27, <2>28, <2>29, <2>30, <2>31, <2>32, <2>33
    DEF Next, CacheThread, DemuxThread, Client
<1> QED
  BY <1>1, <1>2, PTL DEF Spec

-----------------------------------------------------------------------------
(* The geometry of the window.  The fields that it speaks of; the demuxing  *)
(* thread leaves them alone.                                                *)
windowVars == <<min, max, offset, fpc, fread, stores, pos, space, len>>

(* The places of cache_thread between two fills, where Geometry asks only   *)
(* for the window.                                                          *)
Between == {"snap", "eof", "poll", "refuse", "execute", "finish", "done"}

LEMMA BetweenFills ==
  ASSUME Geometry, UNCHANGED <<min, max, offset>>,
         fpc \in Between \union {"plan"}, fpc' \in Between
  PROVE  Geometry'
BY DEF Geometry, Dropping, Planned, Window, Between

(* What one fill is planned with: the room that is left in the ring, the    *)
(* bytes kept behind the reader and the new ones, and the raised min.       *)
LEMMA FillPlan ==
  ASSUME TypeOK, Geometry, PlanFill
  PROVE  \E n \in Int, back \in Nat, new \in Nat :
           /\ space' = n /\ 0 < n /\ n <= FillMax
           /\ pos' = max - offset /\ 0 <= pos' /\ pos' < BufferSize
           /\ n <= BufferSize - pos'
           /\ n <= BufferSize - (new + back)
           /\ back = Lesser(fread - min, backSize)
           /\ new = (IF max < fread THEN 0 ELSE max - fread)
           /\ min' = IF min < fread - (BufferSize - (n + new))
                     THEN fread - (BufferSize - (n + new)) ELSE min
<1> USE SizesAssumption
<1>0. /\ min \in Int /\ max \in Int /\ offset \in Int /\ fread \in Int
      /\ backSize \in 0..BufferSize
  BY DEF TypeOK, SharedOK, FillerOK
<1>1. fpc = "plan" /\ min <= fread
  BY DEF PlanFill, Geometry, Planned
<1>2. offset <= max /\ max < offset + BufferSize
  BY <1>1 DEF Geometry, Window
<1>3. pos' = max - offset /\ 0 <= pos' /\ pos' < BufferSize
  BY <1>0, <1>2 DEF PlanFill, FillPos
<1>4. PICK back \in Nat, new \in Nat :
        /\ back = Back(fread) /\ new = NewBytes(fread)
        /\ back = Lesser(fread - min, backSize)
        /\ new = (IF max < fread THEN 0 ELSE max - fread)
  <2>1. Back(fread) = Lesser(fread - min, backSize) /\ Back(fread) \in Nat
    BY <1>0, <1>1 DEF Back, Lesser
  <2>2. NewBytes(fread) = (IF max < fread THEN 0 ELSE max - fread) /\ NewBytes(fread) \in Nat
    BY <1>0 DEF NewBytes
  <2> QED
    BY <2>1, <2>2
<1>5. Room(fread) = BufferSize - (new + back)
  BY <1>4 DEF Room
<1>6. Room(fread) \in Int /\ Room(fread) > 0
  BY <1>4, <1>5 DEF PlanFill, Limit
<1>7. PICK n \in Int : /\ n = space' /\ 0 < n /\ n <= BufferSize - pos'
                       /\ n <= FillMax /\ n <= Room(fread)
  BY <1>0, <1>3, <1>6 DEF PlanFill, Lesser
<1>8. min' = IF min < fread - (BufferSize - (n + new))
             THEN fread - (BufferSize - (n + new)) ELSE min
  BY <1>4, <1>7 DEF PlanFill
<1> QED
  BY <1>3, <1>4, <1>5, <1>7, <1>8

(* A fill is planned inside the room that the window leaves in the ring.    *)
LEMMA PlanFillKeepsGeometry ==
  ASSUME TypeOK, Geometry, PlanFill
  PROVE  Geometry' /\ min' \in Int /\ min <= min'
<1> USE SizesAssumption
<1>0. min \in Int /\ max \in Int /\ offset \in Int /\ fread \in Int
  BY DEF TypeOK, SharedOK, FillerOK
<1>1. /\ fpc = "plan" /\ fpc' = "fill" /\ UNCHANGED <<max, offset, fread>>
      /\ min <= fread /\ (fread <= max \/ fread < max + SeekLimit)
  BY DEF PlanFill, Geometry, Planned
<1>2. /\ min <= max /\ max <= min + BufferSize /\ offset <= max
      /\ offset <= min + BufferSize /\ max < offset + BufferSize
  BY <1>1 DEF Geometry, Window
<1>3. PICK n \in Int, back \in Nat, new \in Nat :
           /\ space' = n /\ 0 < n /\ n <= FillMax
           /\ pos' = max - offset
           /\ n <= BufferSize - pos'
           /\ n <= BufferSize - (new + back)
           /\ new = (IF max < fread THEN 0 ELSE max - fread)
           /\ min' = IF min < fread - (BufferSize - (n + new))
                     THEN fread - (BufferSize - (n + new)) ELSE min
  BY FillPlan
<1> DEFINE low == fread - (BufferSize - (n + new))
           m == IF min < low THEN low ELSE min
<1>4. m \in Int /\ min <= m /\ m <= max /\ max + n <= m + BufferSize
  <2>1. CASE max < fread
    <3>1. fread < max + (BufferSize - FillLimit) /\ FillMax <= FillLimit
      BY <2>1, <1>0, <1>1
    <3>2. low < max /\ max + n <= low + BufferSize
      BY <2>1, <3>1, <1>0, <1>3
    <3> QED
      BY <3>2, <1>0, <1>2, <1>3
  <2>2. CASE fread <= max
    <3>1. low <= fread /\ low = max + n - BufferSize
      BY <2>2, <1>0, <1>3
    <3> QED
      BY <2>2, <3>1, <1>0, <1>2, <1>3
  <2> QED
    BY <2>1, <2>2, <1>0
<1>5. min' = m
  BY <1>3
<1>6. Window'
  <2>1. m <= max /\ max <= m + BufferSize /\ offset <= m + BufferSize
    BY <1>0, <1>2, <1>3, <1>4
  <2> QED
    BY <2>1, <1>1, <1>2, <1>5 DEF Window
<1>7. Planned' /\ Dropping'
  BY <1>1, <1>3, <1>4, <1>5 DEF Dropping, Planned
<1> QED
  BY <1>4, <1>5, <1>6, <1>7 DEF Geometry

(* A fill stores no more than it planned.                                   *)
LEMMA FillLength ==
  ASSUME TypeOK, Geometry, Fill
  PROVE  \E n \in Int : len' = n /\ 0 <= n /\ n <= space /\ src' = src + n
<1>1. /\ space \in Int /\ src \in Int /\ FileSize \in Int /\ 0 < space
  BY SizesAssumption DEF TypeOK, FillerOK, Fill, Geometry, Planned
<1> QED
  BY <1>1 DEF Fill, Lesser

LEMMA FillKeepsGeometry ==
  ASSUME TypeOK, Geometry, Fill
  PROVE  Geometry'
<1> USE SizesAssumption
<1>0. min \in Int /\ max \in Int /\ offset \in Int /\ space \in Int /\ pos \in Int
  BY DEF TypeOK, SharedOK, FillerOK
<1>1. /\ fpc = "fill" /\ UNCHANGED <<min, max, offset, pos, stores, fread>>
      /\ fpc' = IF len' = 0 THEN "eof" ELSE "max"
  BY DEF Fill
<1>2. PICK n \in Int : len' = n /\ 0 <= n /\ n <= space
  BY FillLength
<1>3. Window' /\ Dropping'
  BY <1>1 DEF Geometry, Window, Dropping
<1>4. Planned'
  <2>1. CASE n = 0
    BY <2>1, <1>1, <1>2 DEF Planned
  <2>2. CASE n # 0
    <3>1. 0 < n /\ n <= BufferSize - pos /\ max + n <= min + BufferSize
      BY <2>2, <1>0, <1>1, <1>2 DEF Geometry, Planned
    <3>2. fpc' = "max" /\ pos = max - offset
      BY <2>2, <1>1, <1>2 DEF Geometry, Planned
    <3> QED
      BY <3>1, <3>2, <1>1, <1>2 DEF Planned
  <2> QED
    BY <2>1, <2>2
<1> QED
  BY <1>3, <1>4 DEF Geometry

LEMMA StoreMaxKeepsGeometry ==
  ASSUME TypeOK, Geometry, StoreMax
  PROVE  Geometry'
BY SizesAssumption DEF StoreMax, Geometry, Window, Planned, Dropping, TypeOK, SharedOK, FillerOK

LEMMA StoreOffsetKeepsGeometry ==
  ASSUME TypeOK, Geometry, StoreOffset
  PROVE  Geometry'
BY SizesAssumption DEF StoreOffset, Geometry, Window, Planned, Dropping, TypeOK, SharedOK

(* The reader left the window, or the source can read on to it: a snapshot  *)
(* is planned with only in these cases.                                     *)
LEMMA SnapshotKeepsGeometry ==
  ASSUME TypeOK, Geometry, Snapshot
  PROVE  Geometry'
<1>1. /\ fpc = "snap" /\ fread' = read /\ UNCHANGED <<min, max, offset>>
      /\ \/ fpc' = "drop" /\ stores' = {"max", "min", "offset"}
         \/ fpc' = "plan" /\ ~DropNeeded(read)
  BY DEF Snapshot
<1>2. Window'
  BY <1>1 DEF Geometry, Window
<1>3. CASE fpc' = "drop" /\ stores' = {"max", "min", "offset"}
  BY <1>2, <1>3 DEF Geometry, Dropping, Planned
<1>4. CASE fpc' = "plan" /\ ~DropNeeded(read)
  <2>1. min <= read /\ (read <= max \/ read < max + SeekLimit)
    BY <1>4, SizesAssumption DEF DropNeeded, TypeOK, SharedOK
  <2> QED
    BY <1>1, <1>2, <1>4, <2>1 DEF Geometry, Dropping, Planned
<1> QED
  BY <1>1, <1>3, <1>4

(* After the third store of the drop the window is empty at the snapshot.   *)
LEMMA DropStoreKeepsGeometry ==
  ASSUME TypeOK, Geometry, DropStore
  PROVE  /\ Geometry'
         /\ fpc = "drop" /\ fpc' \in {"drop", "reseek"} /\ fread' = fread
         /\ max' \in {max, fread} /\ min' \in {min, fread}
<1>0. fread \in Int /\ stores \subseteq {"max", "min", "offset"}
  BY DEF TypeOK, FillerOK
<1>1. PICK f \in stores :
        /\ max' = (IF f = "max" THEN fread ELSE max)
        /\ min' = (IF f = "min" THEN fread ELSE min)
        /\ offset' = (IF f = "offset" THEN fread ELSE offset)
        /\ stores' = stores \ {f}
        /\ fpc' = (IF stores = {f} THEN "reseek" ELSE "drop")
  BY DEF DropStore
<1>2. fpc = "drop" /\ fread' = fread
  BY DEF DropStore
<1>3. Dropping'
  BY <1>0, <1>1, <1>2 DEF Geometry, Dropping
<1>4. Planned'
  BY <1>1 DEF Planned
<1>5. Window'
  <2>1. CASE fpc' = "drop"
    BY <2>1 DEF Window
  <2>2. CASE fpc' = "reseek"
    <3>1. max' = fread /\ min' = fread /\ offset' = fread
      BY <1>2, <1>3, <2>2 DEF Dropping
    <3> QED
      BY <3>1, <1>0, <2>2, SizesAssumption DEF Window
  <2> QED
    BY <1>1, <2>1, <2>2
<1> QED
  BY <1>1, <1>2, <1>3, <1>4, <1>5 DEF Geometry

(* A step that is none of those above moves no window and plans no fill.    *)
Aside ==
  \/ PlanFull \/ StoreEof \/ Poll \/ Refuse \/ NothingToExecute
  \/ ExecuteSeek \/ ExecuteOther \/ Finish

LEMMA AsideKeepsGeometry ==
  ASSUME Geometry, Aside
  PROVE  Geometry'
<1>1. /\ UNCHANGED <<min, max, offset>>
      /\ fpc \in Between \union {"plan"} /\ fpc' \in Between
  BY DEF Aside, PlanFull, StoreEof, Poll, Refuse, NothingToExecute, ExecuteSeek,
         ExecuteOther, Finish, Between
<1> QED
  BY <1>1, BetweenFills

LEMMA ClientKeepsWindow ==
  ASSUME DemuxThread \/ Client \/ UNCHANGED vars
  PROVE  UNCHANGED windowVars /\ UNCHANGED <<buffer, src, srcEof>>
BY DEF windowVars, DemuxThread, Client, ClearEof, CheckMax, CheckMin, CheckEof, LoadMax,
       LoadOffset, Copy, Advance, Return, Answered, QuitAnswered, Join, Consume, Read,
       SeekInBuffer, SeekLong, Request

LEMMA GeometryStep ==
  ASSUME TypeOK, Geometry, [Next]_vars
  PROVE  Geometry'
<1>1. CASE Snapshot
  BY <1>1, SnapshotKeepsGeometry
<1>2. CASE DropStore
  BY <1>2, DropStoreKeepsGeometry
<1>3. CASE Reseek
  <2>1. /\ fpc = "reseek" /\ fpc' = "plan" /\ UNCHANGED <<min, max, offset, fread>>
    BY <1>3 DEF Reseek
  <2>2. max = fread /\ min = fread /\ offset = fread /\ fread \in Int
    BY <2>1 DEF Geometry, Dropping, TypeOK, FillerOK
  <2> QED
    BY <2>1, <2>2, SizesAssumption DEF Geometry, Dropping, Window, Planned
<1>4. CASE PlanFill
  BY <1>4, PlanFillKeepsGeometry
<1>5. CASE Fill
  BY <1>5, FillKeepsGeometry
<1>6. CASE StoreMax
  BY <1>6, StoreMaxKeepsGeometry
<1>7. CASE StoreOffset
  BY <1>7, StoreOffsetKeepsGeometry
<1>8. CASE Aside
  BY <1>8, AsideKeepsGeometry
<1>9. CASE DemuxThread \/ Client \/ UNCHANGED vars
  <2>1. UNCHANGED windowVars
    BY <1>9, ClientKeepsWindow
  <2> QED
    BY <2>1 DEF windowVars, Geometry, Dropping, Window, Planned
<1> QED
  BY <1>1, <1>2, <1>3, <1>4, <1>5, <1>6, <1>7, <1>8, <1>9 DEF Next, CacheThread, Aside

(* The window never outgrows the ring, whatever the source and the client   *)
(* do: seeks that fail and seeks by time included.                          *)
THEOREM GeometryInvariant == Spec => []Geometry
<1>1. Init => Geometry
  BY SizesAssumption DEF Init, Geometry, Dropping, Window, Planned
<1>2. TypeOK /\ Geometry /\ [Next]_vars => Geometry'
  BY GeometryStep
<1> QED
  BY <1>1, <1>2, TypeCorrect, PTL DEF Spec

(* The window and a fill under way share the ring without overlap.          *)
THEOREM RingNeverOverrun == Spec => []WindowFits
<1>1. TypeOK /\ Geometry => WindowFits
  BY SizesAssumption DEF WindowFits, Geometry, Window, Planned, TypeOK, SharedOK, FillerOK
<1> QED
  BY <1>1, GeometryInvariant, TypeCorrect, PTL

(* Raising min_filepos leaves the back bytes that back_size asks for.       *)
THEOREM BackBytesKept == Spec => BackKept
<1>1. TypeOK /\ Geometry /\ [Next]_vars
        => [min' # min /\ fpc = "plan" => fread - min' >= Lesser(fread - min, backSize)]_vars
  <2> SUFFICES ASSUME TypeOK, Geometry, [Next]_vars, min' # min, fpc = "plan"
               PROVE  fread - min' >= Lesser(fread - min, backSize)
    OBVIOUS
  <2>1. PlanFill
    <3>1. ~(DemuxThread \/ Client \/ UNCHANGED vars)
      BY ClientKeepsWindow DEF windowVars
    <3> QED
      BY <3>1 DEF Next, CacheThread, Snapshot, DropStore, Reseek, PlanFull, Fill, StoreEof,
                  StoreMax, StoreOffset, Poll, Refuse, NothingToExecute, ExecuteSeek,
                  ExecuteOther, Finish
  <2>2. PICK n \in Int, back \in Nat, new \in Nat :
           /\ n <= BufferSize - (new + back)
           /\ back = Lesser(fread - min, backSize)
           /\ min' = IF min < fread - (BufferSize - (n + new))
                     THEN fread - (BufferSize - (n + new)) ELSE min
    BY <2>1, FillPlan
  <2>3. min \in Int /\ fread \in Int /\ BufferSize \in Int
    BY SizesAssumption DEF TypeOK, SharedOK, FillerOK
  <2>4. min' = fread - (BufferSize - (n + new))
    BY <2>2
  <2>5. fread - min' >= back
    BY <2>2, <2>3, <2>4
  <2> QED
    BY <2>2, <2>5
<1> QED
  BY <1>1, GeometryInvariant, TypeCorrect, PTL DEF Spec, BackKept

(* A full youtube ring gets room again by the next byte that is read.       *)
THEOREM RoomComesBack == Spec => ReadingMakesRoom
<1>1. TypeOK /\ Geometry /\ [Next]_vars
        => [Youtube /\ fpc = "plan" /\ fpc' = "poll" /\ Back(fread) > 0
              => \A r \in (fread + 1)..max :
                   BufferSize - (max - r) - Lesser(r - min, backSize') > 0]_vars
  <2> SUFFICES ASSUME TypeOK, Geometry, [Next]_vars, Youtube, fpc = "plan", fpc' = "poll",
                      Back(fread) > 0, NEW r \in (fread + 1)..max
               PROVE  BufferSize - (max - r) - Lesser(r - min, backSize') > 0
    OBVIOUS
  <2>1. PlanFull
    <3>1. ~(DemuxThread \/ Client \/ UNCHANGED vars)
      BY ClientKeepsWindow DEF windowVars
    <3> QED
      BY <3>1 DEF Next, CacheThread, Snapshot, DropStore, Reseek, PlanFill, Fill, StoreEof,
                  StoreMax, StoreOffset, Poll, Refuse, NothingToExecute, ExecuteSeek,
                  ExecuteOther, Finish
  <2>2. /\ min \in Int /\ max \in Int /\ fread \in Int /\ BufferSize \in Int /\ r \in Int
        /\ backSize \in 0..BufferSize
    BY SizesAssumption DEF TypeOK, SharedOK, FillerOK
  <2>3. min <= fread /\ fread < r /\ r <= max /\ max <= min + BufferSize
    BY <2>2 DEF Geometry, Planned, Window
  <2>4. Back(fread) \in Nat /\ Back(fread) <= fread - min
    BY <2>2, <2>3 DEF Back, Lesser
  <2>5. Room(fread) = BufferSize - ((max - fread) + Back(fread))
    BY <2>2, <2>3 DEF Room, NewBytes
  <2>6. Room(fread) = 0
    <3>1. Room(fread) <= 0
      BY <2>1 DEF PlanFull, Limit
    <3> QED
      BY <3>1, <2>2, <2>3, <2>4, <2>5
  <2>7. backSize' = Back(fread)
    BY <2>1, <2>6 DEF PlanFull
  <2>8. Lesser(r - min, backSize') <= Back(fread) /\ Lesser(r - min, backSize') \in Int
    BY <2>2, <2>4, <2>7 DEF Lesser
  <2> QED
    BY <2>2, <2>3, <2>4, <2>5, <2>6, <2>8
<1> QED
  BY <1>1, GeometryInvariant, TypeCorrect, PTL DEF Spec, ReadingMakesRoom

-----------------------------------------------------------------------------
(* What is in the ring.                                                     *)
(* The cells that a fill overwrites hold no byte of the window.             *)
LEMMA FillKeepsFillInv ==
  ASSUME TypeOK, FillInv, Geometry', Fill
  PROVE  FillInv'
<1> USE SizesAssumption
<1>0. /\ min \in Int /\ max \in Int /\ offset \in Int /\ space \in Int
      /\ buffer \in [0..(BufferSize - 1) -> Int]
  BY DEF TypeOK, SharedOK, FillerOK
<1>1. /\ fpc = "fill" /\ UNCHANGED <<min, max, offset, pos, control>>
      /\ fpc' = IF len' = 0 THEN "eof" ELSE "max"
  BY DEF Fill
<1>2. /\ pos = max - offset /\ 0 < space /\ space <= BufferSize - pos
      /\ max + space <= min + BufferSize /\ src = max
  BY <1>1 DEF FillInv, Geometry, Planned, InStep
<1>3. PICK n \in Int : len' = n /\ 0 <= n /\ n <= space /\ src' = src + n
  BY FillLength DEF FillInv
<1>4. /\ min <= max /\ max <= min + BufferSize /\ offset <= max
      /\ offset <= min + BufferSize /\ max < offset + BufferSize
  BY <1>1 DEF FillInv, Geometry, Window
<1>5. \A i \in 0..(n - 1) : buffer'[pos + i] = max + i
  BY <1>0, <1>2, <1>3, <1>4 DEF Fill
<1>6. InStep'
  <2>1. src' = IF n = 0 THEN max ELSE max + n
    BY <1>0, <1>2, <1>3
  <2> QED
    BY <2>1, <1>1, <1>3 DEF InStep
<1>7. RingHoldsFile'
  <2> SUFFICES ASSUME NEW p \in min..(max - 1) PROVE buffer'[Slot(p)] = p
    BY <1>1 DEF RingHoldsFile, Slot
  <2>1. CASE p < offset
    <3>1. Slot(p) = p - offset + BufferSize
      BY <2>1, <1>0 DEF Slot
    <3>2. Slot(p) \in 0..(BufferSize - 1) /\ pos + n <= Slot(p)
      BY <2>1, <3>1, <1>0, <1>2, <1>3, <1>4
    <3> QED
      BY <3>2, <1>0, <1>1, <1>2, <1>3 DEF Fill, FillInv, RingHoldsFile
  <2>2. CASE offset <= p
    <3>1. Slot(p) = p - offset
      BY <2>2, <1>0, <1>4 DEF Slot
    <3>2. Slot(p) \in 0..(BufferSize - 1) /\ Slot(p) < pos
      BY <2>2, <3>1, <1>0, <1>2, <1>4
    <3> QED
      BY <3>2, <1>0, <1>1, <1>2, <1>3 DEF Fill, FillInv, RingHoldsFile
  <2> QED
    BY <2>1, <2>2, <1>0
<1>8. Stored'
  BY <1>1, <1>3, <1>5 DEF Stored
<1> QED
  BY <1>1, <1>6, <1>7, <1>8 DEF FillInv

(* Raising max_filepos takes the stored cells into the window.              *)
LEMMA StoreMaxKeepsFillInv ==
  ASSUME TypeOK, FillInv, Geometry', StoreMax
  PROVE  FillInv'
<1> USE SizesAssumption DEF TypeOK, SharedOK, FillerOK
<1>1. /\ fpc = "max" /\ max' = max + len /\ UNCHANGED <<min, offset, buffer, src, control>>
      /\ fpc' = IF pos + len >= BufferSize THEN "wrap" ELSE "poll"
  BY DEF StoreMax
<1>2. /\ pos = max - offset /\ 0 < len /\ len <= BufferSize - pos
      /\ max + len <= min + BufferSize /\ src = max + len
      /\ \A i \in 0..(len - 1) : buffer[pos + i] = max + i
  BY <1>1 DEF FillInv, Geometry, Planned, InStep, Stored
<1>3. min <= max /\ offset <= max /\ offset <= min + BufferSize /\ max < offset + BufferSize
  BY <1>1 DEF FillInv, Geometry, Window
<1>4. RingHoldsFile'
  <2> SUFFICES ASSUME NEW p \in min..(max + len - 1) PROVE buffer[Slot(p)] = p
    BY <1>1 DEF RingHoldsFile, Slot
  <2>1. CASE p < max
    BY <2>1, <1>1 DEF FillInv, RingHoldsFile
  <2>2. CASE max <= p
    <3>1. Slot(p) = pos + (p - max) /\ p - max \in 0..(len - 1) /\ max + (p - max) = p
      BY <2>2, <1>2, <1>3 DEF Slot
    <3>2. buffer[pos + (p - max)] = max + (p - max)
      BY <3>1, <1>2
    <3> QED
      BY <3>1, <3>2
  <2> QED
    BY <2>1, <2>2
<1>5. InStep' /\ Stored'
  BY <1>1, <1>2 DEF InStep, Stored
<1> QED
  BY <1>1, <1>4, <1>5 DEF FillInv

(* At the end of the ring the offset moves one ring on; every position of   *)
(* the window keeps its cell.                                               *)
LEMMA SlotsStay ==
  ASSUME TypeOK, Geometry, StoreOffset, NEW p \in min..(max - 1)
  PROVE  Slot(p)' = Slot(p)
<1>1. max = offset + BufferSize /\ max <= min + BufferSize /\ offset' = offset + BufferSize
  BY DEF StoreOffset, Geometry, Window
<1> QED
  BY <1>1, SizesAssumption DEF Slot, TypeOK, SharedOK

LEMMA StoreOffsetKeepsFillInv ==
  ASSUME TypeOK, FillInv, Geometry', StoreOffset
  PROVE  FillInv'
<1>1. /\ fpc = "wrap" /\ fpc' = "poll"
      /\ UNCHANGED <<min, max, buffer, src, control>>
  BY DEF StoreOffset
<1>2. RingHoldsFile'
  <2> SUFFICES ASSUME NEW p \in min..(max - 1) PROVE buffer[Slot(p)'] = p
    BY <1>1 DEF RingHoldsFile
  <2> QED
    BY <1>1, SlotsStay DEF FillInv, RingHoldsFile
<1>3. InStep' /\ Stored'
  BY <1>1 DEF FillInv, InStep, Stored
<1> QED
  BY <1>1, <1>2, <1>3 DEF FillInv

LEMMA DropStoreKeepsFillInv ==
  ASSUME TypeOK, FillInv, Geometry', DropStore
  PROVE  FillInv'
<1>1. fpc = "drop" /\ fpc' \in {"drop", "reseek"} /\ fread' = fread
  BY DropStoreKeepsGeometry DEF FillInv
<1>2. fread \in Int /\ control' = control
  BY DEF TypeOK, FillerOK, DropStore
<1>3. RingHoldsFile'
  BY <1>1, <1>2 DEF RingHoldsFile, Geometry, Dropping
<1>4. InStep' /\ Stored'
  BY <1>1 DEF InStep, Stored
<1> QED
  BY <1>2, <1>3, <1>4 DEF FillInv

LEMMA FillInvStep ==
  ASSUME SeekMayFail = FALSE, "seektime" \notin Requests,
         TypeOK, FillInv, Geometry', [Next]_vars
  PROVE  FillInv'
<1>0. control # "seektime"
  BY DEF FillInv
<1>1. CASE Snapshot
  <2>1. /\ fpc = "snap" /\ fpc' \in {"drop", "plan"}
        /\ UNCHANGED <<min, max, offset, buffer, src, control>>
    BY <1>1 DEF Snapshot
  <2> QED
    BY <2>1 DEF FillInv, InStep, Stored, RingHoldsFile, Slot
<1>2. CASE DropStore
  BY <1>2, DropStoreKeepsFillInv
<1>3. CASE Reseek
  <2>1. /\ fpc = "reseek" /\ fpc' = "plan" /\ src' = fread
        /\ UNCHANGED <<min, max, offset, buffer, control>>
    BY <1>3 DEF Reseek
  <2>2. max = fread
    BY <2>1 DEF FillInv, Geometry, Dropping
  <2> QED
    BY <2>1, <2>2 DEF FillInv, InStep, Stored, RingHoldsFile, Slot
<1>4. CASE PlanFill
  <2>1. /\ fpc = "plan" /\ fpc' = "fill"
        /\ UNCHANGED <<max, offset, buffer, src, control>>
    BY <1>4 DEF PlanFill
  <2>2. min' \in Int /\ min <= min' /\ min \in Int /\ max \in Int
    BY <1>4, PlanFillKeepsGeometry DEF FillInv, TypeOK, SharedOK
  <2>3. RingHoldsFile'
    <3> SUFFICES ASSUME NEW p \in min'..(max - 1) PROVE buffer[Slot(p)] = p
      BY <2>1 DEF RingHoldsFile, Slot
    <3>1. p \in min..(max - 1)
      BY <2>2
    <3> QED
      BY <3>1, <2>1 DEF RingHoldsFile, FillInv
  <2> QED
    BY <2>1, <2>3 DEF FillInv, InStep, Stored
<1>5. CASE Fill
  BY <1>5, FillKeepsFillInv
<1>6. CASE StoreMax
  BY <1>6, StoreMaxKeepsFillInv
<1>7. CASE StoreOffset
  BY <1>7, StoreOffsetKeepsFillInv
<1>8. CASE Aside
  <2>1. /\ UNCHANGED <<min, max, offset, buffer, src>>
        /\ fpc \in Between \union {"plan"} /\ fpc' \in Between /\ control' # "seektime"
    BY <1>0, <1>8 DEF Aside, PlanFull, StoreEof, Poll, Refuse, NothingToExecute,
                      ExecuteSeek, ExecuteOther, Finish, Between
  <2> QED
    BY <2>1 DEF FillInv, InStep, Stored, RingHoldsFile, Slot, Between
<1>9. CASE DemuxThread \/ Client \/ UNCHANGED vars
  <2>1. UNCHANGED windowVars /\ UNCHANGED <<buffer, src>>
    BY <1>9, ClientKeepsWindow
  <2>2. control' # "seektime"
    BY <1>0, <1>9 DEF DemuxThread, Client, ClearEof, CheckMax, CheckMin, CheckEof, LoadMax,
       LoadOffset, Copy, Advance, Return, Answered, QuitAnswered, Join, Consume, Read,
       SeekInBuffer, SeekLong, Request
  <2> QED
    BY <2>1, <2>2 DEF windowVars, FillInv, InStep, Stored, RingHoldsFile, Slot
<1> QED
  BY <1>1, <1>2, <1>3, <1>4, <1>5, <1>6, <1>7, <1>8, <1>9 DEF Next, CacheThread, Aside

(* The inductive invariant holds of every run whose source obeys.           *)
THEOREM FillInvariant ==
  ASSUME SeekMayFail = FALSE, "seektime" \notin Requests
  PROVE  Spec => []FillInv
<1>1. Init /\ Geometry => FillInv
  BY DEF Init, FillInv, InStep, Stored, RingHoldsFile
<1>2. TypeOK /\ Geometry' /\ FillInv /\ [Next]_vars => FillInv'
  BY FillInvStep
<1> QED
  BY <1>1, <1>2, TypeCorrect, GeometryInvariant, PTL DEF Spec

(* The window of the ring holds the bytes of the file, for a source that    *)
(* goes where cache_fill sends it, under any reads and seeks of the client. *)
THEOREM RingFaithful ==
  ASSUME SeekMayFail = FALSE, "seektime" \notin Requests
  PROVE  Spec => []RingHoldsFile
<1>1. FillInv => RingHoldsFile
  BY DEF FillInv
<1> QED
  BY <1>1, FillInvariant, PTL
=============================================================================

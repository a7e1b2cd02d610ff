------------------------------- MODULE Cache2 -------------------------------
(***************************************************************************)
(* The stream cache of MPlayer, stream/cache2.c: a ring buffer that holds  *)
(* a window of a file, filled by the cache thread (cache_thread) and read  *)
(* by the demuxing thread through cache_stream_fill_buffer.  The threads   *)
(* share the cache_vars_t and take no lock around it, so a load or a store *)
(* of a field that the other thread writes is a step of its own here.      *)
(*                                                                         *)
(* Data is abstract: the byte of the file at position p is the integer p.  *)
(* A wait, pwait_event_timeout, ends by a signal or after one second, and  *)
(* the code re-reads the shared state either way: it is a step that is     *)
(* always enabled, and the wake-ups need no state of their own.            *)
(***************************************************************************)
EXTENDS Integers, Sequences

CONSTANTS
  SectorSize,   \* cache_vars_t.sector_size, the bytes one fill of the reader asks for
  BufferSize,   \* cache_vars_t.buffer_size
  BackSize,     \* the initial back_size: buffer_size/2
  FillLimit,    \* fill_limit: 8 sectors in cache_init
  FillMax,      \* the most one cache_fill reads: 4 sectors
  SeekLimit,    \* seek_limit after the clamp in stream_enable_cache
  FileSize,     \* bytes the source delivers before its end
  InOrder,      \* TRUE: the stores of the drop are done from right to left
  Linear,       \* TRUE: STREAMTYPE_STREAM and not a seekable skynet stream
  Youtube,      \* the global flag youtube
  HasControl,   \* stream->control is not NULL
  SeekMayFail,  \* the source cannot seek, or its seek may fail
  Seeks,        \* directions the client seeks in
  MaxSeeks,     \* bound: its seeks outside stream->buffer and to a time
  Requests      \* control requests the client makes

(* What cache_init and stream_enable_cache establish, in sectors: at least  *)
(* 16 in the ring, fill_limit 8, one fill 4, seek_limit <= ring - 8.        *)
ASSUME SizesAssumption ==
  /\ SectorSize \in Nat \ {0} /\ FillMax \in Nat \ {0} /\ FileSize \in Nat
  /\ BufferSize \in Nat \ {0} /\ BackSize \in 0..BufferSize
  /\ FillLimit \in FillMax..(BufferSize - 1)
  /\ SeekLimit \in Int /\ SeekLimit <= BufferSize - FillLimit
ASSUME ModesAssumption ==
  /\ {InOrder, Linear, Youtube, HasControl, SeekMayFail} \subseteq BOOLEAN
  /\ Seeks \subseteq {"forward", "backward"} /\ MaxSeeks \in Nat
  /\ Requests \subseteq {"get", "seektime", "quit"}

VARIABLES
  (* cache_vars_t, shared by the two threads *)
  eof, min, max, offset, read, backSize, buffer, control, newPos, controlRes,
  (* the cache thread: program counter and locals of cache_fill *)
  fpc, fread, stores, pos, space, len, quit,
  (* stream2, the copy of the stream that only the cache thread uses *)
  src, srcEof,
  (* the demuxing thread: program counter, locals, and its stream_t *)
  rpc, cmd, target, newb, rpos, spos, sbuf, bufpos, seof,
  seeks   \* how often the client has sought

shared == <<eof, min, max, offset, read, backSize, buffer, control, newPos, controlRes>>
locals == <<fpc, fread, stores, pos, space, len, quit>>
source == <<src, srcEof>>
client == <<rpc, cmd, target, newb, rpos, spos, sbuf, bufpos, seof, seeks>>
vars == <<shared, locals, source, client>>

Hole == -1   \* a cell of the ring that nothing was stored in yet

Lesser(a, b) == IF a <= b THEN a ELSE b

Init ==
  /\ eof = FALSE /\ min = 0 /\ max = 0 /\ offset = 0 /\ read = 0
  /\ backSize = BackSize /\ buffer = [i \in 0..(BufferSize - 1) |-> Hole]
  /\ control = "reset" /\ newPos = 0 /\ controlRes = "ok"
  /\ fpc = "snap" /\ fread = 0 /\ stores = {} /\ pos = 0 /\ space = 0
  /\ len = 0 /\ quit = FALSE
  /\ src = 0 /\ srcEof = FALSE
  /\ rpc = "idle" /\ cmd = "read" /\ target = 0 /\ newb = 0 /\ rpos = 0
  /\ spos = 0 /\ sbuf = <<>> /\ bufpos = 0 /\ seof = FALSE
  /\ seeks = 0

-----------------------------------------------------------------------------
(* The cache thread: cache_fill, then cache_execute_control, for ever.      *)

(* Mutant: the bytes behind the reader do not count as used.                *)
BackForgotten(r) == 0

(* Bytes kept behind position r for seeking back, bytes cached from r on,   *)
(* and the room that is left in the ring.                                   *)
Back(r) == IF r < min THEN 0 ELSE Lesser(r - min, backSize)
NewBytes(r) == IF max < r THEN 0 ELSE max - r
Room(r) == BufferSize - (NewBytes(r) + Back(r))
(* Mutant: the limit of a fill taken from the wrong field.                  *)
LimitOfBack == BackSize

Limit == IF Youtube THEN 0 ELSE FillLimit

(* The ring index of the next byte to store, wrapped around. *)
FillPos == IF max - offset >= BufferSize THEN max - offset - BufferSize ELSE max - offset

(* The window is dropped when the reader left it, unless a linear stream    *)
(* can reach the position by reading on.                                    *)
DropNeeded(r) ==
  /\ r < min \/ r > max
  /\ ~Linear \/ r < min \/ r >= max + SeekLimit

(* Mutant: the drop leaves the offset of the old window.                    *)
SnapshotKeepOffset ==
  /\ fpc = "snap"
  /\ fread' = read
  /\ IF DropNeeded(read)
       THEN fpc' = "drop" /\ stores' = {"max", "min"}
       ELSE fpc' = "plan" /\ stores' = {}
  /\ UNCHANGED <<shared, pos, space, len, quit, source, client>>

(* cache_fill loads read_filepos once and works with that copy. *)
Snapshot ==
  /\ fpc = "snap"
  /\ fread' = read
  /\ IF DropNeeded(read)
       THEN fpc' = "drop" /\ stores' = {"max", "min", "offset"}
       ELSE fpc' = "plan" /\ stores' = {}
  /\ UNCHANGED <<shared, pos, space, len, quit, source, client>>

(* offset = min = max = read.  A plain compiler stores from right to left;  *)
(* C and the memory of the machine leave the order open.                    *)
Storable(f) ==
  InOrder => CASE f = "max" -> TRUE [] f = "min" -> "max" \notin stores
               [] f = "offset" -> stores = {"offset"}

DropStore ==
  /\ fpc = "drop"
  /\ \E f \in stores :
       /\ Storable(f)
       /\ max' = IF f = "max" THEN fread ELSE max
       /\ min' = IF f = "min" THEN fread ELSE min
       /\ offset' = IF f = "offset" THEN fread ELSE offset
       /\ stores' = stores \ {f}
       /\ fpc' = IF stores = {f} THEN "reseek" ELSE "drop"
  /\ UNCHANGED <<eof, read, backSize, buffer, control, newPos, controlRes,
                 fread, pos, space, len, quit, source, client>>

(* stream_reset of a source at its end, then stream_seek, whose result the  *)
(* code does not look at: after a seek that fails, or that a source without *)
(* seek function cannot do, the next bytes come from where it was.          *)
Reseek ==
  /\ fpc = "reseek"
  /\ \/ src' = fread /\ srcEof' = (fread >= FileSize)
     \/ SeekMayFail /\ src' = src /\ srcEof' = FALSE
  /\ fpc' = "plan"
  /\ UNCHANGED <<shared, fread, stores, pos, space, len, quit, client>>

(* Mutant: a full ring keeps its back_size, youtube or not.                 *)
PlanFullKeepBack ==
  /\ fpc = "plan" /\ Room(fread) <= Limit
  /\ fpc' = "poll"
  /\ UNCHANGED <<shared, fread, stores, pos, space, len, quit, source, client>>

(* The ring has no room above the limit: cache_fill returns 0 and the       *)
(* thread waits on cachecond, one second at most.  A youtube stream first   *)
(* gives up the back bytes it does not have.                                *)
PlanFull ==
  /\ fpc = "plan"
  /\ Room(fread) <= Limit
  /\ backSize' = IF Youtube /\ Room(fread) = 0 /\ Back(fread) > 0
                   THEN Back(fread) ELSE backSize
  /\ fpc' = "poll"
  /\ UNCHANGED <<eof, min, max, offset, read, buffer, control, newPos, controlRes,
                 fread, stores, pos, space, len, quit, source, client>>

(* Mutant: back2 does not count the bytes about to be stored.               *)
PlanFillShort ==
  /\ fpc = "plan" /\ Room(fread) > Limit
  /\ pos' = FillPos
  /\ space' = Lesser(Lesser(Room(fread), BufferSize - pos'), FillMax)
  /\ LET back2 == BufferSize - NewBytes(fread)
     IN  min' = IF min < fread - back2 THEN fread - back2 ELSE min
  /\ fpc' = "fill"
  /\ UNCHANGED <<eof, max, offset, read, backSize, buffer, control, newPos, controlRes,
                 fread, stores, len, quit, source, client>>

(* Mutant: a fill is not stopped at the end of the ring.                    *)
PlanFillUnclipped ==
  /\ fpc = "plan" /\ Room(fread) > Limit
  /\ pos' = FillPos
  /\ space' = Lesser(Room(fread), FillMax)
  /\ LET back2 == BufferSize - (space' + NewBytes(fread))
     IN  min' = IF min < fread - back2 THEN fread - back2 ELSE min
  /\ fpc' = "fill"
  /\ UNCHANGED <<eof, max, offset, read, backSize, buffer, control, newPos, controlRes,
                 fread, stores, len, quit, source, client>>

(* One fill stops at the end of the ring and at FillMax; min_filepos is     *)
(* raised past the bytes that it is about to overwrite.                     *)
PlanFill ==
  /\ fpc = "plan"
  /\ Room(fread) > Limit
  /\ pos' = FillPos
  /\ space' = Lesser(Lesser(Room(fread), BufferSize - pos'), FillMax)
  /\ LET back2 == BufferSize - (space' + NewBytes(fread))
     IN  min' = IF min < fread - back2 THEN fread - back2 ELSE min
  /\ fpc' = "fill"
  /\ UNCHANGED <<eof, max, offset, read, backSize, buffer, control, newPos, controlRes,
                 fread, stores, len, quit, source, client>>

(* Mutants: a short read taken for the end; FillMax bytes stored, whatever  *)
(* the space.                                                               *)
FillShortIsEof ==
  /\ fpc = "fill"
  /\ len' = IF srcEof \/ src >= FileSize THEN 0 ELSE Lesser(space, FileSize - src)
  /\ srcEof' = (len' < space)
  /\ src' = src + len'
  /\ buffer' = [i \in 0..(BufferSize - 1) |->
                 IF i >= pos /\ i < pos + len' THEN src + (i - pos) ELSE buffer[i]]
  /\ fpc' = IF srcEof' THEN "eof" ELSE "max"
  /\ UNCHANGED <<eof, min, max, offset, read, backSize, control, newPos, controlRes,
                 fread, stores, pos, space, quit, client>>

FillBeyondSpace ==
  /\ fpc = "fill"
  /\ len' = IF srcEof \/ src >= FileSize THEN 0 ELSE Lesser(FillMax, FileSize - src)
  /\ srcEof' = (len' < FillMax)
  /\ src' = src + len'
  /\ buffer' = [i \in 0..(BufferSize - 1) \cup pos..(pos + len' - 1) |->
                 IF i >= pos /\ i < pos + len' THEN src + (i - pos) ELSE buffer[i]]
  /\ fpc' = IF len' = 0 THEN "eof" ELSE "max"
  /\ UNCHANGED <<eof, min, max, offset, read, backSize, control, newPos, controlRes,
                 fread, stores, pos, space, quit, client>>

(* stream_read(s->stream, &s->buffer[pos], space): short only at the end.   *)
Fill ==
  /\ fpc = "fill"
  /\ len' = IF srcEof \/ src >= FileSize THEN 0 ELSE Lesser(space, FileSize - src)
  /\ srcEof' = (len' < space)
  /\ src' = src + len'
  /\ buffer' = [i \in 0..(BufferSize - 1) |->
                 IF i >= pos /\ i < pos + len' THEN src + (i - pos) ELSE buffer[i]]
  /\ fpc' = IF len' = 0 THEN "eof" ELSE "max"
  /\ UNCHANGED <<eof, min, max, offset, read, backSize, control, newPos, controlRes,
                 fread, stores, pos, space, quit, client>>

StoreEof ==
  /\ fpc = "eof"
  /\ eof' = TRUE
  /\ fpc' = "poll"
  /\ UNCHANGED <<min, max, offset, read, backSize, buffer, control, newPos, controlRes,
                 fread, stores, pos, space, len, quit, source, client>>

StoreMax ==
  /\ fpc = "max"
  /\ max' = max + len
  /\ fpc' = IF pos + len >= BufferSize THEN "wrap" ELSE "poll"
  /\ UNCHANGED <<eof, min, offset, read, backSize, buffer, control, newPos, controlRes,
                 fread, stores, pos, space, len, quit, source, client>>

StoreOffset ==
  /\ fpc = "wrap"
  /\ offset' = offset + BufferSize
  /\ fpc' = "poll"
  /\ UNCHANGED <<eof, min, max, read, backSize, buffer, control, newPos, controlRes,
                 fread, stores, pos, space, len, quit, source, client>>

(* The first line of cache_execute_control.  The locals of cache_fill are   *)
(* dead by now, and set to 0 to keep the state space small.                 *)
Poll ==
  /\ fpc = "poll"
  /\ quit' = (control = "quit")
  /\ fpc' = IF quit' \/ ~HasControl THEN "refuse" ELSE "execute"
  /\ fread' = 0 /\ pos' = 0 /\ space' = 0 /\ len' = 0
  /\ UNCHANGED <<shared, stores, source, client>>

(* Told to quit, or the stream has no control function. *)
Refuse ==
  /\ fpc = "refuse"
  /\ newPos' = 0 /\ controlRes' = "unsupported" /\ control' = "none"
  /\ fpc' = IF quit THEN "done" ELSE "snap"
  /\ UNCHANGED <<eof, min, max, offset, read, backSize, buffer,
                 fread, stores, pos, space, len, quit, source, client>>

NothingToExecute ==
  /\ fpc = "execute" /\ control = "none"
  /\ fpc' = "snap"
  /\ UNCHANGED <<shared, fread, stores, pos, space, len, quit, source, client>>

(* Mutant: a driver that declines returns before control is cleared.        *)
ExecuteSeekReturns ==
  /\ fpc = "execute" /\ control = "seektime"
  /\ \/ src' \in 0..FileSize /\ controlRes' = "ok" /\ fpc' = "finish"
     \/ src' = src /\ controlRes' = "unsupported" /\ fpc' = "snap"
  /\ newPos' = src'
  /\ UNCHANGED <<eof, min, max, offset, read, backSize, buffer, control,
                 fread, stores, pos, space, len, quit, srcEof, client>>

(* STREAM_CTRL_SEEK_TO_TIME and the like: the driver moves the source to    *)
(* a position of its own choice, or declines and leaves it where it is.     *)
ExecuteSeek ==
  /\ fpc = "execute" /\ control = "seektime"
  /\ \/ src' \in 0..FileSize /\ controlRes' = "ok"
     \/ src' = src /\ controlRes' = "unsupported"
  /\ newPos' = src'
  /\ fpc' = "finish"
  /\ UNCHANGED <<eof, min, max, offset, read, backSize, buffer, control,
                 fread, stores, pos, space, len, quit, srcEof, client>>

(* Any other command; a quit that arrived after Poll is a default case.     *)
ExecuteOther ==
  /\ fpc = "execute" /\ control \in {"get", "reset", "quit"}
  /\ controlRes' = IF control = "get" THEN "ok" ELSE "unsupported"
  /\ newPos' = src
  /\ fpc' = "finish"
  /\ UNCHANGED <<eof, min, max, offset, read, backSize, buffer, control,
                 fread, stores, pos, space, len, quit, source, client>>

Finish ==
  /\ fpc = "finish"
  /\ control' = "none"
  /\ fpc' = "snap"
  /\ UNCHANGED <<eof, min, max, offset, read, backSize, buffer, newPos, controlRes,
                 fread, stores, pos, space, len, quit, source, client>>

CacheThread ==
  \/ Snapshot \/ DropStore \/ Reseek \/ PlanFull \/ PlanFill \/ Fill
  \/ StoreEof \/ StoreMax \/ StoreOffset
  \/ Poll \/ Refuse \/ NothingToExecute \/ ExecuteSeek \/ ExecuteOther \/ Finish

-----------------------------------------------------------------------------
(* The demuxing thread.  Its client reads, seeks and sends requests.        *)

Tell == spos + bufpos - Len(sbuf)

Targets ==
  {p \in 0..(FileSize + SectorSize) : \/ p >= Tell /\ "forward" \in Seeks
                                      \/ p < Tell /\ "backward" \in Seeks}

(* stream_read takes bytes out of stream->buffer. *)
Consume ==
  /\ rpc = "idle"
  /\ bufpos' \in (bufpos + 1)..Len(sbuf)
  /\ UNCHANGED <<shared, locals, source, rpc, cmd, target, newb, rpos, spos, sbuf, seof, seeks>>

(* stream_read, buffer empty: cache_stream_fill_buffer calls cache_read.    *)
Read ==
  /\ rpc = "idle" /\ bufpos = Len(sbuf) /\ ~seof
  /\ cmd' = "read" /\ sbuf' = <<>> /\ bufpos' = 0
  /\ rpc' = "check"
  /\ UNCHANGED <<shared, locals, source, target, newb, rpos, spos, seof, seeks>>

(* stream_seek inside stream->buffer. *)
SeekInBuffer ==
  /\ rpc = "idle" /\ ~seof
  /\ \E p \in Targets : /\ p < spos /\ p >= spos - Len(sbuf)
                        /\ bufpos' = p - (spos - Len(sbuf))
  /\ UNCHANGED <<shared, locals, source, rpc, cmd, target, newb, rpos, spos, sbuf, seof, seeks>>

(* stream_seek elsewhere: cache_stream_seek_long stores the aligned         *)
(* position, then clears eof, then fills.  At the end of the stream the     *)
(* demuxers call stream_reset first, which clears stream->eof.              *)
SeekLong ==
  /\ rpc = "idle" /\ seeks < MaxSeeks /\ seeks' = seeks + 1
  /\ \E p \in Targets :
       /\ seof \/ p >= spos \/ p < spos - Len(sbuf)
       /\ target' = p
       /\ spos' = (p \div SectorSize) * SectorSize
  /\ read' = spos' /\ seof' = FALSE
  /\ cmd' = "seek" /\ rpc' = "clear" /\ sbuf' = <<>> /\ bufpos' = 0
  /\ UNCHANGED <<eof, min, max, offset, backSize, buffer, control, newPos, controlRes,
                 locals, source, newb, rpos>>

ClearEof ==
  /\ rpc = "clear"
  /\ eof' = FALSE
  /\ rpc' = "check"
  /\ UNCHANGED <<min, max, offset, read, backSize, buffer, control, newPos, controlRes,
                 locals, source, cmd, target, newb, rpos, spos, sbuf, bufpos, seof, seeks>>

(* cache_read: is the position inside the window?  max is loaded, then min. *)
CheckMax ==
  /\ rpc = "check"
  /\ rpc' = IF read >= max THEN "empty" ELSE "checkmin"
  /\ UNCHANGED <<shared, locals, source, cmd, target, newb, rpos, spos, sbuf, bufpos, seof, seeks>>

CheckMin ==
  /\ rpc = "checkmin"
  /\ rpc' = IF read < min THEN "empty" ELSE "newb"
  /\ UNCHANGED <<shared, locals, source, cmd, target, newb, rpos, spos, sbuf, bufpos, seof, seeks>>

(* Outside the window: give up at eof, else wait on readcond and try again. *)
CheckEof ==
  /\ rpc = "empty"
  /\ rpc' = IF eof THEN "return" ELSE "check"
  /\ UNCHANGED <<shared, locals, source, cmd, target, newb, rpos, spos, sbuf, bufpos, seof, seeks>>

LoadMax ==
  /\ rpc = "newb"
  /\ newb' = max - read
  /\ rpc' = "offset"
  /\ UNCHANGED <<shared, locals, source, cmd, target, rpos, spos, sbuf, bufpos, seof, seeks>>

(* Mutant: a position below the offset is not wrapped.                      *)
SlotUnwrapped(p) == IF p - offset >= BufferSize THEN p - offset - BufferSize ELSE p - offset

(* The ring index of the byte at read, and the bytes to copy from there.    *)
Slot(p) == IF p < offset THEN p - offset + BufferSize
           ELSE IF p - offset >= BufferSize THEN p - offset - BufferSize ELSE p - offset

LoadOffset ==
  /\ rpc = "offset"
  /\ rpos' = Slot(read)
  /\ newb' = Lesser(Lesser(newb, BufferSize - rpos'), SectorSize - Len(sbuf))
  /\ rpc' = "copy"
  /\ UNCHANGED <<shared, locals, source, cmd, target, spos, sbuf, bufpos, seof, seeks>>

(* memcpy.  A negative count or an index outside the ring is the end of     *)
(* the program.                                                             *)
InRing == newb >= 0 /\ (newb > 0 => rpos >= 0 /\ rpos + newb <= BufferSize)

Copy ==
  /\ rpc = "copy" /\ InRing
  /\ sbuf' = sbuf \o [i \in 1..newb |-> buffer[rpos + i - 1]]
  /\ rpc' = "advance"
  /\ UNCHANGED <<shared, locals, source, cmd, target, newb, rpos, spos, bufpos, seof, seeks>>

Advance ==
  /\ rpc = "advance"
  /\ read' = read + newb
  /\ rpc' = IF Len(sbuf) >= SectorSize THEN "return" ELSE "check"
  /\ newb' = 0 /\ rpos' = 0
  /\ UNCHANGED <<eof, min, max, offset, backSize, buffer, control, newPos, controlRes,
                 locals, source, cmd, target, spos, sbuf, bufpos, seof, seeks>>

(* Mutant: cache_stream_seek_long leaves buf_pos at the start of the sector.*)
ReturnAtSector ==
  /\ rpc = "return"
  /\ seof' = (sbuf = <<>>) /\ spos' = spos + Len(sbuf) /\ bufpos' = 0
  /\ rpc' = "idle" /\ cmd' = "read" /\ target' = 0
  /\ UNCHANGED <<shared, locals, source, newb, rpos, sbuf, seeks>>

(* Back in cache_stream_fill_buffer, and in cache_stream_seek_long after    *)
(* it.  Nothing read means the end of the stream.                           *)
Return ==
  /\ rpc = "return"
  /\ seof' = (sbuf = <<>>)
  /\ spos' = spos + Len(sbuf)
  /\ bufpos' = IF cmd = "seek" /\ target - spos <= Len(sbuf) THEN target - spos ELSE 0
  /\ rpc' = "idle" /\ cmd' = "read" /\ target' = 0
  /\ UNCHANGED <<shared, locals, source, newb, rpos, sbuf, seeks>>

(* cache_do_control: store the command and spin until it is -1 again.       *)
Request ==
  /\ rpc = "idle"
  /\ \E c \in Requests :
       /\ c = "quit" \/ HasControl
       /\ control' = c /\ cmd' = c
       /\ c = "seektime" => seeks < MaxSeeks
       /\ seeks' = IF c = "seektime" THEN seeks + 1 ELSE seeks
  /\ rpc' = "spin"
  /\ UNCHANGED <<eof, min, max, offset, read, backSize, buffer, newPos, controlRes,
                 locals, source, target, newb, rpos, spos, sbuf, bufpos, seof>>

Answered ==
  /\ rpc = "spin" /\ cmd # "quit" /\ control = "none"
  /\ IF cmd = "seektime" THEN spos' = newPos /\ read' = newPos
                         ELSE UNCHANGED <<spos, read>>
  /\ rpc' = "idle" /\ cmd' = "read"
  /\ UNCHANGED <<eof, min, max, offset, backSize, buffer, control, newPos, controlRes,
                 locals, source, target, newb, rpos, sbuf, bufpos, seof, seeks>>

(* cache_uninit: the answer, pthread_join, and the memory is freed.         *)
QuitAnswered ==
  /\ rpc = "spin" /\ cmd = "quit" /\ control = "none"
  /\ rpc' = "join"
  /\ UNCHANGED <<shared, locals, source, cmd, target, newb, rpos, spos, sbuf, bufpos, seof, seeks>>

Join ==
  /\ rpc = "join" /\ fpc = "done"
  /\ rpc' = "closed"
  /\ UNCHANGED <<shared, locals, source, cmd, target, newb, rpos, spos, sbuf, bufpos, seof, seeks>>

Client == Consume \/ Read \/ SeekInBuffer \/ SeekLong \/ Request

DemuxThread ==
  \/ ClearEof \/ CheckMax \/ CheckMin \/ CheckEof \/ LoadMax \/ LoadOffset
  \/ Copy \/ Advance \/ Return \/ Answered \/ QuitAnswered \/ Join

Next == CacheThread \/ DemuxThread \/ Client

(* Both threads are scheduled; nothing obliges the client to act.           *)
Spec == Init /\ [][Next]_vars /\ WF_vars(CacheThread) /\ WF_vars(DemuxThread)

-----------------------------------------------------------------------------
(* Properties.                                                              *)

ControlStates == {"reset", "none", "get", "seektime", "quit"}

(* The types of the shared fields, the locals and the two stream_t's.       *)
SharedOK ==
  /\ eof \in BOOLEAN /\ min \in Int /\ max \in Int /\ offset \in Int /\ read \in Int
  /\ backSize \in 0..BufferSize /\ buffer \in [0..(BufferSize - 1) -> Int]
  /\ control \in ControlStates /\ newPos \in Int /\ controlRes \in {"ok", "unsupported"}

FillerOK ==
  /\ fpc \in {"snap", "drop", "reseek", "plan", "fill", "eof", "max", "wrap",
              "poll", "refuse", "execute", "finish", "done"}
  /\ stores \subseteq {"max", "min", "offset"} /\ quit \in BOOLEAN
  /\ fread \in Int /\ pos \in Int /\ space \in Int /\ len \in Int
  /\ src \in Int /\ srcEof \in BOOLEAN

ClientOK ==
  /\ rpc \in {"idle", "clear", "check", "checkmin", "empty", "newb", "offset", "copy",
              "advance", "return", "spin", "join", "closed"}
  /\ cmd \in {"read", "seek", "get", "seektime", "quit"}
  /\ target \in Int /\ newb \in Int /\ rpos \in Int /\ spos \in Int /\ bufpos \in Int
  /\ sbuf \in Seq(Int) /\ seof \in BOOLEAN /\ seeks \in 0..MaxSeeks

TypeOK == SharedOK /\ FillerOK /\ ClientOK

(* The comment of cache_vars_t, "buffer contain only a part of the file,    *)
(* from min-max pos": outside the drop, the cell of every position of the   *)
(* window holds the byte of that position, whatever the reader does.        *)
RingHoldsFile ==
  fpc # "drop" => \A p \in min..(max - 1) : buffer[Slot(p)] = p

(* The window fits the ring, and a fill that is under way fits beside it:   *)
(* the bytes a fill overwrites are outside the window it has announced.     *)
WindowFits ==
  fpc # "drop" => /\ min <= max /\ max - min <= BufferSize
                  /\ fpc = "fill" => max + space - min <= BufferSize

(* The memcpy of cache_read stays inside the ring.                          *)
CopyInRing == rpc = "copy" => InRing

(* What the demuxer finds in stream->buffer are the bytes of the positions  *)
(* that stream_tell gives them.                                             *)
DeliveredRight ==
  rpc = "idle" => \A i \in 1..Len(sbuf) : sbuf[i] = spos - Len(sbuf) + i - 1

(* The demuxer is told of the end of the stream only at the end.            *)
EofAtEnd == seof => spos >= FileSize

(* Weaker: when the demuxer is told of the end, the source has ended and    *)
(* every byte up to the end is in the window or was there.                  *)
EofAfterSource == seof => srcEof /\ max >= FileSize

(* The comment of back_size, "we should keep back_size amount of old bytes  *)
(* for backward seek": raising min_filepos never gives up more than that.   *)
BackKept ==
  [][min' # min /\ fpc = "plan" => fread - min' >= Lesser(fread - min, backSize)]_vars

(* A fill of stream->buffer returns: with data, or with the end.            *)
ReadReturns == (rpc = "check") ~> (rpc = "idle")

(* A control request is answered.                                           *)
RequestAnswered == (rpc = "spin") ~> (rpc # "spin")

(* The answer to a request is the answer of the driver to that request.     *)
RequestExecuted ==
  [][rpc = "spin" /\ cmd = "get" /\ rpc' = "idle" => controlRes = "ok"]_vars

(* cache_uninit returns: the cache thread it joins has ended.               *)
QuitJoins == (rpc = "join") ~> (rpc = "closed")

(* The comment "we set back_size to current back to avoid this issue": when *)
(* a youtube ring is full, the next byte that is read makes room in it.     *)
ReadingMakesRoom ==
  [][Youtube /\ fpc = "plan" /\ fpc' = "poll" /\ Back(fread) > 0
       => \A r \in (fread + 1)..max : BufferSize - (max - r) - Lesser(r - min, backSize') > 0]_vars

-----------------------------------------------------------------------------
(* The inductive invariants.  Geometry, behind WindowFits, speaks of the     *)
(* cache thread alone: the demuxing thread writes none of its fields.       *)

Dropping ==
  /\ fpc = "drop" => /\ stores # {}
                     /\ "max" \notin stores => max = fread
                     /\ "min" \notin stores => min = fread
                     /\ "offset" \notin stores => offset = fread
  /\ fpc = "reseek" => max = fread /\ min = fread /\ offset = fread

(* Outside the drop: the window fits the ring, and the offset is the        *)
(* position of a ring start no more than one ring from either end of it.    *)
Window ==
  fpc # "drop" =>
    /\ min <= max /\ max <= min + BufferSize /\ offset <= max
    /\ offset <= min + BufferSize
    /\ IF fpc = "wrap" THEN max = offset + BufferSize ELSE max < offset + BufferSize

(* The plan of a fill leaves the window room beside the cells it stores.    *)
Planned ==
  /\ fpc = "plan" => /\ min <= fread
                     /\ fread <= max \/ fread < max + SeekLimit
  /\ fpc \in {"fill", "max"} => pos = max - offset
  /\ fpc = "fill" => /\ 0 < space /\ space <= BufferSize - pos
                     /\ max + space <= min + BufferSize
  /\ fpc = "max" => /\ 0 < len /\ len <= BufferSize - pos
                    /\ max + len <= min + BufferSize

Geometry == Dropping /\ Window /\ Planned

(* The source stands where the window ends, or where the cells end that     *)
(* were stored before max is raised.                                        *)
InStep ==
  fpc \notin {"drop", "reseek"} => src = IF fpc = "max" THEN max + len ELSE max

Stored == fpc = "max" => \A i \in 0..(len - 1) : buffer[pos + i] = max + i

(* Behind RingHoldsFile: what is in the ring, for a source that obeys.      *)
FillInv == Geometry /\ InStep /\ Stored /\ RingHoldsFile /\ control # "seektime"

-----------------------------------------------------------------------------
(* Behind CopyInRing, EofAfterSource and the promise of ByteStream: a client*)
(* that only goes forward, and a ring that keeps a sector behind it.        *)

(* The start of the sector of p, where cache_stream_seek_long begins to     *)
(* read: it may lie before the position of a client that was given part of  *)
(* a sector.                                                                *)
Sector(p) == (p \div SectorSize) * SectorSize

(* The demuxing thread is not inside cache_read.                            *)
Resting == rpc \in {"idle", "spin", "join", "closed"}

(* cache_read has found its position in the window.                         *)
Inside == rpc \in {"checkmin", "newb", "offset", "copy", "advance"}

(* The reader never falls out of the window at its lower end, and a drop    *)
(* that has begun goes to a position that the reader still waits for.       *)
NotBehind ==
  /\ read >= 0 /\ fread >= 0 /\ Sector(fread) <= read
  /\ fpc # "drop" => min <= Sector(read)
  /\ read = Sector(read) \/ read <= max
  /\ fpc \in {"drop", "reseek"} => max <= fread /\ fread <= read /\ fread = Sector(fread)
  /\ backSize = BackSize

(* What cache_read has loaded is still true of the ring when it is used.    *)
Loaded ==
  /\ Inside => fpc \notin {"drop", "reseek"} /\ read < max
  /\ rpc \in {"offset", "copy", "advance"} => 0 < newb /\ newb <= max - read
  /\ rpc = "copy" => /\ rpos = Slot(read) /\ newb <= BufferSize - rpos
                     /\ newb <= SectorSize - Len(sbuf)

(* What stream->buffer holds, and where the reader stands.                  *)
Filled ==
  IF Resting
  THEN /\ read = spos /\ bufpos \in 0..Len(sbuf) /\ Len(sbuf) <= spos
       /\ cmd # "seektime"
       /\ \A i \in 1..Len(sbuf) : sbuf[i] = spos - Len(sbuf) + i - 1
  ELSE /\ spos >= 0 /\ bufpos = 0 /\ Len(sbuf) <= SectorSize
       /\ rpc \notin {"advance", "return"} => Len(sbuf) < SectorSize
       /\ (IF rpc = "advance" THEN read + newb ELSE read) = spos + Len(sbuf)
       /\ \A i \in 1..Len(sbuf) : sbuf[i] = spos + i - 1
       /\ cmd \in {"read", "seek"} /\ ~seof
       /\ cmd = "seek" => target >= spos

(* When the end is known, in any of the places where it is kept, the source *)
(* has ended and everything is in the window or was there.                  *)
Ended == srcEof /\ max >= FileSize

EofKnown ==
  /\ eof \/ fpc = "eof" \/ seof \/ (rpc = "return" /\ sbuf = <<>>) => Ended
  /\ srcEof /\ fpc \notin {"drop", "reseek"} => src >= FileSize
  /\ fpc = "max" => src <= FileSize
  /\ max <= FileSize \/ (fpc # "drop" => min = max)
  /\ seof => sbuf = <<>>
  /\ sbuf # <<>> => spos + (IF Resting THEN 0 ELSE Len(sbuf)) <= FileSize

ForwardInv == NotBehind /\ Loaded /\ Filled /\ EofKnown
=============================================================================

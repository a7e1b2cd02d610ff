------------------------------ MODULE Reconnect ------------------------------
(***************************************************************************)
(* A file played over http through the stream cache while the server       *)
(* closes connections: the prefill of stream_enable_cache, the reconnect   *)
(* loop of stream_fill_buffer inside the cache thread's cache_fill, and    *)
(* cache_fill_status, the global by which the loop waits for the reader.   *)
(*                                                                         *)
(* Positions count blocks of STREAM_BUFFER_SIZE, which one read from the   *)
(* network brings and one cache_read takes.  The ring is what it is shown  *)
(* to be in Cache2: a byte for each position of the window; the loads and  *)
(* stores of cache_fill around the window are single steps here.           *)
(***************************************************************************)
EXTENDS Integers

CONSTANTS
  FileSize,     \* blocks of the file
  BufferSize,   \* blocks of the ring
  BackSize,     \* the initial back_size
  FillLimit,    \* fill_limit
  FillMax,      \* the most that one cache_fill reads
  SeekLimit,    \* seek_limit
  Prefill,      \* min of stream_enable_cache
  Threshold,    \* reconnect_threshold, in percent
  Retries,      \* how often one stream_fill_buffer reconnects: 10 in the code
  Modes,        \* seekable: stream->seek is set; youtube: the global flag;
                \* length: the server told the size, end_pos is not 0;
                \* undivided: the cache thread's update of the status is not
                \* interrupted
  Ranges,       \* the server honours the Range of a request
  Bodies,       \* sizes of what a server's header brings of the body, which
                \* the reconnect to youtube drops
  MaxDrops,     \* bound: connections the server closes before their end
  MaxSeeks      \* bound: seeks of the client

ASSUME SizesAssumption ==
  /\ {FileSize, BufferSize, FillMax, Prefill} \subseteq Nat \ {0}
  /\ {BackSize, FillLimit, Threshold, Retries, MaxDrops, MaxSeeks} \subseteq Nat
  /\ SeekLimit \in Int /\ Prefill + FillLimit <= BufferSize
ASSUME ModesAssumption ==
  /\ Modes \subseteq [seekable : BOOLEAN, youtube : BOOLEAN, length : BOOLEAN, undivided : BOOLEAN]
  /\ Ranges \in BOOLEAN /\ Bodies \subseteq Nat

VARIABLES
  mode,
  min, max, cells, read, eof, backSize, control,   \* cache_vars_t
  status,                         \* cache_fill_status
  conn, at,                       \* the connection: up or not, its next block
  spos, seof, cnt,                \* stream2: pos and eof; stream_fill_buffer's cnt
  fpc, fread, space, n, percent,  \* the cache thread
  cpc,                            \* the client
  drops, seeks, refused           \* history: closed connections, seeks, and
                                  \* what found no server: "seek", "resume"

cache == <<min, max, cells, read, eof, backSize, control>>
stream == <<conn, at, spos, seof, cnt>>
filler == <<fpc, fread, space, n, percent>>
history == <<drops, seeks, refused>>
vars == <<mode, cache, status, stream, filler, cpc, history>>

Hole == -1

Lesser(a, b) == IF a <= b THEN a ELSE b
Greater(a, b) == IF a >= b THEN a ELSE b

(* The stream was opened and the server sends from the beginning.           *)
Init ==
  /\ mode \in Modes
  /\ min = 0 /\ max = 0 /\ cells = [p \in 0..(FileSize - 1) |-> Hole]
  /\ read = 0 /\ eof = FALSE /\ backSize = BackSize /\ control = "reset"
  /\ status = 0
  /\ conn = "up" /\ at = 0 /\ spos = 0 /\ seof = FALSE /\ cnt = Retries
  /\ fpc = "plan" /\ fread = 0 /\ space = 0 /\ n = 0 /\ percent = 0
  /\ cpc = "prefill"
  /\ drops = 0 /\ seeks = 0 /\ refused = {}

(* update_cache_fill_status.                                                *)
Percent == IF eof THEN 100
           ELSE IF max < read THEN 0 ELSE ((max - read) * 100) \div BufferSize

-----------------------------------------------------------------------------
(* cache_fill.                                                              *)
(* The window is dropped when the reader left it, unless it can be reached  *)
(* by reading on.                                                           *)
Plan ==
  /\ fpc = "plan"
  /\ fread' = read
  /\ IF read < min \/ (read > max /\ read >= max + SeekLimit)
     THEN min' = read /\ max' = read /\ fpc' = "seek"
     ELSE UNCHANGED <<min, max>> /\ fpc' = "space"
  /\ UNCHANGED <<mode, cells, read, eof, backSize, control, status, stream,
                 space, n, percent, cpc, history>>

(* http_seek: a new connection, with a Range if pos is not 0.  A server     *)
(* that answers with an error counts as reached, but there is nothing to    *)
(* read from then.                                                          *)
HttpSeek(pos) ==
  /\ spos' = pos /\ UNCHANGED refused
  /\ \/ /\ conn' = "up" /\ at' = (IF Ranges THEN pos ELSE 0)
        /\ UNCHANGED drops
     \/ /\ drops < MaxDrops /\ drops' = drops + 1
        /\ conn' = "down" /\ UNCHANGED at

(* The seek after a drop.  Its failure is not looked at.                    *)
SeekSource ==
  /\ fpc = "seek"
  /\ seof' = FALSE /\ fpc' = "space"
  /\ \/ HttpSeek(fread)
     \/ /\ conn' = "down" /\ refused' = refused \cup {"seek"}
        /\ UNCHANGED <<at, spos, drops>>
  /\ UNCHANGED <<mode, cache, status, cnt, fread, space, n, percent, cpc, seeks>>

Back == IF fread < min THEN 0 ELSE Lesser(fread - min, backSize)
NewBlocks == IF max < fread THEN 0 ELSE max - fread
Room == BufferSize - (NewBlocks + Back)
Limit == IF mode.youtube THEN 0 ELSE FillLimit

Full ==
  /\ fpc = "space" /\ Room <= Limit
  /\ backSize' = IF mode.youtube /\ Room = 0 /\ Back > 0 THEN Back ELSE backSize
  /\ fpc' = "poll"
  /\ UNCHANGED <<mode, min, max, cells, read, eof, control, status, stream,
                 fread, space, n, percent, cpc, history>>

(* stream_read begins; a source at its end has nothing more.                *)
Fill ==
  /\ fpc = "space" /\ Room > Limit
  /\ space' = Lesser(Room, FillMax) /\ n' = 0 /\ cnt' = Retries
  /\ min' = Greater(min, fread - (BufferSize - (space' + NewBlocks)))
  /\ fpc' = IF seof THEN "store" ELSE "stream"
  /\ UNCHANGED <<mode, max, cells, read, eof, backSize, control, status,
                 conn, at, spos, seof, fread, percent, cpc, history>>

-----------------------------------------------------------------------------
(* stream_fill_buffer, for each block of the stream_read.                   *)
(* Mutant: one block more than there is room for.                           *)
DeliverOneMore ==
  /\ fpc = "stream" /\ conn = "up" /\ at < FileSize
  /\ cells' = [cells EXCEPT ![max + n] = at]
  /\ at' = at + 1 /\ spos' = spos + 1 /\ cnt' = Retries /\ n' = n + 1
  /\ fpc' = IF n = space THEN "store" ELSE "stream"
  /\ UNCHANGED <<mode, min, max, read, eof, backSize, control, status,
                 conn, seof, fread, space, percent, cpc, history>>

Deliver ==
  /\ fpc = "stream" /\ conn = "up" /\ at < FileSize
  /\ cells' = [cells EXCEPT ![max + n] = at]
  /\ at' = at + 1 /\ spos' = spos + 1 /\ cnt' = Retries /\ n' = n + 1
  /\ fpc' = IF n' = space THEN "store" ELSE "stream"
  /\ UNCHANGED <<mode, min, max, read, eof, backSize, control, status,
                 conn, seof, fread, space, percent, cpc, history>>

(* Mutant: the last reconnect is not made.                                  *)
GivesUpEarly == cnt <= 1 \/ ~mode.length \/ spos >= FileSize \/ ~(mode.seekable \/ mode.youtube)

(* When a read that brought nothing is the end of the stream.               *)
GivesUp == cnt <= 0 \/ ~mode.length \/ spos >= FileSize \/ ~(mode.seekable \/ mode.youtube)

Nothing ==
  /\ conn' = "down"
  /\ IF GivesUp THEN seof' = TRUE /\ fpc' = "store" /\ UNCHANGED cnt
                ELSE cnt' = cnt - 1 /\ fpc' = "wait" /\ UNCHANGED seof
  /\ UNCHANGED <<mode, cache, status, at, spos, fread, space, n, percent, cpc, seeks, refused>>

(* The server closes a connection in the middle of the file.                *)
Dropped ==
  /\ fpc = "stream" /\ conn = "up" /\ at < FileSize
  /\ drops < MaxDrops /\ drops' = drops + 1
  /\ Nothing

NothingLeft ==
  /\ fpc = "stream" /\ (conn = "down" \/ at >= FileSize)
  /\ Nothing /\ UNCHANGED drops

(* "wait cache < reconnect_threshold".                                      *)
WaitForReader ==
  /\ fpc = "wait" /\ status <= Threshold
  /\ fpc' = "reconnect"
  /\ UNCHANGED <<mode, cache, status, stream, fread, space, n, percent, cpc, history>>

(* http_streaming_start for youtube: the server sends from somewhere before *)
(* pos (p), and what lies between is skipped; of the body that came with    *)
(* the header (b) nothing is kept.                                          *)
Restart ==
  /\ UNCHANGED <<spos, refused>>
  /\ \/ /\ conn' = "up" /\ UNCHANGED drops
        /\ \E p \in 0..spos, b \in Bodies : at' = Greater(spos, p + b)
     \/ /\ drops < MaxDrops /\ drops' = drops + 1
        /\ conn' = "down" /\ UNCHANGED at

(* Mutant: the connection is resumed where the reader is.                   *)
ResumeAtReader ==
  /\ fpc = "reconnect"
  /\ \/ /\ IF mode.youtube THEN Restart ELSE HttpSeek(read)
        /\ fpc' = "stream" /\ UNCHANGED seof
     \/ /\ refused' = refused \cup {"resume"} /\ seof' = TRUE /\ fpc' = "store" /\ conn' = "down"
        /\ UNCHANGED <<at, spos, drops>>
  /\ UNCHANGED <<mode, cache, status, cnt, fread, space, n, percent, cpc, seeks>>

Resume ==
  /\ fpc = "reconnect"
  /\ \/ /\ IF mode.youtube THEN Restart ELSE HttpSeek(spos)
        /\ fpc' = "stream" /\ UNCHANGED seof
     \/ /\ refused' = refused \cup {"resume"} /\ seof' = TRUE /\ fpc' = "store" /\ conn' = "down"
        /\ UNCHANGED <<at, spos, drops>>
  /\ UNCHANGED <<mode, cache, status, cnt, fread, space, n, percent, cpc, seeks>>

-----------------------------------------------------------------------------
(* The end of cache_fill.                                                   *)
(* Mutant: the end of the stream is not passed on to the reader.            *)
StoreNoEof ==
  /\ fpc = "store"
  /\ max' = max + n /\ fpc' = "update"
  /\ UNCHANGED <<mode, min, cells, read, eof, backSize, control, status, stream,
                 fread, space, n, percent, cpc, history>>

Store ==
  /\ fpc = "store"
  /\ eof' = (eof \/ n = 0) /\ max' = max + n
  /\ fpc' = "update"
  /\ UNCHANGED <<mode, min, cells, read, backSize, control, status, stream,
                 fread, space, n, percent, cpc, history>>

Update ==
  /\ fpc = "update"
  /\ IF mode.undivided
     THEN status' = Percent /\ fpc' = "poll" /\ UNCHANGED percent
     ELSE percent' = Percent /\ fpc' = "updated" /\ UNCHANGED status
  /\ UNCHANGED <<mode, cache, stream, fread, space, n, cpc, history>>

Updated ==
  /\ fpc = "updated"
  /\ status' = percent /\ fpc' = "poll"
  /\ UNCHANGED <<mode, cache, stream, fread, space, n, percent, cpc, history>>

(* cache_execute_control.                                                   *)
Poll ==
  /\ fpc = "poll"
  /\ control' = "reset"
  /\ fpc' = IF control = "quit" THEN "ended" ELSE "plan"
  /\ UNCHANGED <<mode, min, max, cells, read, eof, backSize, status, stream,
                 fread, space, n, percent, cpc, history>>

CacheThread ==
  \/ Plan \/ SeekSource \/ Full \/ Fill
  \/ Deliver \/ Dropped \/ NothingLeft \/ WaitForReader \/ Resume
  \/ Store \/ Update \/ Updated \/ Poll

-----------------------------------------------------------------------------
(* The client: stream_enable_cache's wait for the prefill.                  *)
PrefillTest ==
  /\ cpc = "prefill"
  /\ IF read < min \/ max - read < Prefill
     THEN status' = ((max - read) * 100) \div Prefill /\ cpc' = "filling"
     ELSE cpc' = "ready" /\ UNCHANGED status
  /\ UNCHANGED <<mode, cache, stream, filler, history>>

PrefillCheck ==
  /\ cpc = "filling"
  /\ cpc' = IF eof THEN "ready" ELSE "prefill"
  /\ UNCHANGED <<mode, cache, status, stream, filler, history>>

(* stream_check_interrupt: the user wants something else; cache_uninit.     *)
Interrupt ==
  /\ cpc = "filling" /\ ~eof
  /\ control' = "quit" /\ cpc' = "quit"
  /\ UNCHANGED <<mode, min, max, cells, read, eof, backSize, status, stream, filler, history>>

(* cache_stream_fill_buffer.                                                *)
Read ==
  /\ cpc = "ready" /\ cpc' = "read"
  /\ UNCHANGED <<mode, cache, status, stream, filler, history>>

(* cache_stream_seek_long.                                                  *)
SeekTo(p) ==
  /\ cpc = "ready" /\ seeks < MaxSeeks /\ mode.seekable
  /\ seeks' = seeks + 1
  /\ read' = p /\ eof' = FALSE /\ cpc' = "read"
  /\ UNCHANGED <<mode, min, max, cells, backSize, control, status, stream, filler, drops, refused>>

(* cache_read: a block, or the end, or another look at both.                *)
Copy ==
  /\ cpc = "read"
  /\ \/ read \in min..(max - 1) /\ read' = read + 1
     \/ read \notin min..(max - 1) /\ eof /\ UNCHANGED read
  /\ cpc' = "copied"
  /\ UNCHANGED <<mode, min, max, cells, eof, backSize, control, status, stream, filler, history>>

(* Mutant: the reader does not update the status.                           *)
CopiedQuietly ==
  /\ cpc = "copied"
  /\ cpc' = "ready"
  /\ UNCHANGED <<mode, cache, status, stream, filler, history>>

(* The update at the end of cache_read.  It is one step: until it is made   *)
(* the window only grows, so that a late value is only too low.             *)
Copied ==
  /\ cpc = "copied"
  /\ status' = Percent /\ cpc' = "ready"
  /\ UNCHANGED <<mode, cache, stream, filler, history>>

(* cache_uninit: the request, and the wait until the thread took it.        *)
Quit ==
  /\ cpc = "ready"
  /\ control' = "quit" /\ cpc' = "quit"
  /\ UNCHANGED <<mode, min, max, cells, read, eof, backSize, status, stream, filler, history>>

QuitDone ==
  /\ cpc = "quit" /\ control = "reset"
  /\ cpc' = "gone"
  /\ UNCHANGED <<mode, cache, status, stream, filler, history>>

Started == PrefillTest \/ PrefillCheck \/ Copy \/ Copied \/ QuitDone

Next ==
  \/ CacheThread
  \/ Started \/ Interrupt \/ Read \/ Quit
  \/ \E p \in 0..FileSize : SeekTo(p)

Spec == Init /\ [][Next]_vars /\ WF_vars(CacheThread) /\ WF_vars(Started)

-----------------------------------------------------------------------------
TypeOK ==
  /\ mode \in Modes
  /\ min \in Nat /\ max \in Nat /\ read \in Nat /\ eof \in BOOLEAN
  /\ cells \in [0..(FileSize - 1) -> Nat \cup {Hole}]
  /\ backSize \in Nat /\ control \in {"reset", "quit"} /\ status \in Nat
  /\ conn \in {"up", "down"} /\ at \in Nat /\ spos \in Nat /\ seof \in BOOLEAN
  /\ cnt \in 0..Retries
  /\ fpc \in {"plan", "seek", "space", "stream", "wait", "reconnect", "store",
              "update", "updated", "poll", "ended"}
  /\ fread \in Nat /\ space \in Nat /\ n \in 0..space /\ percent \in Nat
  /\ cpc \in {"prefill", "filling", "ready", "read", "copied", "quit", "gone"}
  /\ drops \in 0..MaxDrops /\ seeks \in 0..MaxSeeks /\ refused \subseteq {"seek", "resume"}

(* Each position of the window has its own byte, over closed connections    *)
(* and seeks, as long as a seek finds its server: the reconnect loop of     *)
(* stream_fill_buffer asks for what comes after what was stored, whoever    *)
(* closed the connection and however much of the stream_read was done.      *)
WindowRight ==
  "seek" \notin refused => \A p \in min..(max - 1) : p < FileSize /\ cells[p] = p

(* A stream that can be resumed ends in its middle only when a server was   *)
(* not found again, or closed more connections than one stream_fill_buffer  *)
(* reopens.                                                                 *)
EndIsEnd ==
  seof /\ mode.length /\ (mode.seekable \/ mode.youtube) =>
    spos >= FileSize \/ refused # {} \/ drops > Retries

(* The cache thread waits for a reader that waits for it in one case only:  *)
(* when the ring has run empty under a client that never sought, the status *)
(* has sunk to where the reconnect goes on, or it is the one that the cache *)
(* thread had computed before the reader emptied the ring and stored after  *)
(* the reader's own update.                                                 *)
StarvedOnlyLate ==
  fpc = "wait" /\ cpc = "read" /\ seeks = 0 /\ read = max /\ ~eof =>
    status <= Threshold \/ (~mode.undivided /\ status = percent)

(* A read of a client that never sought returns, with a block or the end.   *)
ReadReturns == mode.undivided /\ cpc = "read" /\ seeks = 0 ~> cpc # "read"

(* "wait until cache is filled at least prefill_init %" (a comment of       *)
(* stream_enable_cache): the wait ends, with the prefill, with the end of   *)
(* the file or with the user's interrupt.  (It does not when the server     *)
(* closes the connection with more than Threshold percent of the prefill    *)
(* there.)                                                                  *)
EnableReturns == cpc = "prefill" ~> cpc \in {"ready", "quit", "gone"}

(* A seek and the end of the player return as well.  (They do not: nobody   *)
(* lowers the status while the client waits for the cache thread.)          *)
SeekReturns == cpc = "read" ~> cpc # "read"
QuitReturns == cpc = "quit" ~> cpc = "gone"
=============================================================================

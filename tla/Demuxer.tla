------------------------------ MODULE Demuxer ------------------------------
(***************************************************************************)
(* The packet queues of libmpdemux/demuxer.c and the two threads that work *)
(* on them: the demux thread (demux_thread), which reads ahead, and the    *)
(* main thread, which takes packets (ds_fill_buffer), seeks (demux_seek)   *)
(* and stops the other (demux_thread_quit).                                *)
(*                                                                         *)
(* The file is a sequence of packets, each of the video or of the audio    *)
(* stream; a packet is its index in the file.  A wait on a condition ends  *)
(* by a signal or after a second, and its caller looks at the state again  *)
(* either way: the conditions themselves need no state.                    *)
(***************************************************************************)
EXTENDS Integers, Sequences

CONSTANTS
  File,        \* the stream of each packet of the file
  VThreshold,  \* vthreshold: the demux thread reads ahead up to it
  AThreshold,  \* athreshold
  MaxPacks,    \* MAX_PACKS
  Speeds,      \* speed_mult: 0 normal, 1 (or audio_not_support), 2 for < 0 or > 1
  MaxSeeks     \* bound: seeks of the client

Streams == {"video", "audio"}
Threads == {"main", "thread"}

ASSUME FileAssumption == File \in Seq(Streams)
ASSUME BoundsAssumption ==
  /\ VThreshold \in Nat /\ AThreshold \in Nat /\ MaxPacks \in Nat /\ MaxSeeks \in Nat
  /\ 0 \in Speeds /\ Speeds \subseteq 0..2

VARIABLES
  queue,      \* queue[s]: the list from ds->first to ds->last
  packs,      \* packs[s]: the count kept beside it
  eof,        \* eof[s]: ds->eof
  next,       \* the packet that the file format's fill_buffer reads next
  dsmtx, demuxmtx, seekmtx,   \* who holds each mutex
  seeklocked, demuxrun, demuxstop, speed,
  fpc, hand, ret,   \* demux_fill_buffer of each thread: its step, packet, result
  tpc,              \* demux_thread
  mpc, ds, timeout, \* the main thread, the stream it asked for
  got,              \* the last packet taken from each stream without a break
  seeks

queues == <<queue, packs, eof, next, got>>
locks == <<dsmtx, demuxmtx, seekmtx>>
modes == <<seeklocked, demuxrun, demuxstop, speed>>
filling == <<fpc, hand, ret>>
main == <<mpc, ds, timeout, seeks>>
vars == <<queues, locks, modes, filling, tpc, main>>

Init ==
  /\ queue = [s \in Streams |-> <<>>] /\ packs = [s \in Streams |-> 0]
  /\ eof = [s \in Streams |-> FALSE] /\ next = 1 /\ got = [s \in Streams |-> 0]
  /\ dsmtx = [s \in Streams |-> "free"] /\ demuxmtx = "free" /\ seekmtx = "free"
  /\ seeklocked = FALSE /\ demuxrun = TRUE /\ demuxstop = FALSE /\ speed = 0
  /\ fpc = [t \in Threads |-> "no"] /\ hand = [t \in Threads |-> 0]
  /\ ret = [t \in Threads |-> FALSE]
  /\ tpc = "top" /\ mpc = "idle" /\ ds = "video" /\ timeout = FALSE /\ seeks = 0

-----------------------------------------------------------------------------
(* demux_fill_buffer, by either thread: under demuxmtx, the file format's   *)
(* fill_buffer reads one packet and appends it to the queue of its stream.  *)

(* Mutant: fill_buffer entered without demuxmtx.                            *)
FillUnlocked(t) ==
  /\ fpc[t] = "lock"
  /\ demuxmtx' = t
  /\ fpc' = [fpc EXCEPT ![t] = "read"]
  /\ UNCHANGED <<queues, dsmtx, seekmtx, modes, hand, ret, tpc, main>>

(* RTP, which takes no mutex (it is built in with LIVE555 only), is left    *)
(* out.                                                                     *)
FillLock(t) ==
  /\ fpc[t] = "lock" /\ demuxmtx = "free"
  /\ demuxmtx' = t
  /\ fpc' = [fpc EXCEPT ![t] = "read"]
  /\ UNCHANGED <<queues, dsmtx, seekmtx, modes, hand, ret, tpc, main>>

(* Mutant: the end of the file noticed a packet late.                       *)
ReadPastEnd(t) ==
  /\ fpc[t] = "read"
  /\ IF next > Len(File) + 1
       THEN /\ fpc' = [fpc EXCEPT ![t] = "unlock"] /\ ret' = [ret EXCEPT ![t] = FALSE]
            /\ UNCHANGED <<next, hand>>
       ELSE /\ fpc' = [fpc EXCEPT ![t] = "count"] /\ ret' = [ret EXCEPT ![t] = TRUE]
            /\ hand' = [hand EXCEPT ![t] = next] /\ next' = next + 1
  /\ UNCHANGED <<queue, packs, eof, got, locks, modes, tpc, main>>

ReadPacket(t) ==
  /\ fpc[t] = "read"
  /\ IF next > Len(File)
       THEN /\ fpc' = [fpc EXCEPT ![t] = "unlock"] /\ ret' = [ret EXCEPT ![t] = FALSE]
            /\ UNCHANGED <<next, hand>>
       ELSE /\ fpc' = [fpc EXCEPT ![t] = "count"] /\ ret' = [ret EXCEPT ![t] = TRUE]
            /\ hand' = [hand EXCEPT ![t] = next] /\ next' = next + 1
  /\ UNCHANGED <<queue, packs, eof, got, locks, modes, tpc, main>>

(* ds_add_packet_internal: under dsmtx, count the packet and link it.       *)
Count(t) ==
  /\ fpc[t] = "count"
  /\ LET s == File[hand[t]]
     IN  /\ dsmtx[s] = "free"
         /\ dsmtx' = [dsmtx EXCEPT ![s] = t]
         /\ packs' = [packs EXCEPT ![s] = @ + 1]
  /\ fpc' = [fpc EXCEPT ![t] = "link"]
  /\ UNCHANGED <<queue, eof, next, got, demuxmtx, seekmtx, modes, hand, ret, tpc, main>>

Link(t) ==
  /\ fpc[t] = "link"
  /\ LET s == File[hand[t]]
     IN  /\ queue' = [queue EXCEPT ![s] = Append(@, hand[t])]
         /\ dsmtx' = [dsmtx EXCEPT ![s] = "free"]
  /\ fpc' = [fpc EXCEPT ![t] = "unlock"] /\ hand' = [hand EXCEPT ![t] = 0]
  /\ UNCHANGED <<packs, eof, next, got, demuxmtx, seekmtx, modes, ret, tpc, main>>

FillUnlock(t) ==
  /\ fpc[t] = "unlock"
  /\ demuxmtx' = "free"
  /\ fpc' = [fpc EXCEPT ![t] = "done"]
  /\ UNCHANGED <<queues, dsmtx, seekmtx, modes, hand, ret, tpc, main>>

FillBuffer(t) == FillLock(t) \/ ReadPacket(t) \/ Count(t) \/ Link(t) \/ FillUnlock(t)

-----------------------------------------------------------------------------
(* demux_thread.                                                            *)

Threshold == [video |-> VThreshold, audio |-> AThreshold]
QueueFull(s) == packs[s] >= Threshold[s]
ThresholdReached == \A s \in Streams : QueueFull(s)
Stopping == demuxstop \/ \A s \in Streams : eof[s]

Top ==
  /\ tpc = "top"
  /\ tpc' = IF ThresholdReached \/ speed > 1 THEN "wait" ELSE "recheck"
  /\ UNCHANGED <<queues, locks, modes, filling, main>>

(* Mutant: the waiting loop does not look at demuxstop.                     *)
WaitedBlindly ==
  /\ tpc = "wait" /\ tpc' = "top"
  /\ UNCHANGED <<queues, locks, modes, filling, main>>

(* The wait on fillcond, one second at most.                                *)
Waited ==
  /\ tpc = "wait"
  /\ tpc' = IF Stopping THEN "recheck" ELSE "top"
  /\ UNCHANGED <<queues, locks, modes, filling, main>>

Recheck ==
  /\ tpc = "recheck"
  /\ tpc' = IF Stopping THEN "ended" ELSE "seekmtx"
  /\ demuxrun' = ~Stopping
  /\ UNCHANGED <<queues, locks, seeklocked, demuxstop, speed, filling, main>>

(* Mutant: the demux thread fills without seekmtx.                          *)
ThreadUnlocked ==
  /\ tpc = "seekmtx"
  /\ tpc' = "video"
  /\ UNCHANGED <<queues, locks, modes, filling, main>>

ThreadLock ==
  /\ tpc = "seekmtx" /\ seekmtx = "free"
  /\ seekmtx' = "thread" /\ tpc' = "video"
  /\ UNCHANGED <<queues, dsmtx, demuxmtx, modes, filling, main>>

(* One packet for the video queue, then one for the audio queue.            *)
After(pc) == IF pc = "video" THEN "audio" ELSE "release"

ThreadFill ==
  /\ tpc \in Streams /\ fpc["thread"] = "no"
  /\ ~QueueFull(tpc) /\ ~eof[tpc]
  /\ fpc' = [fpc EXCEPT !["thread"] = "lock"]
  /\ UNCHANGED <<queues, locks, modes, hand, ret, tpc, main>>

ThreadSkip ==
  /\ tpc \in Streams /\ fpc["thread"] = "no"
  /\ QueueFull(tpc) \/ eof[tpc]
  /\ tpc' = After(tpc)
  /\ UNCHANGED <<queues, locks, modes, filling, main>>

ThreadFilled ==
  /\ tpc \in Streams /\ fpc["thread"] = "done"
  /\ fpc' = [fpc EXCEPT !["thread"] = "no"]
  /\ tpc' = After(tpc)
  /\ UNCHANGED <<queues, locks, modes, hand, ret, main>>

ThreadUnlock ==
  /\ tpc = "release"
  /\ seekmtx' = "free" /\ tpc' = "top"
  /\ UNCHANGED <<queues, dsmtx, demuxmtx, modes, filling, main>>

DemuxThread ==
  \/ Top \/ Waited \/ Recheck \/ ThreadLock \/ ThreadFill \/ ThreadSkip
  \/ ThreadFilled \/ ThreadUnlock \/ FillBuffer("thread")

-----------------------------------------------------------------------------
(* The main thread.  Its client asks for packets, seeks, changes the speed  *)
(* and quits.                                                               *)

Get ==
  /\ mpc = "idle"
  /\ ds' \in Streams /\ timeout' = FALSE
  /\ mpc' = IF speed # 0 THEN "droplist" ELSE "take"
  /\ UNCHANGED <<queues, locks, modes, filling, tpc, seeks>>

(* ds_free_packs of the audio stream, at every packet of a trick play, and  *)
(* the same by hand when the audio queue is over its limit.  It takes no    *)
(* mutex: the list goes, in one step with the walk that frees it and the    *)
(* stores of first and last, then the count.                                *)
ClearList ==
  /\ mpc \in {"droplist", "overlist"}
  /\ queue' = [queue EXCEPT !["audio"] = <<>>] /\ got' = [got EXCEPT !["audio"] = 0]
  /\ mpc' = IF mpc = "droplist" THEN "dropcount" ELSE "overcount"
  /\ UNCHANGED <<packs, eof, next, locks, modes, filling, tpc, ds, timeout, seeks>>

ClearCount ==
  /\ mpc \in {"dropcount", "overcount"}
  /\ packs' = [packs EXCEPT !["audio"] = 0]
  /\ mpc' = IF mpc = "dropcount" THEN "take" ELSE "wait"
  /\ UNCHANGED <<queue, eof, next, got, locks, modes, filling, tpc, ds, timeout, seeks>>

(* Under dsmtx: unlink the first packet.  A count without a packet is the   *)
(* "abnormal case" of the code, which gives up the call.                    *)
Take ==
  /\ mpc = "take" /\ dsmtx[ds] = "free" /\ packs[ds] > 0
  /\ IF queue[ds] = <<>>
       THEN UNCHANGED <<queue, packs, got>>
       ELSE /\ queue' = [queue EXCEPT ![ds] = Tail(@)]
            /\ packs' = [packs EXCEPT ![ds] = @ - 1]
            /\ got' = [got EXCEPT ![ds] = Head(queue[ds])]
  /\ mpc' = "idle"
  /\ UNCHANGED <<eof, next, locks, modes, filling, tpc, ds, timeout, seeks>>

(* Nothing queued.  Too much audio meanwhile is freed, or ends the playback.*)
NothingQueued ==
  /\ mpc = "take" /\ dsmtx[ds] = "free" /\ packs[ds] = 0
  /\ IF packs["audio"] < MaxPacks
       THEN mpc' = "wait" /\ UNCHANGED eof
       ELSE \/ mpc' = "overlist" /\ UNCHANGED eof
            \/ eof["video"] /\ mpc' = "eof" /\ eof' = [s \in Streams |-> TRUE]
  /\ UNCHANGED <<queue, packs, next, got, locks, modes, filling, tpc, ds, timeout, seeks>>

(* Wait for the demux thread, a second at most; or, when it cannot help,    *)
(* demux here.                                                              *)
ThreadHelps == demuxrun /\ ~seeklocked /\ ~timeout /\ speed <= 1

(* Mutant: pwait_event in the place of pwait_event_timeout.                 *)
WaitForever ==
  /\ mpc = "wait" /\ ThreadHelps /\ packs[ds] > 0
  /\ mpc' = "video"
  /\ UNCHANGED <<queues, locks, modes, filling, tpc, ds, timeout, seeks>>

WaitForPacket ==
  /\ mpc = "wait" /\ ThreadHelps
  /\ timeout' = (packs[ds] = 0)
  /\ mpc' = "video"
  /\ UNCHANGED <<queues, locks, modes, filling, tpc, ds, seeks>>

DemuxHere ==
  /\ mpc = "wait" /\ ~ThreadHelps
  /\ fpc' = [fpc EXCEPT !["main"] = "lock"]
  /\ mpc' = "fill"
  /\ UNCHANGED <<queues, locks, modes, hand, ret, tpc, ds, timeout, seeks>>

Demuxed ==
  /\ mpc = "fill" /\ fpc["main"] = "done"
  /\ fpc' = [fpc EXCEPT !["main"] = "no"]
  /\ mpc' = IF ret["main"] THEN "video" ELSE "eof"
  /\ UNCHANGED <<queues, locks, modes, hand, ret, tpc, ds, timeout, seeks>>

(* Too much video ends the call, and the playback of both streams, or of    *)
(* the audio (MPEG program streams), or of neither (a DVD under dvdnav).    *)
CheckVideo ==
  /\ mpc = "video"
  /\ IF packs["video"] >= MaxPacks
       THEN /\ mpc' = "eof"
            /\ eof' \in {[s \in Streams |-> TRUE], [eof EXCEPT !["audio"] = TRUE], eof}
       ELSE mpc' = "take" /\ UNCHANGED eof
  /\ UNCHANGED <<queue, packs, next, got, locks, modes, filling, tpc, ds, timeout, seeks>>

ReturnEof ==
  /\ mpc = "eof"
  /\ eof' = [eof EXCEPT ![ds] = TRUE]
  /\ mpc' = "idle"
  /\ UNCHANGED <<queue, packs, next, got, locks, modes, filling, tpc, ds, timeout, seeks>>

(* demux_seek.                                                              *)
Seek ==
  /\ mpc = "idle" /\ seeks < MaxSeeks
  /\ mpc' = "seekmtx" /\ seeks' = seeks + 1
  /\ UNCHANGED <<queues, locks, modes, filling, tpc, ds, timeout>>

(* Mutant: demux_seek does not wait for seekmtx.                            *)
SeekUnlocked ==
  /\ mpc = "seekmtx"
  /\ seekmtx' = "main" /\ seeklocked' = TRUE
  /\ mpc' = "flush"
  /\ UNCHANGED <<queues, dsmtx, demuxmtx, demuxrun, demuxstop, speed, filling, tpc,
                 ds, timeout, seeks>>

SeekLock ==
  /\ mpc = "seekmtx" /\ seekmtx = "free"
  /\ seekmtx' = "main" /\ seeklocked' = TRUE
  /\ mpc' = "flush"
  /\ UNCHANGED <<queues, dsmtx, demuxmtx, demuxrun, demuxstop, speed, filling, tpc,
                 ds, timeout, seeks>>

(* demux_flush, a stream at a time: the list, then the count.               *)
FlushList ==
  /\ mpc = "flush"
  /\ \E s \in Streams : /\ queue[s] # <<>>
                        /\ queue' = [queue EXCEPT ![s] = <<>>]
  /\ UNCHANGED <<packs, eof, next, got, locks, modes, filling, tpc, main>>

(* Mutant: the counts are not reset.                                        *)
FlushKeepsCount ==
  /\ mpc = "flush" /\ \A s \in Streams : queue[s] = <<>>
  /\ got' = [s \in Streams |-> 0] /\ eof' = [s \in Streams |-> FALSE]
  /\ mpc' = "reposition"
  /\ UNCHANGED <<queue, packs, next, locks, modes, filling, tpc, ds, timeout, seeks>>

FlushCount ==
  /\ mpc = "flush" /\ \A s \in Streams : queue[s] = <<>>
  /\ packs' = [s \in Streams |-> 0] /\ got' = [s \in Streams |-> 0]
  /\ eof' = [s \in Streams |-> FALSE]
  /\ mpc' = "reposition"
  /\ UNCHANGED <<queue, next, locks, modes, filling, tpc, ds, timeout, seeks>>

(* The seek of the file format.                                             *)
Reposition ==
  /\ mpc = "reposition"
  /\ next' \in 1..(Len(File) + 1)
  /\ mpc' = "unlock"
  /\ UNCHANGED <<queue, packs, eof, got, locks, modes, filling, tpc, ds, timeout, seeks>>

SeekUnlock ==
  /\ mpc = "unlock"
  /\ seekmtx' = "free" /\ seeklocked' = FALSE
  /\ mpc' = "idle"
  /\ UNCHANGED <<queues, dsmtx, demuxmtx, demuxrun, demuxstop, speed, filling, tpc,
                 ds, timeout, seeks>>

SetSpeed ==
  /\ mpc = "idle"
  /\ speed' \in Speeds \ {speed}
  /\ UNCHANGED <<queues, locks, seeklocked, demuxrun, demuxstop, filling, tpc, main>>

(* demux_thread_quit: the flag, a wake-up, pthread_join.                    *)
Quit ==
  /\ mpc = "idle"
  /\ demuxstop' = TRUE /\ mpc' = "join"
  /\ UNCHANGED <<queues, locks, seeklocked, demuxrun, speed, filling, tpc, ds, timeout, seeks>>

Joined ==
  /\ mpc = "join" /\ tpc = "ended"
  /\ demuxstop' = FALSE /\ mpc' = "closed"
  /\ UNCHANGED <<queues, locks, seeklocked, demuxrun, speed, filling, tpc, ds, timeout, seeks>>

Client == Get \/ Seek \/ SetSpeed \/ Quit

MainThread ==
  \/ ClearList \/ ClearCount \/ Take \/ NothingQueued \/ WaitForPacket \/ DemuxHere
  \/ Demuxed \/ CheckVideo \/ ReturnEof
  \/ SeekLock \/ FlushList \/ FlushCount \/ Reposition \/ SeekUnlock \/ Joined
  \/ FillBuffer("main")

Next == DemuxThread \/ MainThread \/ Client

(* Both threads run, and a mutex is not kept from a thread for ever.        *)
Spec ==
  /\ Init /\ [][Next]_vars
  /\ WF_vars(DemuxThread) /\ WF_vars(MainThread)
  /\ SF_vars(SeekLock) /\ SF_vars(FillLock("main")) /\ SF_vars(FillLock("thread"))

-----------------------------------------------------------------------------
(* Properties.                                                              *)

Holders == Threads \cup {"free"}

(* The types of the queues, the mutexes and the two threads.                *)
QueuesOK ==
  /\ queue \in [Streams -> Seq(Nat)] /\ packs \in [Streams -> Nat]
  /\ eof \in [Streams -> BOOLEAN] /\ got \in [Streams -> Nat]
  /\ next \in 1..(Len(File) + 1)

LocksOK ==
  /\ dsmtx \in [Streams -> Holders] /\ demuxmtx \in Holders /\ seekmtx \in Holders

ModesOK ==
  /\ seeklocked \in BOOLEAN /\ demuxrun \in BOOLEAN /\ demuxstop \in BOOLEAN
  /\ speed \in Speeds

FillingOK ==
  /\ fpc \in [Threads -> {"no", "lock", "read", "count", "link", "unlock", "done"}]
  /\ hand \in [Threads -> 0..Len(File)] /\ ret \in [Threads -> BOOLEAN]

ThreadsOK ==
  /\ tpc \in {"top", "wait", "recheck", "seekmtx", "video", "audio", "release", "ended"}
  /\ mpc \in {"idle", "droplist", "dropcount", "take", "overlist", "overcount", "wait",
              "fill", "video", "eof", "seekmtx", "flush", "reposition", "unlock",
              "join", "closed"}
  /\ ds \in Streams /\ timeout \in BOOLEAN /\ seeks \in 0..MaxSeeks

TypeOK == QueuesOK /\ LocksOK /\ ModesOK /\ FillingOK /\ ThreadsOK

(* Packet q of stream s comes after packet p, with none of s between them.  *)
Follows(s, p, q) == p < q /\ \A i \in (p + 1)..(q - 1) : File[i] # s

(* Packet p is the latest of stream s that was read, except for one that a  *)
(* thread has in its hand.                                                  *)
Latest(s, p) ==
  \A i \in (p + 1)..(next - 1) : File[i] = s => \E t \in Threads : hand[t] = i

Flushing == mpc \in {"flush", "reposition"}

(* The queues hold the latest packets of the file in order: none from       *)
(* before a seek, none lost, none twice, though two threads append.         *)
QueueIsFile ==
  ~Flushing => \A s \in Streams :
    LET q == queue[s]
    IN  /\ \A i \in 1..Len(q) : q[i] \in 1..(next - 1) /\ File[q[i]] = s
        /\ \A i \in 1..(Len(q) - 1) : Follows(s, q[i], q[i + 1])
        /\ q # <<>> => Latest(s, q[Len(q)])

(* "mutex to protect demux queue": whoever can take dsmtx finds as many     *)
(* packets in the list as the count says.                                   *)
CountMatches ==
  ~Flushing => \A s \in Streams : dsmtx[s] = "free" => packs[s] = Len(queue[s])

(* The decoders get every packet of a stream, in order, from a seek on.     *)
NothingSkipped ==
  [][\A s \in Streams : got[s] # 0 /\ got'[s] # 0 /\ got'[s] # got[s] =>
       Follows(s, got[s], got'[s])]_vars

(* "end of demuxed stream? (true if all buffer empty)".                     *)
EofMeansDrained == \A s \in Streams : eof[s] => packs[s] = 0

(* A call of the main thread returns: a packet or the end of the stream, a  *)
(* seek done, the demux thread joined.                                      *)
CallReturns == (mpc # "idle") ~> (mpc \in {"idle", "closed"})

(* While demux_seek flushes the queues and moves the file, the demux thread *)
(* is not inside fill_buffer, and no thread is left with its mutex.         *)
SeekOwnsFile ==
  mpc \in {"flush", "reposition", "unlock"} => demuxmtx = "free" /\ fpc["thread"] = "no"

-----------------------------------------------------------------------------
(* The inductive invariant behind these.                                    *)

(* Each mutex is held exactly where the code of its holder is between the   *)
(* lock and the unlock; the packet in a thread's hand is the last one read. *)
DemuxLocked ==
  \A t \in Threads : demuxmtx = t <=> fpc[t] \in {"read", "count", "link", "unlock"}

QueueLocked ==
  \A s \in Streams : \A t \in Threads :
    dsmtx[s] = t <=> fpc[t] = "link" /\ File[hand[t]] = s

SeekLocked ==
  /\ seekmtx = "thread" <=> tpc \in {"video", "audio", "release"}
  /\ seekmtx = "main" <=> mpc \in {"flush", "reposition", "unlock"}
  /\ fpc["thread"] # "no" => tpc \in Streams
  /\ fpc["main"] # "no" => mpc = "fill"

InHand ==
  \A t \in Threads : IF fpc[t] \in {"count", "link"} THEN hand[t] = next - 1 /\ next > 1
                                                     ELSE hand[t] = 0

Locked == DemuxLocked /\ QueueLocked /\ SeekLocked /\ InHand

(* From the last packet taken, g, through the queue q, to the packet in a   *)
(* hand: the packets of stream s in order, none left out.                   *)
Chain(s, q, g) ==
  /\ g < next
  /\ \A i \in 1..Len(q) : q[i] \in 1..(next - 1) /\ File[q[i]] = s
  /\ \A i \in 1..(Len(q) - 1) : Follows(s, q[i], q[i + 1])
  /\ q # <<>> => Latest(s, q[Len(q)])
  /\ g # 0 /\ q = <<>> => Latest(s, g)
  /\ g # 0 /\ q # <<>> => Follows(s, g, q[1])
  /\ \A t \in Threads : hand[t] # 0 =>
       g < hand[t] /\ \A i \in 1..Len(q) : q[i] < hand[t]

Chained ==
  /\ ~Flushing => \A s \in Streams : Chain(s, queue[s], got[s])
  /\ mpc = "reposition" => \A s \in Streams : queue[s] = <<>> /\ got[s] = 0

(* Without a clearing of the audio list, each list is as long as its count, *)
(* but for the packet that is being linked.                                 *)
Counted ==
  /\ speed = 0 /\ mpc \notin {"droplist", "dropcount", "overcount"}
  /\ ~Flushing => \A s \in Streams :
       packs[s] = Len(queue[s]) + (IF dsmtx[s] = "free" THEN 0 ELSE 1)
  /\ mpc = "reposition" => \A s \in Streams : packs[s] = 0 /\ queue[s] = <<>>
=============================================================================

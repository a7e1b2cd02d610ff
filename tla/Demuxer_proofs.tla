--------------------------- MODULE Demuxer_proofs ---------------------------
(* Proofs about Demuxer, for every file, thresholds, limits and speeds.     *)
EXTENDS Demuxer, SequenceTheorems, TLAPS

(* The components of the tuples that Demuxer abbreviates.                   *)
USE DEF queues, locks, modes, filling, main, vars

(* Reading a stream of the file: an index gives one of the two streams.     *)
LEMMA FileTyped == Len(File) \in Nat /\ \A i \in 1..Len(File) : File[i] \in Streams
  BY FileAssumption

-----------------------------------------------------------------------------
(* What changes nothing of a part keeps its type.                           *)
LEMMA PartsKept ==
  /\ QueuesOK /\ UNCHANGED queues => QueuesOK'
  /\ LocksOK /\ UNCHANGED locks => LocksOK'
  /\ ModesOK /\ UNCHANGED modes => ModesOK'
  /\ FillingOK /\ UNCHANGED filling => FillingOK'
  /\ ThreadsOK /\ UNCHANGED <<tpc, main>> => ThreadsOK'
  BY DEF QueuesOK, LocksOK, ModesOK, FillingOK, ThreadsOK

(* demux_fill_buffer keeps the types, in either thread.                     *)
LEMMA FillBufferTyped ==
  ASSUME TypeOK, NEW t \in Threads, FillBuffer(t)
  PROVE  TypeOK'
<1>0. QueuesOK /\ LocksOK /\ ModesOK /\ FillingOK /\ ThreadsOK
  BY DEF TypeOK
<1>1. ModesOK' /\ ThreadsOK'
  BY <1>0, PartsKept DEF FillBuffer, FillLock, ReadPacket, Count, Link, FillUnlock
<1>2. FillingOK'
  <2>1. CASE ReadPacket(t)
    <3>1. next \in 1..(Len(File) + 1)
      BY <1>0 DEF QueuesOK
    <3>2. hand' = hand \/ (next <= Len(File) /\ hand' = [hand EXCEPT ![t] = next])
      BY <2>1, <3>1, FileTyped DEF ReadPacket
    <3>3. hand' \in [Threads -> 0..Len(File)]
      BY <1>0, <3>1, <3>2, FileTyped DEF FillingOK
    <3>4. /\ fpc' \in [Threads -> {"no", "lock", "read", "count", "link", "unlock", "done"}]
          /\ ret' \in [Threads -> BOOLEAN]
      BY <1>0, <2>1 DEF ReadPacket, FillingOK
    <3> QED
      BY <3>3, <3>4 DEF FillingOK
  <2>2. CASE Count(t) \/ Link(t)
    <3>1. /\ ret' = ret
          /\ \E place \in {"link", "unlock"} : fpc' = [fpc EXCEPT ![t] = place]
          /\ hand' = hand \/ hand' = [hand EXCEPT ![t] = 0]
      BY <2>2 DEF Count, Link
    <3>2. hand \in [Threads -> 0..Len(File)] /\ 0 \in 0..Len(File)
      BY <1>0, FileTyped DEF FillingOK
    <3>3. hand' \in [Threads -> 0..Len(File)]
      BY <3>1, <3>2
    <3> QED
      BY <1>0, <3>1, <3>3 DEF FillingOK
  <2>3. CASE FillLock(t) \/ FillUnlock(t)
    BY <1>0, <2>3 DEF FillLock, FillUnlock, FillingOK
  <2> QED
    BY <2>1, <2>2, <2>3 DEF FillBuffer
<1>3. LocksOK'
  <2>1. CASE FillLock(t) \/ ReadPacket(t) \/ FillUnlock(t)
    BY <1>0, <2>1 DEF FillLock, ReadPacket, FillUnlock, LocksOK, Holders
  <2>2. CASE Count(t) \/ Link(t)
    <3> DEFINE s == File[hand[t]]
    <3>1. PICK h \in Holders : dsmtx' = [dsmtx EXCEPT ![s] = h]
      BY <2>2 DEF Count, Link, Holders
    <3>2. dsmtx' \in [Streams -> Holders]
      BY <1>0, <3>1 DEF LocksOK
    <3> QED
      BY <1>0, <2>2, <3>2 DEF Count, Link, LocksOK
  <2> QED
    BY <2>1, <2>2 DEF FillBuffer
<1>4. QueuesOK'
  <2> DEFINE s == File[hand[t]]
  <2>1. CASE FillLock(t) \/ FillUnlock(t)
    BY <1>0, <2>1, PartsKept DEF FillLock, FillUnlock
  <2>2. CASE ReadPacket(t)
    BY <1>0, <2>2, FileTyped DEF ReadPacket, QueuesOK
  <2>3. CASE Count(t)
    <3>1. packs' = [packs EXCEPT ![s] = packs[s] + 1]
      BY <2>3 DEF Count
    <3>2. packs \in [Streams -> Nat]
      BY <1>0 DEF QueuesOK
    <3>3. packs' \in [Streams -> Nat]
      <4> HIDE DEF s
      <4>1. \A r \in Streams : packs'[r] \in Nat
        BY <3>1, <3>2
      <4> QED
        BY <3>1, <3>2, <4>1
    <3> QED
      BY <1>0, <2>3, <3>3 DEF Count, QueuesOK
  <2>4. CASE Link(t)
    <3>1. queue' = [queue EXCEPT ![s] = Append(queue[s], hand[t])]
      BY <2>4 DEF Link
    <3>2. hand[t] \in Nat
      BY <1>0, FileTyped DEF FillingOK
    <3>3. \A r \in Streams : queue'[r] \in Seq(Nat)
      BY <1>0, <3>1, <3>2 DEF QueuesOK
    <3>4. queue' \in [Streams -> Seq(Nat)]
      BY <1>0, <3>1, <3>3 DEF QueuesOK
    <3> QED
      BY <1>0, <2>4, <3>4 DEF Link, QueuesOK
  <2> QED
    BY <2>1, <2>2, <2>3, <2>4 DEF FillBuffer
<1> QED
  BY <1>1, <1>2, <1>3, <1>4 DEF TypeOK

(* What the main thread does besides filling keeps the types of the queues. *)
LEMMA MainQueuesTyped ==
  ASSUME TypeOK, MainThread \/ Client
  PROVE  QueuesOK'
<1>0. QueuesOK /\ ThreadsOK
  BY DEF TypeOK
<1>1. CASE FillBuffer("main")
  BY <1>1, FillBufferTyped DEF TypeOK, Threads
<1>2. CASE ClearList
  <2>1. <<>> \in Seq(Nat) /\ 0 \in Nat
    OBVIOUS
  <2>2. queue' \in [Streams -> Seq(Nat)]
    BY <1>0, <1>2, <2>1 DEF ClearList, QueuesOK
  <2>3. got' \in [Streams -> Nat]
    BY <1>0, <1>2, <2>1 DEF ClearList, QueuesOK
  <2> QED
    BY <1>0, <1>2, <2>2, <2>3 DEF ClearList, QueuesOK
<1>3. CASE ClearCount
  BY <1>0, <1>3 DEF ClearCount, QueuesOK
<1>4. CASE Take
  <2>1. CASE queue[ds] = <<>>
    BY <1>0, <1>4, <2>1 DEF Take, QueuesOK
  <2>2. CASE queue[ds] # <<>>
    <3>1. /\ queue' = [queue EXCEPT ![ds] = Tail(queue[ds])]
          /\ packs' = [packs EXCEPT ![ds] = packs[ds] - 1]
          /\ got' = [got EXCEPT ![ds] = Head(queue[ds])]
          /\ packs[ds] > 0 /\ UNCHANGED <<eof, next>>
      BY <1>4, <2>2 DEF Take
    <3>2. ds \in Streams /\ queue[ds] \in Seq(Nat) /\ packs[ds] \in Nat
      BY <1>0 DEF QueuesOK, ThreadsOK
    <3>3. Tail(queue[ds]) \in Seq(Nat) /\ Head(queue[ds]) \in Nat
      BY <2>2, <3>2
    <3> QED
      BY <1>0, <3>1, <3>2, <3>3 DEF QueuesOK
  <2> QED
    BY <2>1, <2>2
<1>5. CASE NothingQueued \/ CheckVideo \/ ReturnEof
  BY <1>0, <1>5 DEF NothingQueued, CheckVideo, ReturnEof, QueuesOK
<1>6. CASE FlushList
  <2>1. <<>> \in Seq(Nat)
    OBVIOUS
  <2>2. queue' \in [Streams -> Seq(Nat)]
    BY <1>0, <1>6, <2>1 DEF FlushList, QueuesOK
  <2> QED
    BY <1>0, <1>6, <2>2 DEF FlushList, QueuesOK
<1>7. CASE FlushCount
  BY <1>0, <1>7 DEF FlushCount, QueuesOK
<1>8. CASE Reposition
  BY <1>0, <1>8 DEF Reposition, QueuesOK
<1>9. CASE UNCHANGED queues
  BY <1>0, <1>9, PartsKept
<1> QED
  BY <1>1, <1>2, <1>3, <1>4, <1>5, <1>6, <1>7, <1>8, <1>9
     DEF MainThread, Client, WaitForPacket, DemuxHere, Demuxed, SeekLock, SeekUnlock, Joined,
         Get, Seek, SetSpeed, Quit

(* The types of the queues, the mutexes, the modes and the two threads hold *)
(* in every step of either thread.                                          *)
THEOREM TypeCorrect == Spec => []TypeOK
<1>1. Init => TypeOK
  <2> SUFFICES ASSUME Init PROVE TypeOK
    OBVIOUS
  <2>1. QueuesOK
    <3>1. queue = [s \in Streams |-> <<>>] /\ <<>> \in Seq(Nat)
      BY DEF Init
    <3>2. queue \in [Streams -> Seq(Nat)]
      BY <3>1
    <3> QED
      BY <3>2, FileTyped DEF Init, QueuesOK
  <2>2. LocksOK /\ ModesOK
    BY BoundsAssumption DEF Init, LocksOK, ModesOK, Holders
  <2>3. FillingOK
    BY FileTyped DEF Init, FillingOK
  <2>4. ThreadsOK
    <3>1. 0 \in 0..MaxSeeks /\ "video" \in Streams
      BY BoundsAssumption DEF Streams
    <3> QED
      BY <3>1 DEF Init, ThreadsOK
  <2> QED
    BY <2>1, <2>2, <2>3, <2>4 DEF TypeOK
<1>2. TypeOK /\ [Next]_vars => TypeOK'
  <2> SUFFICES ASSUME TypeOK, [Next]_vars PROVE TypeOK'
    OBVIOUS
  <2>0. QueuesOK /\ LocksOK /\ ModesOK /\ FillingOK /\ ThreadsOK
    BY DEF TypeOK
  <2>1. CASE UNCHANGED vars
    BY <2>0, <2>1, PartsKept DEF TypeOK
  <2>2. CASE \E t \in Threads : FillBuffer(t)
    BY <2>2, FillBufferTyped
  <2>3. CASE DemuxThread /\ ~FillBuffer("thread")
    <3>1. QueuesOK'
      BY <2>0, <2>3, PartsKept DEF DemuxThread, Top, Waited, Recheck, ThreadLock, ThreadFill,
         ThreadSkip, ThreadFilled, ThreadUnlock
    <3>2. LocksOK'
      BY <2>0, <2>3, PartsKept DEF DemuxThread, Top, Waited, Recheck, ThreadLock, ThreadFill,
         ThreadSkip, ThreadFilled, ThreadUnlock, LocksOK, Holders, Threads
    <3>3. ModesOK'
      BY <2>0, <2>3, PartsKept DEF DemuxThread, Top, Waited, Recheck, ThreadLock, ThreadFill,
         ThreadSkip, ThreadFilled, ThreadUnlock, ModesOK, Stopping
    <3>4. FillingOK'
      BY <2>0, <2>3, PartsKept DEF DemuxThread, Top, Waited, Recheck, ThreadLock, ThreadFill,
         ThreadSkip, ThreadFilled, ThreadUnlock, FillingOK
    <3>5. ThreadsOK'
      BY <2>0, <2>3, PartsKept DEF DemuxThread, Top, Waited, Recheck, ThreadLock, ThreadFill,
         ThreadSkip, ThreadFilled, ThreadUnlock, ThreadsOK, After
    <3> QED
      BY <3>1, <3>2, <3>3, <3>4, <3>5 DEF TypeOK
  <2>4. CASE (MainThread \/ Client) /\ ~FillBuffer("main")
    <3> USE DEF MainThread, Client
    <3>1. QueuesOK'
      BY <2>4, MainQueuesTyped
    <3>2. LocksOK'
      BY <2>0, <2>4 DEF ClearList, ClearCount, Take, NothingQueued, WaitForPacket, DemuxHere,
         Demuxed, CheckVideo, ReturnEof, SeekLock, FlushList, FlushCount, Reposition,
         SeekUnlock, Joined, Get, Seek, SetSpeed, Quit, LocksOK, Holders, Threads
    <3>3. ModesOK'
      BY <2>0, <2>4, BoundsAssumption DEF ClearList, ClearCount, Take, NothingQueued,
         WaitForPacket, DemuxHere,
         Demuxed, CheckVideo, ReturnEof, SeekLock, FlushList, FlushCount, Reposition,
         SeekUnlock, Joined, Get, Seek, SetSpeed, Quit, ModesOK
    <3>4. FillingOK'
      BY <2>0, <2>4 DEF ClearList, ClearCount, Take, NothingQueued, WaitForPacket, DemuxHere,
         Demuxed, CheckVideo, ReturnEof, SeekLock, FlushList, FlushCount, Reposition,
         SeekUnlock, Joined, Get, Seek, SetSpeed, Quit, FillingOK
    <3>5. ThreadsOK'
      <4>1. CASE ClearList \/ ClearCount \/ Take \/ NothingQueued
        BY <2>0, <4>1 DEF ClearList, ClearCount, Take, NothingQueued, ThreadsOK
      <4>2. CASE WaitForPacket \/ DemuxHere \/ Demuxed \/ CheckVideo \/ ReturnEof
        BY <2>0, <4>2 DEF WaitForPacket, DemuxHere, Demuxed, CheckVideo, ReturnEof, ThreadsOK
      <4>3. CASE SeekLock \/ FlushList \/ FlushCount \/ Reposition \/ SeekUnlock \/ Joined
        BY <2>0, <4>3 DEF SeekLock, FlushList, FlushCount, Reposition, SeekUnlock, Joined,
           ThreadsOK
      <4>4. CASE Get \/ SetSpeed \/ Quit
        BY <2>0, <4>4 DEF Get, SetSpeed, Quit, ThreadsOK
      <4>5. CASE Seek
        BY <2>0, <4>5, BoundsAssumption DEF Seek, ThreadsOK
      <4> QED
        BY <2>4, <4>1, <4>2, <4>3, <4>4, <4>5
    <3> QED
      BY <3>1, <3>2, <3>3, <3>4, <3>5 DEF TypeOK
  <2> QED
    BY <2>1, <2>2, <2>3, <2>4 DEF Next, Threads, DemuxThread, MainThread
<1> QED
  BY <1>1, <1>2, PTL DEF Spec

-----------------------------------------------------------------------------
(* What the main thread or the demux thread does outside demux_fill_buffer  *)
(* takes and releases seekmtx alone.                                        *)
LEMMA OutsideFillLocked ==
  ASSUME TypeOK, Locked, UNCHANGED <<demuxmtx, dsmtx, hand>>,
         NEW t \in Threads,
         \/ fpc' = fpc
         \/ fpc[t] \in {"no", "done"} /\ \E p \in {"no", "lock"} : fpc' = [fpc EXCEPT ![t] = p],
         \/ next' = next
         \/ \A u \in Threads : fpc[u] = "no"
  PROVE  DemuxLocked' /\ QueueLocked' /\ InHand'
<1>1. \A u \in Threads : \/ fpc'[u] = fpc[u]
                         \/ fpc[u] \in {"no", "done"} /\ fpc'[u] \in {"no", "lock"}
  BY DEF TypeOK, FillingOK
<1>2. DemuxLocked'
  BY <1>1 DEF Locked, DemuxLocked
<1>3. QueueLocked'
  BY <1>1 DEF Locked, QueueLocked
<1>4. InHand'
  BY <1>1 DEF Locked, InHand
<1> QED
  BY <1>2, <1>3, <1>4

(* demux_fill_buffer takes demuxmtx and dsmtx around what it does.          *)
LEMMA FillBufferLocked ==
  ASSUME TypeOK, Locked, NEW t \in Threads, FillBuffer(t)
  PROVE  Locked'
<1>0. /\ fpc \in [Threads -> {"no", "lock", "read", "count", "link", "unlock", "done"}]
      /\ hand \in [Threads -> 0..Len(File)] /\ next \in 1..(Len(File) + 1)
      /\ dsmtx \in [Streams -> Holders]
      /\ Len(File) \in Nat
  BY FileTyped DEF TypeOK, QueuesOK, LocksOK, FillingOK
<1>1. SeekLocked'
  BY <1>0 DEF FillBuffer, FillLock, ReadPacket, Count, Link, FillUnlock, Locked, SeekLocked,
     Threads
<1>2. DemuxLocked'
  BY <1>0 DEF FillBuffer, FillLock, ReadPacket, Count, Link, FillUnlock, Locked, DemuxLocked,
     Threads
<1>3. InHand'
  BY <1>0 DEF FillBuffer, FillLock, ReadPacket, Count, Link, FillUnlock, Locked, InHand,
     DemuxLocked, Threads
<1>4. QueueLocked'
  <2>1. CASE FillLock(t) \/ ReadPacket(t) \/ FillUnlock(t)
    BY <1>0, <2>1 DEF FillLock, ReadPacket, FillUnlock, Locked, QueueLocked
  <2>2. CASE Count(t)
    BY <1>0, <2>2 DEF Count, Locked, QueueLocked, Threads
  <2>3. CASE Link(t)
    BY <1>0, <2>3 DEF Link, Locked, QueueLocked, DemuxLocked, Threads
  <2> QED
    BY <2>1, <2>2, <2>3 DEF FillBuffer
<1> QED
  BY <1>1, <1>2, <1>3, <1>4 DEF Locked

(* The mutexes are held where the code is between their lock and unlock,    *)
(* for every file and in every interleaving.                                *)
LEMMA LockInvariant == Spec => []Locked
<1>1. Init => Locked
  BY DEF Init, Locked, DemuxLocked, QueueLocked, SeekLocked, InHand, Threads, Streams
<1>2. TypeOK /\ Locked /\ [Next]_vars => Locked'
  <2> SUFFICES ASSUME TypeOK, Locked, [Next]_vars PROVE Locked'
    OBVIOUS
  <2>1. CASE \E t \in Threads : FillBuffer(t)
    BY <2>1, FillBufferLocked
  <2>2. CASE DemuxThread /\ ~FillBuffer("thread")
    <3>1. DemuxLocked' /\ QueueLocked' /\ InHand'
      BY <2>2, OutsideFillLocked
         DEF DemuxThread, Top, Waited, Recheck, ThreadLock, ThreadFill, ThreadSkip,
             ThreadFilled, ThreadUnlock, Threads
    <3>2. SeekLocked'
      BY <2>2
         DEF DemuxThread, Top, Waited, Recheck, ThreadLock, ThreadFill, ThreadSkip,
             ThreadFilled, ThreadUnlock, Threads, After, Streams, TypeOK, FillingOK,
             Locked, SeekLocked
    <3> QED
      BY <3>1, <3>2 DEF Locked
  <2>3. CASE Reposition
    BY <2>3, OutsideFillLocked DEF Reposition, Locked, SeekLocked, Threads, Streams
  <2>4. CASE (MainThread \/ Client) /\ ~FillBuffer("main") /\ ~Reposition
    <3>1. UNCHANGED <<demuxmtx, dsmtx, hand, next>>
      BY <2>4
         DEF MainThread, ClearList, ClearCount, Take, NothingQueued, WaitForPacket, DemuxHere,
             Demuxed, CheckVideo, ReturnEof, SeekLock, FlushList, FlushCount, SeekUnlock,
             Joined, Client, Get, Seek, SetSpeed, Quit
    <3>2. \/ fpc' = fpc
          \/ DemuxHere \/ Demuxed
      BY <2>4
         DEF MainThread, ClearList, ClearCount, Take, NothingQueued, WaitForPacket,
             CheckVideo, ReturnEof, SeekLock, FlushList, FlushCount, SeekUnlock,
             Joined, Client, Get, Seek, SetSpeed, Quit
    <3>3. \/ fpc' = fpc
          \/ /\ fpc["main"] \in {"no", "done"}
             /\ \E p \in {"no", "lock"} : fpc' = [fpc EXCEPT !["main"] = p]
      <4>1. CASE DemuxHere
        <5>1. fpc["main"] = "no"
          BY <4>1 DEF DemuxHere, Locked, SeekLocked
        <5> QED
          BY <4>1, <5>1 DEF DemuxHere
      <4>2. CASE Demuxed
        BY <4>2 DEF Demuxed
      <4> QED
        BY <3>2, <4>1, <4>2
    <3>4. DemuxLocked' /\ QueueLocked' /\ InHand'
      BY <3>1, <3>3, OutsideFillLocked DEF Threads
    <3>5. SeekLocked'
      <4> USE DEF Locked, SeekLocked, Threads
      <4>1. CASE ClearList \/ ClearCount \/ Take \/ NothingQueued \/ WaitForPacket
        BY <4>1 DEF ClearList, ClearCount, Take, NothingQueued, WaitForPacket
      <4>2. CASE DemuxHere \/ Demuxed
        BY <4>2 DEF DemuxHere, Demuxed, TypeOK, FillingOK
      <4>3. CASE CheckVideo \/ ReturnEof \/ Joined \/ Client
        BY <4>3 DEF CheckVideo, ReturnEof, Joined, Client, Get, Seek, SetSpeed, Quit
      <4>4. CASE SeekLock \/ FlushList \/ FlushCount \/ SeekUnlock
        BY <4>4 DEF SeekLock, FlushList, FlushCount, SeekUnlock
      <4> QED
        BY <2>4, <4>1, <4>2, <4>3, <4>4 DEF MainThread
    <3> QED
      BY <3>4, <3>5 DEF Locked
  <2>5. CASE UNCHANGED vars
    BY <2>5 DEF Locked, DemuxLocked, QueueLocked, SeekLocked, InHand
  <2> QED
    BY <2>1, <2>2, <2>3, <2>4, <2>5 DEF Next, Threads, DemuxThread, MainThread
<1> QED
  BY <1>1, <1>2, TypeCorrect, PTL DEF Spec

(* demux_seek moves the file while neither thread is inside the format's    *)
(* fill_buffer and the demux thread waits for no other step.                *)
THEOREM SeekShutsOut == Spec => []SeekOwnsFile
<1>1. TypeOK /\ Locked => SeekOwnsFile
  BY DEF TypeOK, LocksOK, FillingOK, Locked, DemuxLocked, SeekLocked, SeekOwnsFile, Holders, Threads, Streams
<1> QED
  BY <1>1, TypeCorrect, LockInvariant, PTL

-----------------------------------------------------------------------------
(* The chain of a stream depends on these variables alone.                  *)
LEMMA ChainKept ==
  ASSUME NEW s \in Streams, NEW q \in Seq(Nat), NEW g \in Nat,
         Chain(s, q, g), UNCHANGED <<next, hand>>
  PROVE  Chain(s, q, g)'
  BY DEF Chain, Latest, Follows

(* A packet that is read goes into a hand, after all others of its stream.  *)
LEMMA ReadPacketChains ==
  ASSUME TypeOK, Locked, NEW t \in Threads, ReadPacket(t),
         NEW s \in Streams, NEW q \in Seq(Nat), NEW g \in Nat, Chain(s, q, g)
  PROVE  Chain(s, q, g)'
<1>0. /\ next \in Nat /\ next > 0 /\ hand \in [Threads -> 0..Len(File)] /\ Len(File) \in Nat
  BY FileTyped DEF TypeOK, QueuesOK, FillingOK
<1>a. hand[t] = 0
  BY DEF ReadPacket, Locked, InHand
<1>1. CASE next > Len(File)
  BY <1>1, ChainKept DEF ReadPacket
<1>2. CASE ~(next > Len(File))
  <2>1. next' = next + 1 /\ hand' = [hand EXCEPT ![t] = next]
    BY <1>2 DEF ReadPacket
  <2>2. ASSUME NEW p \in Nat, Latest(s, p) PROVE Latest(s, p)'
    <3> SUFFICES ASSUME NEW i \in (p + 1)..next, File[i] = s
                 PROVE  \E u \in Threads : hand'[u] = i
      BY <1>0, <2>1 DEF Latest
    <3>1. CASE i = next
      BY <1>0, <2>1, <3>1
    <3>2. CASE i # next
      <4>1. i \in (p + 1)..(next - 1)
        BY <1>0, <3>2
      <4>2. PICK u \in Threads : hand[u] = i
        BY <2>2, <4>1 DEF Latest
      <4> QED
        BY <1>0, <1>a, <2>1, <4>1, <4>2
    <3> QED
      BY <3>1, <3>2
  <2>3. /\ g < next'
        /\ \A i \in 1..Len(q) : q[i] \in 1..(next' - 1) /\ File[q[i]] = s
        /\ \A i \in 1..(Len(q) - 1) : Follows(s, q[i], q[i + 1])
    BY <1>0, <2>1 DEF Chain
  <2>4. q # <<>> => Latest(s, q[Len(q)])'
    BY <2>2 DEF Chain
  <2>5. /\ g # 0 /\ q = <<>> => Latest(s, g)'
        /\ g # 0 /\ q # <<>> => Follows(s, g, q[1])
    BY <2>2 DEF Chain
  <2>6. ASSUME NEW u \in Threads, hand'[u] # 0
        PROVE  g < hand'[u] /\ \A i \in 1..Len(q) : q[i] < hand'[u]
    BY <1>0, <1>a, <2>1, <2>6 DEF Chain
  <2> QED
    BY <2>3, <2>4, <2>5, <2>6 DEF Chain
<1> QED
  BY <1>1, <1>2

(* Linking a packet moves it from the hand to the end of its queue.         *)
LEMMA LinkChains ==
  ASSUME TypeOK, Locked, NEW t \in Threads, Link(t),
         NEW s \in Streams, NEW q \in Seq(Nat), NEW g \in Nat, Chain(s, q, g),
         NEW h, h = hand[t]
  PROVE  Chain(s, IF File[h] = s THEN Append(q, h) ELSE q, g)'
<1>0. /\ next \in Nat /\ hand \in [Threads -> 0..Len(File)] /\ Len(File) \in Nat
      /\ h = next - 1 /\ next > 1 /\ h \in Nat /\ h # 0
      /\ hand' = [hand EXCEPT ![t] = 0] /\ next' = next
  <2>1. fpc[t] = "link" /\ hand' = [hand EXCEPT ![t] = 0] /\ next' = next
    BY Zenon DEF Link
  <2>2. Len(File) \in Nat /\ next \in 1..(Len(File) + 1) /\ hand \in [Threads -> 0..Len(File)]
    BY FileTyped, Zenon DEF TypeOK, QueuesOK, FillingOK
  <2>3. hand[t] = next - 1 /\ next > 1
    BY <2>1 DEF Locked, InHand
  <2> QED
    BY <2>1, <2>2, <2>3
<1>1. CASE File[h] # s
  <2>1. ASSUME NEW p \in Nat, Latest(s, p) PROVE Latest(s, p)'
    BY <1>0, <1>1, <2>1 DEF Latest
  <2>2. q # <<>> => Latest(s, q[Len(q)])'
    BY <2>1 DEF Chain
  <2>3. /\ g # 0 /\ q = <<>> => Latest(s, g)'
        /\ g # 0 /\ q # <<>> => Follows(s, g, q[1])
    BY <2>1 DEF Chain
  <2> QED
    BY <1>0, <1>1, <2>2, <2>3 DEF Chain
<1>2. CASE File[h] = s
  <2> DEFINE r == Append(q, h)
  <2>a. q = <<>> <=> Len(q) = 0
    BY EmptySeq
  <2>1. /\ r \in Seq(Nat) /\ Len(r) = Len(q) + 1 /\ Len(q) \in Nat
        /\ r[Len(r)] = h /\ \A i \in 1..Len(q) : r[i] = q[i]
    BY <1>0
  <2>b. r # <<>>
    BY <2>1, EmptySeq
  <2>2. ASSUME NEW p \in Nat, p < h, Latest(s, p) PROVE Follows(s, p, h)
    <3> SUFFICES ASSUME NEW i \in (p + 1)..(h - 1), File[i] = s PROVE FALSE
      BY <2>2 DEF Follows
    <3>1. PICK u \in Threads : hand[u] = i
      BY <1>0, <2>2 DEF Latest
    <3>2. hand[u] = next - 1
      BY <1>0, <3>1 DEF Locked, InHand
    <3> QED
      BY <1>0, <3>1, <3>2
  <2>3. ASSUME NEW i \in 1..Len(r) PROVE r[i] \in 1..(next - 1) /\ File[r[i]] = s
    BY <1>0, <1>2, <2>1 DEF Chain
  <2>4. ASSUME NEW i \in 1..(Len(r) - 1) PROVE Follows(s, r[i], r[i + 1])
    <3>1. CASE i = Len(q)
      <4>0. i \in 1..Len(q) /\ q # <<>>
        BY <2>1, <2>a, <3>1
      <4>1. Latest(s, q[i])
        BY <3>1, <4>0 DEF Chain
      <4>3. q[i] \in Nat
        BY <4>0
      <4>4. q[i] < h
        <5>1. hand[t] # 0 => \A j \in 1..Len(q) : q[j] < hand[t]
          BY DEF Chain
        <5> QED
          BY <1>0, <4>0, <5>1
      <4>2. r[i] = q[i] /\ r[i + 1] = h
        BY <2>1, <3>1, <4>0
      <4> QED
        BY <2>2, <4>1, <4>2, <4>3, <4>4
    <3>2. CASE i # Len(q)
      <4>1. i \in 1..(Len(q) - 1) /\ r[i] = q[i] /\ r[i + 1] = q[i + 1]
        BY <2>1, <3>2
      <4> QED
        BY <4>1 DEF Chain
    <3> QED
      BY <3>1, <3>2
  <2>5. Latest(s, h)'
    BY <1>0 DEF Latest
  <2>6. g # 0 => Follows(s, g, r[1])
    <3> SUFFICES ASSUME g # 0 PROVE Follows(s, g, r[1])
      OBVIOUS
    <3>1. CASE q = <<>>
      <4>0. Len(r) = 1
        BY <2>1, <2>a, <3>1
      <4>1. Latest(s, g) /\ g < h /\ r[1] = h
        BY <1>0, <2>1, <3>1, <4>0 DEF Chain
      <4> QED
        BY <2>2, <4>1
    <3>2. CASE q # <<>>
      <4>1. r[1] = q[1]
        BY <2>1, <2>a, <3>2
      <4> QED
        BY <3>2, <4>1 DEF Chain
    <3> QED
      BY <3>1, <3>2
  <2>7. ASSUME NEW u \in Threads, hand'[u] # 0 PROVE FALSE
    <3>1. u # t /\ hand[u] # 0
      BY <1>0, <2>7
    <3>2. fpc[u] \in {"count", "link"} /\ fpc[t] = "link"
      BY <3>1 DEF Locked, InHand, Link
    <3>3. demuxmtx = u /\ demuxmtx = t
      BY <3>2 DEF Locked, DemuxLocked
    <3> QED
      BY <3>1, <3>3
  <2>8. g < next
    BY DEF Chain
  <2> HIDE DEF r
  <2>9. Chain(s, r, g)'
    BY <1>0, <2>1, <2>b, <2>3, <2>4, <2>5, <2>6, <2>7, <2>8 DEF Chain
  <2> QED
    BY <1>2, <2>9 DEF r
<1> QED
  BY <1>1, <1>2

(* Taking the head of the queue.                                            *)
LEMMA TakeChains ==
  ASSUME TypeOK, NEW s \in Streams, NEW q \in Seq(Nat), NEW g \in Nat, Chain(s, q, g), q # <<>>
  PROVE  Chain(s, Tail(q), Head(q)) /\ (g # 0 => Follows(s, g, Head(q)))
<1> DEFINE r == Tail(q)
<1>1. /\ r \in Seq(Nat) /\ Len(r) = Len(q) - 1
      /\ \A i \in 1..Len(r) : r[i] = q[i + 1]
  BY HeadTailProperties
<1>2. Head(q) = q[1]
  OBVIOUS
<1>3. Len(q) \in Nat \ {0} /\ (r = <<>> <=> Len(r) = 0)
  BY <1>1, EmptySeq
<1> HIDE DEF r
<1>4. next \in Nat
  BY FileTyped DEF TypeOK, QueuesOK
<1>5. q[1] \in 1..(next - 1) /\ q[1] < next
  <2>1. 1 \in 1..Len(q)
    BY <1>3
  <2> QED
    BY <1>4, <2>1 DEF Chain
<1>6. ASSUME NEW i \in 1..Len(r) PROVE i + 1 \in 1..Len(q) /\ r[i] = q[i + 1]
  BY <1>1, <1>3
<1>7. ASSUME NEW i \in 1..(Len(r) - 1) PROVE Follows(s, r[i], r[i + 1])
  <2>1. i \in 1..Len(r) /\ i + 1 \in 1..Len(r) /\ i + 1 \in 1..(Len(q) - 1)
    BY <1>1, <1>3
  <2>2. r[i] = q[i + 1] /\ r[i + 1] = q[(i + 1) + 1]
    BY <1>6, <2>1
  <2> QED
    BY <2>1, <2>2 DEF Chain
<1>8. r # <<>> => Latest(s, r[Len(r)])
  <2> SUFFICES ASSUME r # <<>> PROVE Latest(s, r[Len(r)])
    OBVIOUS
  <2>1. Len(r) \in 1..Len(r) /\ Len(r) + 1 = Len(q)
    BY <1>1, <1>3
  <2>2. r[Len(r)] = q[Len(q)]
    BY <1>6, <2>1
  <2>3. Latest(s, q[Len(q)])
    BY <1>3 DEF Chain
  <2> QED
    BY <2>2, <2>3
<1>9. r = <<>> => Latest(s, q[1])
  <2> SUFFICES ASSUME r = <<>> PROVE Latest(s, q[1])
    OBVIOUS
  <2>1. Len(q) = 1
    BY <1>1, <1>3
  <2> QED
    BY <1>3, <2>1 DEF Chain
<1>10. r # <<>> => Follows(s, q[1], r[1])
  <2> SUFFICES ASSUME r # <<>> PROVE Follows(s, q[1], r[1])
    OBVIOUS
  <2>1. 1 \in 1..(Len(q) - 1) /\ r[1] = q[1 + 1]
    BY <1>1, <1>3
  <2> QED
    BY <2>1 DEF Chain
<1>11. ASSUME NEW t \in Threads, hand[t] # 0
       PROVE  q[1] < hand[t] /\ \A i \in 1..Len(r) : r[i] < hand[t]
  <2>1. \A i \in 1..Len(q) : q[i] < hand[t]
    BY <1>11 DEF Chain
  <2> QED
    BY <1>3, <1>6, <2>1
<1>12. \A i \in 1..Len(r) : r[i] \in 1..(next - 1) /\ File[r[i]] = s
  BY <1>6 DEF Chain
<1>13. Chain(s, r, q[1])
  BY <1>5, <1>7, <1>8, <1>9, <1>10, <1>11, <1>12 DEF Chain
<1> QED
  BY <1>2, <1>13 DEF Chain, r

(* Every step keeps the chain of each stream.                               *)
LEMMA ChainInvariant == Spec => []Chained
<1>1. Init => Chained
  <2> SUFFICES ASSUME Init, NEW s \in Streams PROVE Chain(s, queue[s], got[s])
    BY DEF Init, Chained
  <2>1. queue[s] = <<>> /\ got[s] = 0 /\ next = 1 /\ \A t \in Threads : hand[t] = 0
    BY DEF Init
  <2> QED
    BY <2>1, EmptySeq DEF Chain
<1>2. TypeOK /\ Locked /\ Chained /\ [Next]_vars => Chained'
  <2> SUFFICES ASSUME TypeOK, Locked, Chained, [Next]_vars PROVE Chained'
    OBVIOUS
  <2>0. /\ \A s \in Streams : queue[s] \in Seq(Nat) /\ got[s] \in Nat
        /\ queue \in [Streams -> Seq(Nat)] /\ got \in [Streams -> Nat]
    BY DEF TypeOK, QueuesOK
  <2>k. ASSUME UNCHANGED <<next, hand, queue, got>>, mpc' # "reposition" \/ mpc' = mpc,
               Flushing' \/ ~Flushing
        PROVE  Chained'
    <3>1. ASSUME ~Flushing', NEW s \in Streams PROVE Chain(s, queue[s], got[s])'
      <4>1. PICK q \in Seq(Nat), g \in Nat : q = queue[s] /\ g = got[s]
        BY <2>0
      <4>2. Chain(s, q, g)'
        BY <2>k, <3>1, <4>1, ChainKept DEF Chained
      <4> QED
        BY <2>k, <4>1, <4>2
    <3> QED
      BY <2>k, <3>1 DEF Chained
  <2>1. ASSUME NEW t \in Threads, FillLock(t) \/ Count(t) \/ FillUnlock(t) PROVE Chained'
    BY <2>1, <2>k DEF FillLock, Count, FillUnlock, Flushing
  <2>2. ASSUME NEW t \in Threads, ReadPacket(t) PROVE Chained'
    <3>1. UNCHANGED <<queue, got, mpc>>
      BY <2>2 DEF ReadPacket
    <3>2. ASSUME ~Flushing', NEW s \in Streams PROVE Chain(s, queue[s], got[s])'
      <4>1. PICK q \in Seq(Nat), g \in Nat : q = queue[s] /\ g = got[s]
        BY <2>0
      <4>2. Chain(s, q, g)'
        BY <2>2, <3>1, <3>2, <4>1, ReadPacketChains DEF Chained, Flushing
      <4> QED
        BY <3>1, <4>1, <4>2
    <3> QED
      BY <3>1, <3>2 DEF Chained
  <2>3. ASSUME NEW t \in Threads, Link(t) PROVE Chained'
    <3>1. /\ UNCHANGED <<got, mpc>>
          /\ queue' = [queue EXCEPT ![File[hand[t]]] = Append(queue[File[hand[t]]], hand[t])]
      BY <2>3 DEF Link
    <3>2. ASSUME ~Flushing', NEW s \in Streams PROVE Chain(s, queue[s], got[s])'
      <4>1. PICK q \in Seq(Nat), g \in Nat : q = queue[s] /\ g = got[s]
        BY <2>0
      <4>2. PICK h : h = hand[t]
        OBVIOUS
      <4>3. Chain(s, IF File[h] = s THEN Append(q, h) ELSE q, g)'
        BY <2>3, <3>1, <3>2, <4>1, <4>2, LinkChains DEF Chained, Flushing
      <4>4. queue'[s] = IF File[h] = s THEN Append(q, h) ELSE q
        BY <2>0, <3>1, <4>1, <4>2
      <4> QED
        BY <3>1, <4>1, <4>3, <4>4
    <3>3. mpc # "reposition"
      BY <2>3 DEF Link, Locked, SeekLocked, Threads, Streams
    <3> QED
      BY <3>1, <3>2, <3>3 DEF Chained
  <2>4. CASE Take
    <3>1. ASSUME NEW s \in Streams PROVE Chain(s, queue[s], got[s])'
      <4>1. PICK q \in Seq(Nat), g \in Nat : q = queue[s] /\ g = got[s]
        BY <2>0
      <4>2. Chain(s, q, g) /\ UNCHANGED <<next, hand>>
        BY <2>4, <4>1 DEF Chained, Take, Flushing
      <4>3. CASE s # ds \/ queue[ds] = <<>>
        <5>1. queue'[s] = q /\ got'[s] = g
          BY <2>0, <2>4, <4>1, <4>3 DEF Take
        <5> QED
          BY <4>2, <5>1, ChainKept
      <4>4. CASE s = ds /\ queue[ds] # <<>>
        <5>1. PICK r \in Seq(Nat), h \in Nat : r = Tail(q) /\ h = Head(q)
          BY <4>1, <4>4, HeadTailProperties
        <5>2. queue'[s] = r /\ got'[s] = h
          BY <2>0, <2>4, <4>1, <4>4, <5>1 DEF Take
        <5>3. Chain(s, r, h)
          BY <4>1, <4>2, <4>4, <5>1, TakeChains
        <5> QED
          BY <4>2, <5>2, <5>3, ChainKept
      <4> QED
        BY <4>3, <4>4
    <3> QED
      BY <2>4, <3>1 DEF Take, Chained
  <2>5. CASE ClearList
    <3>1. ASSUME NEW s \in Streams PROVE Chain(s, queue[s], got[s])'
      <4>1. PICK q \in Seq(Nat), g \in Nat : q = queue[s] /\ g = got[s]
        BY <2>0
      <4>2. Chain(s, q, g) /\ UNCHANGED <<next, hand>>
        BY <2>5, <4>1 DEF Chained, ClearList, Flushing
      <4>3. CASE s # "audio"
        <5>1. queue'[s] = q /\ got'[s] = g
          BY <2>0, <2>5, <4>1, <4>3 DEF ClearList
        <5> QED
          BY <4>2, <5>1, ChainKept
      <4>4. CASE s = "audio"
        <5>1. queue'[s] = <<>> /\ got'[s] = 0
          BY <2>0, <2>5, <4>4 DEF ClearList
        <5>2. next' \in Nat /\ next' > 0 /\ \A t \in Threads : hand'[t] \in Nat
          BY <4>2, FileTyped DEF TypeOK, QueuesOK, FillingOK
        <5> QED
          BY <5>1, <5>2, EmptySeq DEF Chain
      <4> QED
        BY <4>3, <4>4
    <3> QED
      BY <2>5, <3>1 DEF ClearList, Chained
  <2>6. CASE FlushList \/ FlushCount
    BY <2>0, <2>6 DEF FlushList, FlushCount, Flushing, Chained
  <2>7. CASE Reposition
    <3>1. ASSUME NEW s \in Streams PROVE Chain(s, queue[s], got[s])'
      <4>1. queue'[s] = <<>> /\ got'[s] = 0
        BY <2>7 DEF Reposition, Chained
      <4>2. \A t \in Threads : hand'[t] = 0
        BY <2>7 DEF Reposition, Locked, SeekLocked, InHand, Threads, Streams
      <4>3. next' \in Nat /\ next' > 0
        BY <2>7, FileTyped DEF Reposition
      <4> QED
        BY <4>1, <4>2, <4>3, EmptySeq DEF Chain
    <3> QED
      BY <2>7, <3>1 DEF Reposition, Chained
  <2>8. CASE DemuxThread /\ ~FillBuffer("thread")
    BY <2>8, <2>k DEF DemuxThread, Top, Waited, Recheck, ThreadLock, ThreadFill, ThreadSkip,
       ThreadFilled, ThreadUnlock, Flushing
  <2>9. CASE NothingQueued \/ ClearCount \/ WaitForPacket \/ DemuxHere \/ Demuxed \/ CheckVideo
    BY <2>9, <2>k DEF NothingQueued, ClearCount, WaitForPacket, DemuxHere, Demuxed, CheckVideo, Flushing
  <2>10. CASE ReturnEof \/ SeekLock \/ SeekUnlock \/ Joined \/ Client
    BY <2>10, <2>k DEF ReturnEof, SeekLock, SeekUnlock, Joined, Client, Get, Seek, SetSpeed, Quit,
       Flushing
  <2>11. CASE UNCHANGED vars
    BY <2>11, <2>k DEF Flushing
  <2>12. CASE \E t \in Threads : FillBuffer(t)
    BY <2>1, <2>2, <2>3, <2>12 DEF FillBuffer
  <2> QED
    BY <2>4, <2>5, <2>6, <2>7, <2>8, <2>9, <2>10, <2>11, <2>12
       DEF Next, Threads, DemuxThread, MainThread
<1> QED
  BY <1>1, <1>2, TypeCorrect, LockInvariant, PTL DEF Spec

(* Each queue holds packets of its stream in the order of the file, none    *)
(* left out, up to the last that was read, though both threads append and   *)
(* the main thread takes, clears and seeks meanwhile.                       *)
THEOREM QueuesFaithful == Spec => []QueueIsFile
<1>1. Chained => QueueIsFile
  BY DEF Chained, Chain, QueueIsFile
<1> QED
  BY <1>1, ChainInvariant, PTL

(* No packet between two that ds_fill_buffer hands out is of their stream.  *)
THEOREM DecodersMissNothing == Spec => NothingSkipped
<1> DEFINE A == \A s \in Streams : got[s] # 0 /\ got'[s] # 0 /\ got'[s] # got[s] =>
                  Follows(s, got[s], got'[s])
<1>1. TypeOK /\ Chained /\ [Next]_vars => [A]_vars
  <2> SUFFICES ASSUME TypeOK, Chained, Next,
                      NEW s \in Streams, got[s] # 0, got'[s] # 0, got'[s] # got[s]
               PROVE  Follows(s, got[s], got'[s])
    OBVIOUS
  <2>1. Take
    BY DEF Next, DemuxThread, MainThread, Client, FillBuffer, FillLock, ReadPacket, Count, Link,
       FillUnlock, Top, Waited, Recheck, ThreadLock, ThreadFill, ThreadSkip, ThreadFilled,
       ThreadUnlock, ClearList, ClearCount, NothingQueued, WaitForPacket, DemuxHere, Demuxed,
       CheckVideo, ReturnEof, SeekLock, FlushList, FlushCount, Reposition, SeekUnlock, Joined,
       Get, Seek, SetSpeed, Quit, TypeOK, QueuesOK
  <2>2. s = ds /\ queue[s] # <<>> /\ got'[s] = Head(queue[s])
    BY <2>1 DEF Take, TypeOK, QueuesOK
  <2>3. Chain(s, queue[s], got[s])
    BY <2>1 DEF Take, Chained, Flushing
  <2>4. PICK q \in Seq(Nat), g \in Nat : q = queue[s] /\ g = got[s]
    BY DEF TypeOK, QueuesOK
  <2> QED
    BY <2>2, <2>3, <2>4, TakeChains
<1> QED
  BY <1>1, TypeCorrect, ChainInvariant, PTL DEF Spec, NothingSkipped

-----------------------------------------------------------------------------
(* While a seek holds the file, no queue is being appended to.              *)
LEMMA SeekLeavesQueuesFree ==
  ASSUME TypeOK, Locked, mpc \in {"flush", "reposition"}, NEW s \in Streams
  PROVE  dsmtx[s] = "free"
<1>1. \A t \in Threads : fpc[t] # "link"
  BY DEF Locked, SeekLocked, Threads, Streams
<1>2. dsmtx[s] \in Threads \cup {"free"}
  BY DEF TypeOK, LocksOK, Holders
<1> QED
  BY <1>1, <1>2 DEF Locked, QueueLocked

(* Counting a packet, linking it and taking one keep count and list equal.  *)
LEMMA StepKeepsCounted ==
  ASSUME Speeds = {0}, TypeOK, Locked, Counted, mpc # "overlist", Next
  PROVE  Counted'
<1>0. /\ queue \in [Streams -> Seq(Nat)] /\ packs \in [Streams -> Nat]
      /\ dsmtx \in [Streams -> Holders] /\ ds \in Streams
  BY DEF TypeOK, QueuesOK, LocksOK, ThreadsOK
<1>k. ASSUME UNCHANGED <<queue, packs, dsmtx, speed>>, UNCHANGED mpc \/ ~Flushing,
             mpc' \notin {"droplist", "dropcount", "overcount", "reposition"} \/ UNCHANGED mpc
      PROVE  Counted'
  BY <1>k DEF Counted, Flushing
<1>1. CASE \E t \in Threads : FillLock(t) \/ ReadPacket(t) \/ FillUnlock(t)
  BY <1>1, <1>k DEF FillLock, ReadPacket, FillUnlock
<1>2. ASSUME NEW t \in Threads, Count(t) PROVE Counted'
  <2> DEFINE r == File[hand[t]]
  <2>1. /\ dsmtx[r] = "free" /\ dsmtx' = [dsmtx EXCEPT ![r] = t]
        /\ packs' = [packs EXCEPT ![r] = packs[r] + 1] /\ UNCHANGED <<queue, speed, mpc>>
    BY <1>2 DEF Count
  <2>2. mpc \notin {"flush", "reposition"}
    BY <1>2 DEF Count, Locked, SeekLocked, Threads, Streams
  <2>3. ASSUME NEW s \in Streams
        PROVE  packs'[s] = Len(queue'[s]) + (IF dsmtx'[s] = "free" THEN 0 ELSE 1)
    <3>1. packs[s] = Len(queue[s]) + (IF dsmtx[s] = "free" THEN 0 ELSE 1)
      BY <2>2 DEF Counted, Flushing
    <3>2. t # "free" /\ Len(queue[s]) \in Nat
      BY <1>0 DEF Threads
    <3> HIDE DEF r
    <3> QED
      BY <1>0, <2>1, <3>1, <3>2
  <2> QED
    BY <2>1, <2>2, <2>3 DEF Counted
<1>3. ASSUME NEW t \in Threads, Link(t) PROVE Counted'
  <2> DEFINE r == File[hand[t]]
  <2>1. /\ dsmtx' = [dsmtx EXCEPT ![r] = "free"] /\ hand[t] \in Nat
        /\ queue' = [queue EXCEPT ![r] = Append(queue[r], hand[t])]
        /\ UNCHANGED <<packs, speed, mpc>>
    BY <1>3, FileTyped DEF Link, TypeOK, FillingOK
  <2>2. mpc \notin {"flush", "reposition"}
    BY <1>3 DEF Link, Locked, SeekLocked, Threads, Streams
  <2>3. r \in Streams => dsmtx[r] = t
    BY <1>3 DEF Link, Locked, QueueLocked
  <2>4. ASSUME NEW s \in Streams
        PROVE  packs'[s] = Len(queue'[s]) + (IF dsmtx'[s] = "free" THEN 0 ELSE 1)
    <3>1. packs[s] = Len(queue[s]) + (IF dsmtx[s] = "free" THEN 0 ELSE 1)
      BY <2>2 DEF Counted, Flushing
    <3>2. t # "free" /\ Len(queue[s]) \in Nat /\ queue[s] \in Seq(Nat)
      BY <1>0 DEF Threads
    <3>3. Len(Append(queue[s], hand[t])) = Len(queue[s]) + 1
      BY <2>1, <3>2
    <3> HIDE DEF r
    <3>4. CASE s = r
      BY <1>0, <2>1, <2>3, <3>1, <3>2, <3>3, <3>4
    <3>5. CASE s # r
      BY <1>0, <2>1, <3>1, <3>5
    <3> QED
      BY <3>4, <3>5
  <2> QED
    BY <2>1, <2>2, <2>4 DEF Counted
<1>4. CASE Take
  <2>1. dsmtx[ds] = "free" /\ mpc = "take" /\ mpc' = "idle" /\ UNCHANGED <<dsmtx, speed>>
    BY <1>4 DEF Take
  <2>2. \A s \in Streams : packs[s] = Len(queue[s]) + (IF dsmtx[s] = "free" THEN 0 ELSE 1)
    BY <2>1 DEF Counted, Flushing
  <2>3. queue[ds] # <<>>
    BY <1>0, <1>4, <2>1, <2>2, EmptySeq DEF Take
  <2>4. /\ queue' = [queue EXCEPT ![ds] = Tail(queue[ds])]
        /\ packs' = [packs EXCEPT ![ds] = packs[ds] - 1]
    BY <1>4, <2>3 DEF Take
  <2>5. Len(Tail(queue[ds])) = Len(queue[ds]) - 1 /\ Len(queue[ds]) \in Nat
    BY <1>0, <2>3, HeadTailProperties
  <2>6. ASSUME NEW s \in Streams
        PROVE  packs'[s] = Len(queue'[s]) + (IF dsmtx'[s] = "free" THEN 0 ELSE 1)
    <3>1. CASE s = ds
      <4>1. queue'[s] = Tail(queue[s]) /\ packs'[s] = packs[s] - 1 /\ packs[s] = Len(queue[s])
        BY <1>0, <2>1, <2>2, <2>4, <3>1
      <4> QED
        BY <2>1, <2>5, <3>1, <4>1
    <3>2. CASE s # ds
      <4>1. queue'[s] = queue[s] /\ packs'[s] = packs[s]
        BY <1>0, <2>4, <3>2
      <4> QED
        BY <2>1, <2>2, <4>1
    <3> QED
      BY <3>1, <3>2
  <2> QED
    BY <2>1, <2>6 DEF Counted
<1>5. CASE FlushList
  BY <1>5 DEF FlushList, Counted, Flushing
<1>6. CASE FlushCount
  BY <1>0, <1>6 DEF FlushCount, Counted, Flushing
<1>7. CASE Reposition
  <2>1. \A s \in Streams : packs'[s] = 0 /\ queue'[s] = <<>> /\ dsmtx'[s] = "free"
    BY <1>7, SeekLeavesQueuesFree DEF Reposition, Counted
  <2>2. mpc' = "unlock" /\ speed' = 0
    BY <1>7 DEF Reposition, Counted
  <2>3. \A s \in Streams : Len(queue'[s]) = 0
    BY <2>1, EmptySeq
  <2>4. ASSUME NEW s \in Streams
        PROVE  packs'[s] = Len(queue'[s]) + (IF dsmtx'[s] = "free" THEN 0 ELSE 1)
    <3>1. packs'[s] = 0 /\ Len(queue'[s]) = 0 /\ dsmtx'[s] = "free"
      BY <2>1, <2>3
    <3> QED
      BY <3>1
  <2>5. /\ mpc' \notin {"droplist", "dropcount", "overcount"} /\ mpc' # "reposition"
    BY <2>2
  <2> QED
    BY <2>2, <2>4, <2>5 DEF Counted
<1>8. CASE DemuxThread /\ ~FillBuffer("thread")
  BY <1>8, <1>k DEF DemuxThread, Top, Waited, Recheck, ThreadLock, ThreadFill, ThreadSkip,
     ThreadFilled, ThreadUnlock
<1>9. CASE Client
  BY <1>9, <1>k DEF Client, Get, Seek, SetSpeed, Quit, Counted, Flushing, TypeOK, ModesOK
<1>10. CASE ClearList \/ ClearCount
  BY <1>10 DEF ClearList, ClearCount, Counted
<1>11. CASE NothingQueued \/ WaitForPacket \/ DemuxHere \/ Demuxed \/ CheckVideo
  BY <1>11, <1>k DEF NothingQueued, WaitForPacket, DemuxHere, Demuxed, CheckVideo, Flushing
<1>12. CASE ReturnEof \/ SeekUnlock \/ Joined
  BY <1>12, <1>k DEF ReturnEof, SeekUnlock, Joined, Flushing
<1>13. CASE SeekLock
  BY <1>13 DEF SeekLock, Counted, Flushing
<1> QED
  BY <1>1, <1>2, <1>3, <1>4, <1>5, <1>6, <1>7, <1>8, <1>9, <1>10, <1>11, <1>12, <1>13
     DEF Next, DemuxThread, MainThread, FillBuffer, Threads

(* At normal speed, and while the audio queue stays under MAX_PACKS, the    *)
(* list and the count that dsmtx protects agree whenever it is free: only   *)
(* the clearing of the audio list outside the mutex breaks that.            *)
THEOREM CountsAgree ==
  ASSUME Speeds = {0}
  PROVE  Spec /\ [](mpc # "overlist") => []CountMatches
<1>1. Init => Counted
  BY EmptySeq DEF Init, Counted
<1>2. TypeOK /\ Locked /\ Counted /\ mpc # "overlist" /\ [Next]_vars => Counted'
  <2>1. UNCHANGED vars /\ Counted => Counted'
    BY DEF Counted, Flushing
  <2> QED
    BY <2>1, StepKeepsCounted
<1>3. TypeOK /\ Counted => CountMatches
  BY DEF TypeOK, QueuesOK, Counted, CountMatches, Flushing
<1> QED
  BY <1>1, <1>2, <1>3, TypeCorrect, LockInvariant, PTL DEF Spec
=============================================================================

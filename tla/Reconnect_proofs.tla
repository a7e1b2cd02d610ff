--------------------------- MODULE Reconnect_proofs ---------------------------
(***************************************************************************)
(* Theorems about Reconnect, for every file, ring, server and bound: what  *)
(* TLC checks on the instance of MCReconnect_drops.cfg.                    *)
(***************************************************************************)
EXTENDS Reconnect, TLAPS

(* Inside stream_read, where n blocks are stored that max does not count.   *)
Reading == fpc \in {"stream", "wait", "reconnect", "store"}

(* A client that never sought stays in the window, so that it is not        *)
(* dropped, and the copy of its position is never ahead of it.              *)
Following ==
  /\ cpc \in {"prefill", "filling"} => seeks = 0
  /\ seeks = 0 => min <= read /\ read <= max /\ fread <= read /\ fpc # "seek"

(* As long as stream_read goes on there is room for another block.          *)
More == fpc \in {"stream", "wait", "reconnect"} => n < space

Types == TypeOK /\ Following /\ More

(* The connection brings what stream2's pos says, and that is what follows  *)
(* the blocks stored so far.                                                *)
InStep ==
  "seek" \notin refused =>
    /\ conn = "up" => at = spos
    /\ fpc = "seek" => max = fread /\ min = fread
    /\ Reading => spos = max + n
    /\ ~Reading /\ fpc # "seek" => spos = max

(* The window, and what follows it in a read that is under way.             *)
Stored ==
  "seek" \notin refused =>
    /\ \A p \in min..(max - 1) : p < FileSize /\ cells[p] = p
    /\ Reading => \A p \in max..(max + n - 1) : p < FileSize /\ cells[p] = p

(* Each reconnect that cnt counts off was for a connection that was closed. *)
Counted ==
  ~seof /\ refused = {} =>
    /\ conn = "down" => drops >= 1
    /\ fpc \in {"stream", "wait", "reconnect"} => cnt + drops >= Retries
    /\ fpc = "stream" /\ conn = "down" => cnt + drops >= Retries + 1

(* Once the update of the reader was made the ring is empty only with a     *)
(* status of 0, or with one that the thread stored late.                    *)
Late == ~mode.undivided /\ fpc \notin {"update", "updated"} /\ status = percent

LowWhenEmpty ==
  /\ mode.undivided => fpc # "updated"
  /\ seeks = 0 /\ ~eof /\ read = max /\ cpc \in {"prefill", "filling", "ready", "read"} =>
       status = 0 \/ Late
-----------------------------------------------------------------------------
LEMMA Quotients ==
  ASSUME NEW a \in Nat, NEW b \in Nat \ {0}
  PROVE  a \div b \in Nat /\ (a = 0 => a \div b = 0)
OBVIOUS

LEMMA Sizes ==
  /\ FileSize \in Nat \ {0} /\ BufferSize \in Nat \ {0}
  /\ FillMax \in Nat \ {0} /\ Prefill \in Nat \ {0}
  /\ BackSize \in Nat /\ FillLimit \in Nat /\ Threshold \in Nat /\ Retries \in Nat
  /\ MaxDrops \in Nat /\ MaxSeeks \in Nat /\ SeekLimit \in Int
  /\ Ranges \in BOOLEAN /\ \A b \in Bodies : b \in Nat
BY SizesAssumption, ModesAssumption

LEMMA PercentIsNat ==
  ASSUME TypeOK
  PROVE  /\ Percent \in Nat
         /\ ~eof /\ read = max => Percent = 0
<1>1. BufferSize \in Nat \ {0}
  BY Sizes
<1>2. CASE eof \/ max < read
  BY <1>2 DEF TypeOK, Percent
<1>3. CASE ~eof /\ ~(max < read)
  <2>1. (max - read) * 100 \in Nat
    BY <1>3 DEF TypeOK
  <2>2. Percent = ((max - read) * 100) \div BufferSize
    BY <1>3 DEF Percent
  <2>3. read = max => (max - read) * 100 = 0
    BY DEF TypeOK
  <2> QED
    BY <1>1, <2>1, <2>2, <2>3, Quotients
<1> QED
  BY <1>2, <1>3

LEMMA TypesInit == Init => Types
<1> SUFFICES ASSUME Init PROVE Types
  OBVIOUS
<1>1. cells \in [0..(FileSize - 1) -> Nat \cup {Hole}]
  BY DEF Init, Hole
<1>2. refused \subseteq {"seek", "resume"}
  BY DEF Init
<1>3. Following /\ More
  BY DEF Init, Following, More
<1>4. /\ min \in Nat /\ max \in Nat /\ read \in Nat /\ backSize \in Nat
      /\ status \in Nat /\ at \in Nat /\ spos \in Nat /\ cnt \in 0..Retries
      /\ fread \in Nat /\ space \in Nat /\ n \in 0..space /\ percent \in Nat
      /\ drops \in 0..MaxDrops /\ seeks \in 0..MaxSeeks
  BY Sizes DEF Init
<1>5. TypeOK
  BY <1>1, <1>2, <1>4 DEF Init, TypeOK
<1> QED
  BY <1>3, <1>5 DEF Types

LEMMA TypesStep == Types /\ [Next]_vars => Types'
<1> SUFFICES ASSUME Types, [Next]_vars PROVE Types'
  OBVIOUS
<1> USE Sizes
<1> USE DEF Types, TypeOK, Following, More
<1>1. CASE Plan
  BY <1>1 DEF Plan, stream, history
<1>2. CASE SeekSource
  <2>1. refused' \subseteq {"seek", "resume"}
    BY <1>2 DEF SeekSource, HttpSeek
  <2>2. at' \in Nat /\ spos' \in Nat /\ conn' \in {"up", "down"} /\ drops' \in 0..MaxDrops
    BY <1>2 DEF SeekSource, HttpSeek
  <2> QED
    BY <1>2, <2>1, <2>2 DEF SeekSource, cache
<1>3. CASE Full
  BY <1>3 DEF Full, Back, Lesser, stream, history
<1>4. CASE Fill
  <2>1. Back \in Nat /\ NewBlocks \in Nat /\ Room = BufferSize - (NewBlocks + Back)
    BY DEF Room, Back, NewBlocks, Lesser
  <2>2. Limit \in Nat
    BY DEF Limit
  <2>3. space' \in Nat /\ space' <= Room /\ space' > 0
    BY <1>4, <2>1, <2>2 DEF Fill, Lesser
  <2>4. min' \in Nat /\ (min <= read /\ fread <= read => min' <= read)
    BY <1>4, <2>1, <2>3 DEF Fill, Greater
  <2>5. n' = 0 /\ cnt' = Retries /\ fpc' \in {"store", "stream"}
    BY <1>4 DEF Fill
  <2> QED
    BY <1>4, <2>3, <2>4, <2>5 DEF Fill, history
<1>5. CASE Deliver
  <2>1. cells' \in [0..(FileSize - 1) -> Nat \cup {Hole}]
    BY <1>5 DEF Deliver
  <2>2. n' \in 0..space /\ at' \in Nat /\ spos' \in Nat /\ cnt' \in 0..Retries
    BY <1>5 DEF Deliver
  <2> QED
    BY <1>5, <2>1, <2>2 DEF Deliver, history
<1>6. CASE Dropped
  <2>1. cnt' \in 0..Retries /\ fpc' \in {"store", "wait"} /\ seof' \in BOOLEAN
    <3>1. CASE GivesUp
      BY <1>6, <3>1 DEF Dropped, Nothing
    <3>2. CASE ~GivesUp
      <4>1. cnt > 0
        BY <3>2 DEF GivesUp
      <4> QED
        BY <1>6, <3>2, <4>1 DEF Dropped, Nothing
    <3> QED
      BY <3>1, <3>2
  <2> QED
    BY <1>6, <2>1 DEF Dropped, Nothing, cache
<1>7. CASE NothingLeft
  <2>1. cnt' \in 0..Retries /\ fpc' \in {"store", "wait"} /\ seof' \in BOOLEAN
    <3>1. CASE GivesUp
      BY <1>7, <3>1 DEF NothingLeft, Nothing
    <3>2. CASE ~GivesUp
      <4>1. cnt > 0
        BY <3>2 DEF GivesUp
      <4> QED
        BY <1>7, <3>2, <4>1 DEF NothingLeft, Nothing
    <3> QED
      BY <3>1, <3>2
  <2> QED
    BY <1>7, <2>1 DEF NothingLeft, Nothing, cache
<1>8. CASE WaitForReader
  BY <1>8 DEF WaitForReader, cache, stream, history
<1>9. CASE Resume
  <2>1. refused' \subseteq {"seek", "resume"}
    BY <1>9 DEF Resume, HttpSeek, Restart
  <2>2. at' \in Nat /\ spos' \in Nat /\ conn' \in {"up", "down"} /\ drops' \in 0..MaxDrops
    BY <1>9 DEF Resume, HttpSeek, Restart, Greater
  <2>3. fpc' \in {"stream", "store"} /\ seof' \in BOOLEAN
    BY <1>9 DEF Resume
  <2> QED
    BY <1>9, <2>1, <2>2, <2>3 DEF Resume, cache
<1>10. CASE Store
  BY <1>10 DEF Store, stream, history
<1>11. CASE Update
  BY <1>11, PercentIsNat DEF Update, cache, stream, history
<1>12. CASE Updated
  BY <1>12 DEF Updated, cache, stream, history
<1>13. CASE Poll
  BY <1>13 DEF Poll, stream, history
<1>14. CASE PrefillTest
  <2>1. (max - read) * 100 \in Nat
    BY <1>14 DEF PrefillTest
  <2>2. ((max - read) * 100) \div Prefill \in Nat
    BY <2>1, Quotients
  <2>3. status' \in Nat /\ cpc' \in {"filling", "ready"}
    BY <1>14, <2>2 DEF PrefillTest
  <2> QED
    BY <1>14, <2>3 DEF PrefillTest, cache, stream, filler, history
<1>15. CASE PrefillCheck
  BY <1>15 DEF PrefillCheck, cache, stream, filler, history
<1>16. CASE Interrupt
  BY <1>16 DEF Interrupt, stream, filler, history
<1>17. CASE Read
  BY <1>17 DEF Read, cache, stream, filler, history
<1>18. ASSUME NEW p \in 0..FileSize, SeekTo(p) PROVE Types'
  <2>1. seeks' \in 0..MaxSeeks /\ seeks' # 0 /\ read' \in Nat
    BY <1>18 DEF SeekTo
  <2> QED
    BY <1>18, <2>1 DEF SeekTo, stream, filler
<1>19. CASE Copy
  BY <1>19 DEF Copy, stream, filler, history
<1>20. CASE Copied
  BY <1>20, PercentIsNat DEF Copied, cache, stream, filler, history
<1>21. CASE Quit
  BY <1>21 DEF Quit, stream, filler, history
<1>22. CASE QuitDone
  BY <1>22 DEF QuitDone, cache, stream, filler, history
<1>23. CASE UNCHANGED vars
  BY <1>23 DEF vars, cache, stream, filler, history
<1> QED
  BY <1>1, <1>2, <1>3, <1>4, <1>5, <1>6, <1>7, <1>8, <1>9, <1>10, <1>11, <1>12, <1>13,
     <1>14, <1>15, <1>16, <1>17, <1>18, <1>19, <1>20, <1>21, <1>22, <1>23
  DEF Next, CacheThread, Started

LEMMA TypesAlways == Spec => []Types
BY TypesInit, TypesStep, PTL DEF Spec

(* Type correctness, for every file, ring, server and bound.                *)
THEOREM TypeCorrect == Spec => []TypeOK
BY TypesAlways, PTL DEF Types

-----------------------------------------------------------------------------
(* The reader and the thread do not wait for each other.                    *)
LEMMA LowInit == Init => LowWhenEmpty
BY DEF Init, LowWhenEmpty

LEMMA LowStep == Types /\ LowWhenEmpty /\ [Next]_vars => LowWhenEmpty'
<1> SUFFICES ASSUME Types, LowWhenEmpty, [Next]_vars PROVE LowWhenEmpty'
  OBVIOUS
<1> USE DEF Types, TypeOK, Following, LowWhenEmpty, Late
<1>1. CASE Plan
  BY <1>1 DEF Plan, stream, history
<1>2. CASE SeekSource
  BY <1>2 DEF SeekSource, HttpSeek, cache
<1>3. CASE Full
  BY <1>3 DEF Full, stream, history
<1>4. CASE Fill
  BY <1>4 DEF Fill, history
<1>5. CASE Deliver
  BY <1>5 DEF Deliver, history
<1>6. CASE Dropped
  BY <1>6 DEF Dropped, Nothing, cache
<1>7. CASE NothingLeft
  BY <1>7 DEF NothingLeft, Nothing, cache
<1>8. CASE WaitForReader
  BY <1>8 DEF WaitForReader, cache, stream, history
<1>9. CASE Resume
  BY <1>9 DEF Resume, cache
<1>10. CASE Store
  <2>1. seeks' = 0 => read' # max' \/ eof'
    <3>1. seeks = 0 => read <= max
      OBVIOUS
    <3>2. read' = read /\ max' = max + n /\ seeks' = seeks /\ (n = 0 => eof')
      BY <1>10 DEF Store, history
    <3>3. read \in Nat /\ max \in Nat /\ n \in Nat
      OBVIOUS
    <3> HIDE DEF Types, TypeOK, Following, LowWhenEmpty, Late
    <3> QED
      BY <3>1, <3>2, <3>3
  <2>2. mode.undivided' => fpc' # "updated"
    BY <1>10 DEF Store
  <2> QED
    BY <2>1, <2>2
<1>11. CASE Update
  BY <1>11, PercentIsNat DEF Update, cache, stream, history
<1>12. CASE Updated
  BY <1>12 DEF Updated, cache, stream, history
<1>13. CASE Poll
  BY <1>13 DEF Poll, stream, history
<1>14. CASE PrefillTest
  <2>1. read = max => ((max - read) * 100) \div Prefill = 0
    <3>1. read = max => (max - read) * 100 = 0
      OBVIOUS
    <3> QED
      BY <3>1, Quotients, Sizes
  <2> QED
    BY <1>14, <2>1 DEF PrefillTest, cache, stream, filler, history
<1>15. CASE PrefillCheck
  BY <1>15 DEF PrefillCheck, cache, stream, filler, history
<1>16. CASE Interrupt
  BY <1>16 DEF Interrupt, stream, filler, history
<1>17. CASE Read
  BY <1>17 DEF Read, cache, stream, filler, history
<1>18. ASSUME NEW p \in 0..FileSize, SeekTo(p) PROVE LowWhenEmpty'
  BY <1>18, Sizes DEF SeekTo, stream, filler
<1>19. CASE Copy
  BY <1>19 DEF Copy, stream, filler, history
<1>20. CASE Copied
  BY <1>20, PercentIsNat DEF Copied, cache, stream, filler, history
<1>21. CASE Quit
  BY <1>21 DEF Quit, stream, filler, history
<1>22. CASE QuitDone
  BY <1>22 DEF QuitDone, cache, stream, filler, history
<1>23. CASE UNCHANGED vars
  BY <1>23 DEF vars, cache, stream, filler, history
<1> QED
  BY <1>1, <1>2, <1>3, <1>4, <1>5, <1>6, <1>7, <1>8, <1>9, <1>10, <1>11, <1>12, <1>13,
     <1>14, <1>15, <1>16, <1>17, <1>18, <1>19, <1>20, <1>21, <1>22, <1>23
  DEF Next, CacheThread, Started

(* A thread that waits for the reader goes on when the reader finds the     *)
(* ring empty, whatever the sizes of the ring, the prefill and the          *)
(* threshold, unless it has itself stored a status that it had computed     *)
(* before the reader emptied the ring: there is no other way in which the   *)
(* wait of stream_fill_buffer and that of cache_read hold each other up,    *)
(* for a client that does not seek.                                         *)
THEOREM StarvesOnlyLate == Spec => []StarvedOnlyLate
<1>1. Types /\ LowWhenEmpty => StarvedOnlyLate
  BY Sizes DEF StarvedOnlyLate, LowWhenEmpty, Late, Types, TypeOK
<1> QED
  BY <1>1, TypesAlways, LowInit, LowStep, PTL DEF Spec

-----------------------------------------------------------------------------
(* What is in the window, if the server does what it is asked.              *)
Obedient == Ranges /\ Bodies = {0}

LEMMA StepInit == Init => InStep /\ Stored
BY Sizes DEF Init, InStep, Stored, Reading

LEMMA StepNext ==
  ASSUME Obedient
  PROVE  Types /\ InStep /\ Stored /\ [Next]_vars => InStep' /\ Stored'
<1> SUFFICES ASSUME Types, InStep, Stored, [Next]_vars PROVE InStep' /\ Stored'
  OBVIOUS
<1> USE DEF Types, TypeOK, InStep, Stored, Reading
<1>1. CASE Plan
  BY <1>1 DEF Plan, stream, history
<1>2. CASE SeekSource
  BY <1>2 DEF SeekSource, HttpSeek, cache, Obedient
<1>3. CASE Full
  BY <1>3 DEF Full, stream, history
<1>4. CASE Fill
  <2>1. n' = 0 /\ max' = max /\ cells' = cells /\ refused' = refused /\ min' \in Nat
    BY <1>4, TypesStep DEF Fill, history
  <2>2. min' >= min
    <3>1. space' \in Int /\ NewBlocks \in Int
      BY <1>4, TypesStep DEF NewBlocks
    <3> QED
      BY <1>4, <3>1 DEF Fill, Greater
  <2>3. InStep'
    BY <1>4, <2>1 DEF Fill
  <2>4. Stored'
    BY <2>1, <2>2
  <2> QED
    BY <2>3, <2>4
<1>5. CASE Deliver
  <2> SUFFICES ASSUME "seek" \notin refused PROVE InStep' /\ Stored'
    BY <1>5 DEF Deliver, history
  <2>1. at = max + n /\ at \in 0..(FileSize - 1)
    BY <1>5, Sizes DEF Deliver
  <2>2. cells' = [cells EXCEPT ![max + n] = max + n]
    BY <1>5, <2>1 DEF Deliver
  <2>3. \A p \in min..(max - 1) : cells'[p] = cells[p]
    BY <2>2
  <2>4. \A p \in max..(max + n - 1) : cells'[p] = cells[p]
    BY <2>2
  <2>5. cells'[max + n] = max + n
    BY <2>1, <2>2
  <2> QED
    BY <1>5, <2>1, <2>3, <2>4, <2>5 DEF Deliver, history
<1>6. CASE Dropped
  BY <1>6 DEF Dropped, Nothing, cache
<1>7. CASE NothingLeft
  BY <1>7 DEF NothingLeft, Nothing, cache
<1>8. CASE WaitForReader
  BY <1>8 DEF WaitForReader, cache, stream, history
<1>9. CASE Resume
  <2>1. conn' = "up" => at' = spos /\ spos' = spos
    BY <1>9 DEF Resume, HttpSeek, Restart, Greater, Obedient
  <2>2. spos' = spos /\ fpc' \in {"stream", "store"} /\ ("seek" \in refused => "seek" \in refused')
    BY <1>9 DEF Resume, HttpSeek, Restart
  <2>3. fpc = "reconnect" /\ max' = max /\ min' = min /\ cells' = cells /\ n' = n
    BY <1>9 DEF Resume, cache
  <2>4. InStep'
    BY <2>1, <2>2, <2>3
  <2>5. Stored'
    BY <2>2, <2>3
  <2> QED
    BY <2>4, <2>5
<1>10. CASE Store
  BY <1>10 DEF Store, stream, history
<1>11. CASE Update
  BY <1>11 DEF Update, cache, stream, history
<1>12. CASE Updated
  BY <1>12 DEF Updated, cache, stream, history
<1>13. CASE Poll
  BY <1>13 DEF Poll, stream, history
<1>14. CASE PrefillTest
  BY <1>14 DEF PrefillTest, cache, stream, filler, history
<1>15. CASE PrefillCheck
  BY <1>15 DEF PrefillCheck, cache, stream, filler, history
<1>16. CASE Interrupt
  BY <1>16 DEF Interrupt, stream, filler, history
<1>17. CASE Read
  BY <1>17 DEF Read, cache, stream, filler, history
<1>18. ASSUME NEW p \in 0..FileSize, SeekTo(p) PROVE InStep' /\ Stored'
  BY <1>18 DEF SeekTo, stream, filler
<1>19. CASE Copy
  BY <1>19 DEF Copy, stream, filler, history
<1>20. CASE Copied
  BY <1>20 DEF Copied, cache, stream, filler, history
<1>21. CASE Quit
  BY <1>21 DEF Quit, stream, filler, history
<1>22. CASE QuitDone
  BY <1>22 DEF QuitDone, cache, stream, filler, history
<1>23. CASE UNCHANGED vars
  BY <1>23 DEF vars, cache, stream, filler, history
<1> QED
  BY <1>1, <1>2, <1>3, <1>4, <1>5, <1>6, <1>7, <1>8, <1>9, <1>10, <1>11, <1>12, <1>13,
     <1>14, <1>15, <1>16, <1>17, <1>18, <1>19, <1>20, <1>21, <1>22, <1>23
  DEF Next, CacheThread, Started

(* With a server that honours ranges and sends nothing that the reconnect   *)
(* throws away, the window holds the file, for any number of connections    *)
(* closed at any point of a stream_read.                                    *)
THEOREM WindowFaithful ==
  ASSUME Obedient
  PROVE  Spec => []WindowRight
<1>1. Stored => WindowRight
  BY DEF Stored, WindowRight
<1>2. Types /\ InStep /\ Stored /\ [Next]_vars => InStep' /\ Stored'
  BY StepNext
<1> QED
  BY <1>1, <1>2, TypesAlways, StepInit, PTL DEF Spec

-----------------------------------------------------------------------------
(* When a stream ends.                                                      *)
LEMMA CountedInit == Init => Counted /\ EndIsEnd
BY Sizes DEF Init, Counted, EndIsEnd

LEMMA CountedStep ==
  Types /\ InStep /\ Counted /\ EndIsEnd /\ [Next]_vars => Counted' /\ EndIsEnd'
<1> SUFFICES ASSUME Types, InStep, Counted, EndIsEnd, [Next]_vars
             PROVE  Counted' /\ EndIsEnd'
  OBVIOUS
<1> USE Sizes
<1> USE DEF Types, TypeOK, InStep, Counted, EndIsEnd, Reading
<1>1. CASE Plan
  BY <1>1 DEF Plan, stream, history
<1>2. CASE SeekSource
  BY <1>2 DEF SeekSource, HttpSeek, cache
<1>3. CASE Full
  BY <1>3 DEF Full, stream, history
<1>4. CASE Fill
  BY <1>4 DEF Fill, history
<1>5. CASE Deliver
  BY <1>5 DEF Deliver, history
<1>6. CASE Dropped
  <2>1. GivesUp /\ mode.length /\ (mode.seekable \/ mode.youtube) =>
          cnt <= 0 \/ spos >= FileSize
    BY DEF GivesUp
  <2> QED
    BY <1>6, <2>1 DEF Dropped, Nothing, cache
<1>7. CASE NothingLeft
  <2>1. GivesUp /\ mode.length /\ (mode.seekable \/ mode.youtube) =>
          cnt <= 0 \/ spos >= FileSize
    BY DEF GivesUp
  <2>2. ~GivesUp => spos < FileSize
    BY DEF GivesUp
  <2>3. refused = {} /\ conn = "up" => spos >= FileSize
    BY <1>7 DEF NothingLeft
  <2> QED
    BY <1>7, <2>1, <2>2, <2>3 DEF NothingLeft, Nothing, cache
<1>8. CASE WaitForReader
  BY <1>8 DEF WaitForReader, cache, stream, history
<1>9. CASE Resume
  BY <1>9 DEF Resume, HttpSeek, Restart, cache
<1>10. CASE Store
  BY <1>10 DEF Store, stream, history
<1>11. CASE Update
  BY <1>11 DEF Update, cache, stream, history
<1>12. CASE Updated
  BY <1>12 DEF Updated, cache, stream, history
<1>13. CASE Poll
  BY <1>13 DEF Poll, stream, history
<1>14. CASE PrefillTest
  BY <1>14 DEF PrefillTest, cache, stream, filler, history
<1>15. CASE PrefillCheck
  BY <1>15 DEF PrefillCheck, cache, stream, filler, history
<1>16. CASE Interrupt
  BY <1>16 DEF Interrupt, stream, filler, history
<1>17. CASE Read
  BY <1>17 DEF Read, cache, stream, filler, history
<1>18. ASSUME NEW p \in 0..FileSize, SeekTo(p) PROVE Counted' /\ EndIsEnd'
  BY <1>18 DEF SeekTo, stream, filler
<1>19. CASE Copy
  BY <1>19 DEF Copy, stream, filler, history
<1>20. CASE Copied
  BY <1>20 DEF Copied, cache, stream, filler, history
<1>21. CASE Quit
  BY <1>21 DEF Quit, stream, filler, history
<1>22. CASE QuitDone
  BY <1>22 DEF QuitDone, cache, stream, filler, history
<1>23. CASE UNCHANGED vars
  BY <1>23 DEF vars, cache, stream, filler, history
<1> QED
  BY <1>1, <1>2, <1>3, <1>4, <1>5, <1>6, <1>7, <1>8, <1>9, <1>10, <1>11, <1>12, <1>13,
     <1>14, <1>15, <1>16, <1>17, <1>18, <1>19, <1>20, <1>21, <1>22, <1>23
  DEF Next, CacheThread, Started

(* A stream whose length is known and which can be resumed ends before its  *)
(* end only if a server was not found, or closed more connections than a    *)
(* call of stream_fill_buffer reopens.                                      *)
THEOREM EndsAtEnd ==
  ASSUME Obedient
  PROVE  Spec => []EndIsEnd
<1>1. Types /\ InStep /\ Stored /\ [Next]_vars => InStep' /\ Stored'
  BY StepNext
<1> QED
  BY <1>1, TypesAlways, StepInit, CountedInit, CountedStep, PTL DEF Spec
=============================================================================

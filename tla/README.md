# A formal model of this player's stream, demuxing, playlist and control core

The program is MPlayer as adapted for a set-top box: `src/mplayer_android`, more than a
million lines of which most is FFmpeg and other vendored code.  Its own logic is a
pipeline of threads around shared memory:

    source --> cache thread --> ring buffer --> stream_read / stream_seek
                (cache2.c)                         |
                                      demux thread / main thread --> packet queues --> decoders, outputs
                                              (demuxer.c)             (ds->first ..)    (mplayer.c)

The two places where threads meet are modelled first: the stream cache, which works
*without* locks, and the packet queues of the demuxer, which work with four kinds of
mutex.  These decide which bytes and packets the decoders get, and no unit test reaches
their interleavings.  The cache meets a third party when the file comes over http: a server
that closes connections, while the prefill or the reader waits for the cache thread.
Three more components follow: the fifo of button events, the
server process that starts and kills the player and is interrupted by its SIGCHLD, and the
play tree that chooses the next file and the options in force for it.

All paths below are relative to `src/mplayer_android`.

## 1. Inventory

| Component | State | Operations | Talks to | What is hard | What makes it correct |
|---|---|---|---|---|---|
| Stream cache, `stream/cache2.c` | `cache_vars_t`: ring, `min/max/read_filepos`, `offset`, `eof`, `back_size`, `control` | `cache_fill`, `cache_execute_control`, `cache_read`, `cache_stream_fill_buffer`, `cache_stream_seek_long`, `cache_do_control`, `cache_uninit` | source through a private copy of the `stream_t` (stream2); client through shared memory | two threads, no lock; several stores make one update; requests answered by polling | the bytes delivered are those of the position; window in the ring; every read, request and quit ends |
| Stream front end, `stream/stream.h`, `stream.c` | `stream_t`: `pos`, `buf_pos`, `buf_len`, `eof` | `stream_read`, `stream_seek`, `stream_eof`, `stream_tell`, reconnect | cache or source | position arithmetic; reconnect loop | the bytes of the file in order from `stream_tell` on |
| Demuxer queues, `libmpdemux/demuxer.c` | per stream: list, `packs`, `bytes`, `eof`, `dsmtx`; `demuxmtx`, `seekmtx`, `demuxstop`, `demuxrun` | `demux_thread`, `ds_fill_buffer`, `demux_fill_buffer`, `ds_add_packet`, `demux_seek`, `demux_thread_quit` | stream, decoders | both threads append; seek clears; limits; waits with timeout | packets in file order, none skipped; count and list agree; calls return |
| Key fifo, `mp_fifo.c` | ring of 7 events, last clicks | `mplayer_put_key`, `mplayer_get_key` | video output, input | overflow with reserve for releases; synthetic double clicks | events in order, presses refused first; a press that got in is followed by its release |
| Player server, `mpserver.c`, `mpclient.c` | player's pid, kill flag, argument vector | start, kill, status, SIGCHLD handler | client socket; the player process | a signal between any two steps; blocking waitpid in the handler | one player at a time, known to the server; its end is reported; no hang |
| Prefill and reconnect, `stream/cache2.c`, `stream.c`, `network.c`, `http.c` | connection, retries, `cache_fill_status`, `control` | prefill, reconnect loop, `http_seek`, interrupt, quit | cache thread and client, the server | closed connections at any point; three waits tied by one global | resumes at the byte after the last; ends early only without a server; nobody waits for one who waits |
| Input, `input/input.c` | command queue, key state | bind, queue, autorepeat | key fifo, main loop | queue limit, repeats | commands in order |
| Play tree, `playtree.c`, with `m_config.c` | tree, iterator with status stack; stack of saved option values | step, up, down, random step, look-ahead copy, source of an entry, push, pop; commands that step, stop, load, append | main loop, which searches the next file | an iterator over a changing tree; loops and levels paired over every way through it | each entry in order, loops as often as told; levels paired; options of the entry in force; never on a freed node |
| Properties, `m_property.c` | none of its own | get, set | main loop | | |
| EDL, `edl.c`; mixer, `mixer.c` | small records | | main loop | sequential | intervals ordered, volume kept over mute |
| Main loop, `mplayer.c`, `command.c`, `dvdmain.c` | everything | | all | 20 000 lines of cases | |
| Decoder front ends and filters, `libmpcodecs`, `libaf` | of codecs and chips | | hardware | | |
| Video output, tuner, box services | of drivers | ioctl | hardware | | |
| Container demuxers, subtitles | file formats | parsing | stream, queues | | |
| Vendored libraries | | | | | |

`PROJECT.json` lists the components with their status, and under "hazards" each place
where this code can go wrong in a way that a test would hardly reach.

## 2. Modules

| Module | What it is |
|---|---|
| `Cache2` | the cache thread and the demuxing thread on one `cache_vars_t` |
| `ByteStream` | what a `stream_t` promises: the bytes in order |
| `Cache2Stream` | the refinement mapping from `Cache2` to `ByteStream` |
| `MCCache2` + cfgs | instances for TLC |
| `Cache2_proofs`, `Cache2Stream_proofs` | type correctness, geometry and content of the ring; reader and refinement for a client that goes forward |
| `Demuxer` | the packet queues, the demux thread and the main thread |
| `MCDemuxer` + cfgs | instances for TLC |
| `Demuxer_proofs` | type correctness, mutexes, order of packets, counts |
| `MpFifo` | the key fifo and the list of pressed buttons kept from it |
| `KeyQueue` | the bounded queue that refuses presses first |
| `MCMpFifo` + cfgs, `MpFifo_proofs` | instances; types, refinement of `KeyQueue`, no stuck key |
| `MpServer` | the server's thread, its SIGCHLD handler, the kernel's processes |
| `MCMpServer` + cfg, `MpServer_proofs` | instance; one player, known, no blocked handler |
| `PlayTree` | the tree, its iterator, the option levels, the main loop's search for the next file and the commands on it |
| `MCPlayTree` + cfg | sixteen trees of the command line, two loads, two playlists |
| `PlayTree_proofs`, `PlayTreeNodes_proofs` | types, paired levels, an entry where a file is taken; where the iterator may be, the first step, the options in force, no level left, the iterator in the tree, turns in a shuffled list |
| `Reconnect` | prefill, cache thread with the reconnect loop, reader, a server that closes connections |
| `MCReconnect` + cfgs, `Reconnect_proofs` | six kinds of server and stream; window, end, no starving |

### Cache2

One action is one atomic access to shared memory, together with the private work up to
the next.  The cache thread (`fpc`):

| fpc | action | `cache2.c` |
|---|---|---|
| snap | `Snapshot`: loads `read_filepos` into the local `read`, decides on a drop | 253-266 |
| drop | `DropStore`: one of the stores of `offset=min=max=read` | 267-268 |
| reseek | `Reseek`: `stream_reset`, `stream_seek` of the source | 269-273 |
| plan | `PlanFull` (no room) or `PlanFill` (raises `min`) | 276-344 |
| fill | `Fill`: `stream_read` into the ring | 346-363 |
| eof / max / wrap | `StoreEof`, `StoreMax`, `StoreOffset` | 365-381 |
| poll, refuse, execute, finish | `cache_execute_control` | 383-423 |

The demuxing thread (`rpc`) is in the client when `idle`.  `SeekLong` and `ClearEof` are
the two stores of `cache_stream_seek_long`.  `CheckMax`, `CheckMin`, `CheckEof`,
`LoadMax`, `LoadOffset`, `Copy` and `Advance` are the accesses of `cache_read` in their
order.  `Request`, `Answered`, `QuitAnswered` and `Join` are `cache_do_control` and
`cache_uninit`.  `Consume`, `Read` and `SeekInBuffer` are `stream_read` and `stream_seek`
on `stream->buffer`.

Abstractions.

- The byte of the file at position p is the integer p, and a fresh cell is `Hole`.
  "The right byte" is then an equation.
- A wait ends by a signal or after a second, and the code looks at the shared state again
  in either case.  Waits are therefore steps that are always enabled and wake-ups have no
  state.
- The private buffer of stream2 is abstracted to `src`, the next byte it delivers; the
  source delivers as much as is asked for until its end.
- `InOrder` chooses between the stores of the drop in program order (the C expression
  associates to the right; a plain compiler stores `max`, then `min`, then `offset`) and
  any order, which C and the memory of the machine permit.
- Positions are unbounded integers.  Torn 64-bit accesses are left out.
- At the end of the stream the demuxers call `stream_reset` before they seek, which
  `SeekLong` includes.
- Left out: statistics, dumping, allocation of the ring.  The prefill and the fill status are in `Reconnect`.

### ByteStream and the refinement

`ByteStream` has three variables: the position, the bytes that are ready from there, and
the end.  `Take`, `Refill`, `End`, `SeekNear`, `SeekFar` and `SeekShort` are `stream_read`
and `stream_seek` as their callers know them.  `Cache2Stream` maps a call of `cache_read`
to one step at its return: while the thread is inside, nothing is ready.  `KeepsPromise`
then says that whatever the filler does in between, a client that reads and seeks forward
gets the bytes of the file in order.  The promise leaves open when the end is reported:
that is a property of its own (`EofAfterSource`).

### Demuxer

The file is a sequence of packets, each of the video or the audio stream; a packet is its
index.  `FillLock`, `ReadPacket`, `Count`, `Link` and `FillUnlock` are
`demux_fill_buffer` with `ds_add_packet_internal`, by either thread.  The format's own
`fill_buffer` is external: it yields the next packet of the file.

| Actor | Actions | `demuxer.c` |
|---|---|---|
| demux thread (`tpc`) | `Top`, `Waited`, `Recheck`, `ThreadLock`, `ThreadFill`, `ThreadSkip`, `ThreadFilled`, `ThreadUnlock` | 1726-1820 |
| main thread (`mpc`), a packet | `Get`, `ClearList`, `ClearCount`, `Take`, `NothingQueued`, `WaitForPacket`, `DemuxHere`, `Demuxed`, `CheckVideo`, `ReturnEof` | 944-1232 |
| main thread, a seek | `Seek`, `SeekLock`, `FlushList`, `FlushCount`, `Reposition`, `SeekUnlock` | 2312-2430 |
| main thread, the end | `Quit`, `Joined` | 1709-1724 |

`got[s]` is a history variable: the last packet taken from the queue of s since its queue
was cleared by the main thread (0 after a clearing).

Abstractions: the sub stream, parsers (`PARSE_ON_ADD` is 0), the limit in bytes beside
the limit in packets, the clearing of video at trick play of REAL and Matroska and the
current packet of a stream are left out.  So is RTP, whose `fill_buffer` is called without `demuxmtx`
when LIVE555 is built in (`demuxer.c:918`).  `ClearList` walks, frees and stores the two ends of the list in one step.  `demux_seek` repositions anywhere, since each
format chooses.  Speed 1 stands for `speed_mult` 1 and for `audio_not_support`, which take
the same branch.  At too much video the code has three outcomes by the kind of demuxer,
and `CheckVideo` has them all.  `DEMUX_THREAD` and `DS_WAKEUP` are defined in `config.h`.

### MpFifo and KeyQueue

Everything runs in the main thread, so a call is one action: `Press`, `Release` and
`SystemDouble` are `mplayer_put_key` on the three kinds of code, each with its one or two
`mplayer_put_key_internal` (`Store`); `GetKey` is `mplayer_get_key` with `interpret_key`
of `input/input.c` (`Interpret`), which keeps the list of keys that are down.  The device may
press and release as it likes between two reads.  Time is the choice whether the press
before the last is less than `doubleclick_time` ago (`recent`).  `Promise` maps the ring and its
indices to the queue of `KeyQueue`.  Left out: codes of keys that are no buttons, and the
cases of `interpret_key` that build commands.

### MpServer

The server is one thread; a SIGCHLD may run its handler between any two of its steps, and
the thread stands still until the handler returns (`Thread` needs `handler = Off`).  The
steps of a command are separated where `mplayer_pid` or `mpserver_kill_flag` is read or
written:

| Command | Actions | `mpserver.c` |
|---|---|---|
| 3, status | `Status`, `StatusWait`, `StatusAnswer` | 628-651 |
| 4 and 5, kill | `Kill`, `Sigkill`, `Wait` | 236-281, 652-692 |
| 7, start | `Start`, `Sigkill`, `Wait`, `Clear`, `Unflag`, `Fork`, `Store` | 705-774 |
| SIGCHLD | `HandlerEnter`, `HandlerReturn` | 120-145 |

`Exit`, `Awaited`, and the parts of `Fork` and `Sigkill` on `proc` are the kernel's.  The
pids 0 and -1 have their meanings for `waitpid` and `kill`.  Abstractions: the two SIGQUITs
before the SIGKILL are nothing but `Exit`, which is always possible; the `if` before a
`kill` and the argument of the `kill` are one load, as an optimising compiler makes of two
reads with no call between them; a SIGCHLD may stay pending over any number of steps, which
is more than the kernel does; a pid is not used again; a report is sent whether or not the
client listens.

`Wait` ends after a second where no player is left to end.  That a process survives
SIGKILL for longer is excluded: the code then starts the next one beside it and says so in
a message (`mpserver.c:713`).  Commands 1 and 2 start a player without killing the one
before and are left out; the mutant `StartBeside` shows what that does to `OnePlayer`.

### Reconnect

The file comes over http through the cache while the server closes connections.  A block
is `STREAM_BUFFER_SIZE`, which is what one read from the network brings and what one
`cache_read` takes.  The ring is what `Cache2` shows it to be, a byte for each position
of the window, so that the stores of `cache_fill` around the window are single steps
here; the wait in the middle of its `stream_read` is what this module is about.

| Actor | Actions | Code |
|---|---|---|
| cache thread (`fpc`), `cache_fill` | `Plan`, `SeekSource`, `Full`, `Fill`, `Store`, `Update`, `Updated` | `cache2.c` 252-381 |
| the same, `stream_fill_buffer` | `Deliver`, `Dropped`, `NothingLeft`, `WaitForReader`, `Resume` | `stream.c` 347-460 |
| the same, `cache_execute_control` | `Poll` | `cache2.c` 383-423 |
| client (`cpc`), prefill | `PrefillTest`, `PrefillCheck`, `Interrupt` | `cache2.c` 748-771 |
| client, playing | `Read`, `Copy`, `Copied`, `SeekTo`, `Quit`, `QuitDone` | `cache2.c` 158-217, 823-911 |

`cache_fill_status` (`status`) ties them: the reader lowers it, the filler raises it, the
prefill stores a percentage of another quantity into it, and the reconnect loop goes on
only when it has sunk to `reconnect_threshold`.  `mode` gives the kind of stream: with a
seek function or not, youtube or not, length known or not.  Its field `undivided` says
whether the filler's computation of the status and its store are one step.

The network is external: it delivers, or it closes the connection before the end (at most
`MaxDrops` times), or it refuses one, which is remembered in `refused`.  A server that
never answers and never closes is not modelled.  `Ranges` and `Bodies` are two ways of a
server to be disobedient that the code does not notice: a 200 to a request with a Range,
and a body that begins in the packet of the header.

### PlayTree

`play_tree_iter_step`, `_up_step` and `_down_step` call each other in tail position only.
A call is a run of the steps `FirstStep`, `PassEnds`, `ListEnds`, `Group`, `Invalid`,
`Entry`, `Up`, `Down` from `pc` = step, up or down to `pc` = rest, where `ret` is its result; `job`
says which caller of `mplayer.c` or `command.c` goes on then:

| Actions | Code |
|---|---|
| `FirstStep` to `Entry` | `play_tree_iter_step`, `playtree.c` 537-649 |
| `Up`, `Down` | `playtree.c` 674-752 |
| `Push`, `Pop`, `PushParams` | `m_config.c` 127-199, `playtree.c` 433-464 |
| `Boot`, `Started`, `LoadIdle` | `mplayer.c` 9098-9107, 9532-9637 |
| `EndOfFile`, `NextDone`, `FindFile`, `FileStepDone` | `mplayer.c` 13143-13198 |
| `PlayTreeStep`, `UpStep`, `Peeked`, `AltSource` | `command.c` 4316-4376 |
| `Stop`, `LoadReplace`, `NotYetAtTop`, `Stopped`, `Replaced`, `HeadFound`, `LoadAppend` | `command.c` 4442-4517, `mplayer.c` 13162-13182 |
| `OpenPlaylist`, `PlaylistDone` | `mplayer.c` 1866-1901 |

Lists of siblings are sequences; `ParentOf`, `Siblings` and `Place` are the pointers.  One
option stands for all that are saved by level: `conf.slots` are the saved values, bottom
first, `conf.value` is the variable.  Files are nodes with a number of sources; `Contents`
says which of them turn out to be playlists.  `random` in the iterator is its `mode`.
`base`, `lost`, `how`, `from`, `promised` and `count` are history variables: the number of levels
of options below the tree, how many a load that replaced the tree left above them, how and from
where the iterator set out, what the look-ahead promised, and how often each file of a shuffled
list was played more than the others.

`TreesAssumption` says that what the command line parser builds is a tree: each node has one
place, what has no place is not in use, and each group is one level below its parent.
`NodesAssumption` says of loads and playlists that no node is twice in their lists, and that a
playlist that gives a group gives one with files: `play_tree_parser_get_play_tree` cleans up what
it read (`playtreeparser.c:862`) and returns NULL for nothing, which is `NoEntry`.  `Fresh` says that `play_tree_new`
returns nodes that are not in use: what a playlist adds is not in the tree yet.

Left out: GETTHUMB (which appends beside the root), the GUI, the subtitle settings that a stop
keeps, the `pt_iter` interface but for `pt_iter_goto_head`, the parsers, allocations that fail.

## 3. Runs

| Run | Instance | Shows | States |
|---|---|---|---|
| `cache_forward` | ring 10, sectors of 2, back 5, file 13, two forward seeks | window, copies, end, progress and the refinement of `ByteStream` | 37 000 |
| `cache_anyseek` | ring 5, file 7, two seeks in any direction, stores in any order | what the filler alone guarantees: ring content, back bytes | 850 000 |
| `cache_control` | ring 4, linear, youtube, all requests, seeks that fail | a full ring gets room again; each request is answered | 628 000 |
| `cache_overwritten` | as anyseek, file 6, stores in order | **violated**: wrong bytes after a seek back | |
| `demux_play` | 5 interleaved packets, thresholds 2 and 1, one seek | types, order, counts, exclusion, calls return | 93 000 |
| `demux_limits` | two packets of audio, then two of video, limit of 2 packets, all speeds | nothing skipped, calls return, at the limits of both | 212 000 |
| `demux_early_eof` | as demux_play, no seek | **violated**: eof with a packet queued | |
| `fifo_one_button` | the real size 7, one button, double clicks made here or by the system | bounded queue in order in both modes; no stuck button where they are made here | 200 000 |
| `server_commands` | three forks, failing forks, every command at every time | one known player, reports, no hang | 7 200 |
| `playlist` | sixteen trees of up to four files and three groups, two loads, two playlists, two commands | options, levels, order, steps back, loops, look-ahead, shuffle, no freed node, calls end | 142 000 |
| `reconnect` | file 6, ring 5, prefill 3, fills of 2, two closed connections, one retry per call, one seek, six kinds of stream | bytes in place, early end explained, starving by a late status only, reads return | 770 000 |
| `reconnect_prefill` | the same with fills of 1 | **violated**: the wait for the prefill that never ends | |

Each property is checked by the run that is hardest on it.  `TypeOK` of `Cache2`, `MpFifo`
and `MpServer` is in no run any more: it is proved for every instance.

What the violations are.

- `cache_overwritten`.  The filler has loaded `read_filepos` and begins a fill.  The client seeks
  back inside the window, and its position passes the looks of `cache_read` at `max` and at
  `min`.  The filler still plans for the position from before the seek: it raises `min` above the
  new one (`cache2.c:341`) and its `stream_read` overwrites the byte there (351) before
  `cache_read` copies it (206).  No drop takes part.  The file's header says that the two
  processes need no locking (`cache2.c:22`), and line 202 calls a position below `min` at this place a
  bug to be reported.
- `demux_early_eof`.  The main thread waits for `demuxmtx` while the demux thread queues
  the last packet, then gets 0 from the format and sets `eof` without another look at its
  queue.  `demuxer.h:210` says eof means that all buffers are empty.
- `reconnect_prefill`.  A prefill of three blocks in fills of one: two are there when the server closes the
  connection before the third.  The filler waits until the status has sunk to 20 (`stream.c:380`); nobody
  reads yet, and the prefill loop stores the same 66 percent again and again.  Neither
  thread goes on, until the user interrupts; that counts as a return here, although the quit
  may not be taken then (`QuitReturns`).  `cache2.c:748` says "wait until cache is filled", and 661 that the
  function returns.

More facts were met that limit what holds.  A drop that is only partly stored misleads
`cache_read` too.  TLC finds `DeliveredRight` violated in a ring of 12 cells for a file of 6, where no fill
overwrites anything: with the stores in any order, or in order if the late store of `eof` ends the
read that the drop is for, and the next position is found between the new `max` and the old `min`.  `EofAtEnd` does not hold (the last fill between
`cache_read`'s looks at `max` and at `eof`), and `RequestExecuted` does not hold (a request
cleared by the end of an earlier one).  `QuitJoins` does not hold: the
filler may be past its look at `control` when `cache_uninit` stores the quit; the filler
then clears `control`, and `cache_uninit` takes this for the answer
and joins a thread that goes on.  `EofAfterSource` needs a client that only goes forward: after
a seek back the filler's late store of `eof` shows the end of the stream in its middle.
`ReadReturns` needs a ring of more than `fill_limit` beside the back bytes: with the least
ring of `cache_init` (16 sectors, `back_size` 8, `fill_limit` 8) and full back bytes the
room is never *more* than `fill_limit`, and the reader waits for ever.
`RingHoldsFile` needs seeks of the source that succeed (`SeekMayFail = FALSE`), as
`cache_fill` does not look at the result, and no `SEEK_TO_TIME`, which moves the source and
leaves the window.  `CountMatches` needs normal speed and an audio list below its limit: a trick play
(`demuxer.c:968`) and the limit (`demuxer.c:1070`) free the list without `dsmtx`, between
the demux thread's count and its link.  `NoStuckKey` needs one button held at a time: a press is
accepted while three slots are free; of the two that
remain, one may go to a double click and one to the release of another button, the
release of the accepted press is dropped, and once everything is read the input layer
still has the button as down.  Two buttons that are held together do this to a larger fifo as
well (TLC: 10 slots); one at a time do it to a fifo of five slots, and to none of six or more,
which is proved.  And it needs `doubles`, a `doubleclick_time` that is not 0: with 0 the double
clicks are the system's, which come at any time, with no press before them, and fill the reserved slots even with one button.

`SeekReturns` and `QuitReturns` in `Reconnect` do not hold: nobody lowers the status while the
client waits for the cache thread to drop the window or to take the quit.  `ReadReturns` in `Reconnect` needs
the filler's update of the status to be undivided: a value computed before the reader
emptied the ring and stored after it keeps the loop waiting.  `StarvedOnlyLate` says that nothing
else does.  `WindowRight` needs servers
that obey (`Ranges`, `Bodies`), and seeks that find their server.

What the guards of the play tree's properties exclude is as much a result as what they
state.

- A playlist that turns out to be empty may empty a group.  A step onto it goes to the same
  one again for ever (`EveryCallReturns` does not hold); a group before which it is the
  first child is taken for an entry, and its files are NULL.  `Clean` excludes it.
- A shuffled list that ends leaves the levels of the groups around it pushed, and the rest of the
  list around it is never played; with loop n it plays n + 1 passes.
- A load that replaces everything walks up to the top first (`pt_iter_goto_head`).  When that walk
  ends in the middle of a shuffled list, the levels of the groups it was in stay pushed, although the
  groups are freed: their options hold for what is loaded.  `lost` counts them, and
  `NoLevelLeft`, `OptionsInForce` and `OrderKept` are stated above them.
- The copy that looks ahead takes passes and clears flags of the tree that the iterator shares; in
  a shuffled list the copy and the iterator choose apart.
- A group with loop n is entered from behind with n - 1 further passes, and a group at the end of
  another from the front; one that is left backwards on its first pass goes to its own end and has
  one pass more.
- A file that is appended at the end of a shuffled pass still plays in that pass, and a file that was
  taken out keeps its count: `ShuffleFair` is about the files of the list as it was parsed.
- An empty playlist may be all there is in a group, and the step to the next entry may come back to
  it.  For "Loop with a single file" (`mplayer.c:1884`) the code then steps up from it and takes
  whatever entry that finds for another one.  It is the same one where the group is alone in a list
  that is begun again (looped three times or more, or for ever), also when there are other
  files behind that list, and where the list around the group is shuffled: a group is never
  flagged as played unless the list it holds is shuffled (`playtree.c:710`).  Then
  `play_tree_remove` frees the node under the iterator, from which the main loop takes a file.
  `Returns` names those groups, and `IteratorInTree` excludes trees that have one, and trees
  in which a group below the root is shuffled (`{` inside a shuffled group inherits its flag,
  `parser-mpcmd.c:133`; the steps then go wrong in the same way with files left in the group).
  The run has trees of the first two kinds.

### Bounds and why they suffice

The ring has four to ten cells so that it wraps at least once and fills entirely within the
file; the proportions of `cache_init` are kept (a fill <= fill_limit < ring - back).
`FillMax` of 2 sectors makes a fill that is cut at the end of the ring differ from one that
is not; in `cache_forward` a sector has two bytes so that a seek falls inside a sector.
Two seeks let a second drop meet the remains of the first, and `MaxSeeks` bounds only the
client.  The demuxer's file has two or three packets of each stream, more than the
thresholds, so that the demux thread waits, goes on, and meets the end.  `demux_limits`
has a limit of two packets and a file with two of each stream, the audio first, so that both "too many
packets" branches are taken: a call for video finds two packets of audio queued, and one for audio two of video.  Every
action and disjunct occurs in some passing run.  The fifo has its real size, so that the
reserve is the code's.  Three forks let the server start over twice, with the remains of
the first player (a pending signal, a stale pid) met by the second and the third.

In `playlist` the trees have two levels of groups and loop counts 0, 1, 2 and -1, with a
parameter on each kind of node; two commands let the second meet what the first left in
the iterator (a rewound list, a replaced tree, a set option).  In `reconnect` the threshold is
the code's 20 percent, which a ring of five blocks reaches with one block; the file is longer than the ring,
so that the wait is met with the ring full, part full and empty.  A prefill of three blocks, with fills of two, passes the threshold with its first
fill; in `reconnect_prefill` a fill is one block, so that the connection can close above the threshold and
below the prefill.  One retry (10 in the code) with two closed
connections lets a call of `stream_fill_buffer` run out of retries.

Deadlock is not checked for `Cache2`, `Demuxer`, `PlayTree` and `Reconnect`: the program ends or
idles with its commands used up, the client may stop calling, and `Reconnect` really can
stand still, as said above.  It is checked for the fifo and the server, which can always go on.

### Fairness

`Cache2`: weak fairness of each thread, that is, the operating system runs them.  Nothing
obliges the client to act.  `Demuxer`: the same, and strong fairness of taking `seekmtx` for a
seek and `demuxmtx` for a fill: the demux thread releases and takes them again in a loop,
and the assumption is that a waiting thread is not passed over for ever.  A pthread mutex
does not promise this by itself; the demux thread's waits of up to a second at its
threshold give the other thread its turn in practice.  `MpServer`: weak fairness of the
handler (a pending signal is delivered, a `waitpid` that can return does), of a command that
has begun, and of the end of a process that was sent SIGKILL.  Neither the client nor a
player has to do anything.  `PlayTree`: weak fairness of what the program does by itself
(`Proceed`), a single thread; no file has to end and no command to come.  `Reconnect`: weak
fairness of each thread; the client does not have to read, seek or quit, but a call that
has begun goes on.

## 4. Proofs

All are proofs checked by TLAPS for every value of the constants that satisfies the
`ASSUME`s and what the theorem names beside them (`SizesAssumption`, `ModesAssumption`; `FileAssumption`, `BoundsAssumption`;
`SizeAssumption`, `ButtonsAssumption`; `PidsAssumption`; in `Reconnect` `SizesAssumption` and
`ModesAssumption` again; `NodesAssumption`, `TreesAssumption`).  Two theorems are refinements.

- `Cache2_proofs!TypeCorrect`.  Inductive as it stands.
- `Cache2_proofs!RingNeverOverrun`, unconditional.  `Geometry` speaks of the cache thread's
  positions alone: the stores done in a drop (`Dropping`), the window between drops, with
  `offset` the position of a ring start at most one ring from either end (`Window`), and
  the plan of a fill (`Planned`).  It needs nothing of the source, so a seek that fails or a
  `SEEK_TO_TIME` does not disturb it.  There is one lemma per action that moves the window.
- `Cache2_proofs!BackBytesKept` and `RoomComesBack`, two action properties from the same
  invariant, unconditional too: a fill raises `min` to no more than the back bytes allow, and
  a ring without room for a fill has it again after the reader has gone on.  The second rests on
  the sizes of `cache_init` (`SizesAssumption`).
- `Cache2_proofs!RingFaithful`, for every geometry, under `SeekMayFail = FALSE` and without the
  request `seektime`: the two cases, named above, in which the source is not where the window
  says.  `FillInv` adds to `Geometry` where the source stands (`InStep`) and the cells that
  a fill has stored before `max` is raised (`Stored`).  `RingHoldsFile` is not inductive
  because it does not know that the cells a fill overwrites are below the raised `min`.
- `Cache2Stream_proofs!CopyStaysInRing`, `EndAfterSource` and the refinement `PromiseKept`
  (`Spec => KeepsPromise`), in any order of the stores of a drop, for a client that goes
  forward (`ForwardClient`): it seeks forward only, nothing else than reads and the quit is
  asked, the source goes where it is sent, the stream is not a youtube stream (which
  gives the back bytes up), and `back_size` is a sector at least (the code has half the ring,
  8 sectors or more).  A seek back breaks all three, as `cache_overwritten` and the remark on `EofAfterSource`
  show.  `ForwardInv` has four parts.  `NotBehind`: the reader never falls out of the
  window at its lower end, so that a drop can only go to a position that the reader
  still waits for.  `Loaded`: hence the bounds that `cache_read` has loaded stay true until
  they are used, whatever the filler stores in between.  `Filled`: the stream's buffer has the bytes of its
  position.  `EofKnown`: in whatever place the end is noted, the source has ended and all bytes are in the
  window.  A short read before a sector's end leaves the client at an unaligned position, and the next
  `cache_stream_seek_long` begins at the start of that sector, up to a sector *behind*
  the reader: this is why the back bytes are needed even by a client that goes forward.
  The refinement then has one lemma per visible step (`ConsumeTakes`, `SeekInBufferIsNear`,
  `SeekLongIsFar`, `ReturnRefills`); all other steps change neither `At` nor `Ready`.
- `Demuxer_proofs!TypeCorrect`, `SeekShutsOut`, `QueuesFaithful`, `DecodersMissNothing`,
  unconditional: every file, threshold, limit, speed and number of seeks.  `Locked` relates each
  mutex to the steps of its holder and the packet in a hand to `next`.  `Chain` follows the
  packets of a stream from the last one taken, through the queue, to the one in a
  thread's hand; `DecodersMissNothing` needs the link from `got` to the head of the queue,
  and an appended packet follows the last one only because nothing was read in between.
- `Demuxer_proofs!CountsAgree`.  At normal speed, and as long as the audio list is not
  freed at its limit, list and count agree whenever the mutex is free.  The two
  conditions are those under which the code respects its own rule.

- `MpFifo_proofs!TypeCorrect` and `Implements` (`Spec => KeepsQueue`), for every size of
  at least two and every set of buttons.  `TypeOK` is inductive because it says that what
  lies between the indices are codes.  The refinement rests on the geometry of the ring
  (`Geometry`, `NextSlot`): storing is `Append` (`StoreOffers`), reading is `Tail`
  (`GetKeyGets`), and the free slots are the capacity less the length.
- `MpFifo_proofs!NoKeyStaysDown`, for six slots or more, any number of buttons, one held at a
  time (`OneAtATime`), a `doubleclick_time` that is not 0 (`doubles`), and its corollary `OneButtonNeverStuck`, where the set of buttons alone
  sees to that.  `NoStuckKey` speaks of the empty queue only; `PlaceKept` says before it that
  a key whose press is not answered by a release, in the queue or among the keys down, is the one that is
  held, and that a slot is free for its release.  The code has 7 slots.
- `MpServer_proofs!NeverTwoPlayers`, `PlayerIsKnown`, `HandlerReturns`, `KilledNotOwnEnd`,
  `TypeCorrect`, for any set of players.  `OnePlayer` is not inductive: whether a fork is safe depends on the
  pid that the server holds and on a signal that is still to come.  `Tracked` says for each
  place of the thread which process may run, `Signalled` that a pending SIGCHLD or a running
  handler means that none runs and, if pending, that the pid has not been forgotten.  `KilledNotOwnEnd`
  adds where the kill flag is up while a killed player's end is still to be collected.
- `Reconnect_proofs!TypeCorrect` and `StarvesOnlyLate`, for every geometry, number of retries
  and server, whether the update of the status is undivided or not: a ring that has run empty under the
  reconnect loop has a low status, or the one that the cache thread computed before the reader's own update
  and stored after it, which the code allows and which the two then wait on.  `StarvedOnlyLate` is not inductive: that the status is low when the ring is empty
  comes from the last update by either thread (`LowWhenEmpty`), which needs that while the
  filler waits only the reader can have changed the difference it is computed from
  (`Following`, `More`), and that a divided update leaves the status apart only by its last store (`Late`).
- `Reconnect_proofs!WindowFaithful` and `EndsAtEnd`, for servers that honour ranges and send no
  body with the header (`Obedient`).  `InStep` says that the connection, the stream's position and
  the end of what is stored are the same place, across a drop, a partial read and a new connection;
  `Stored` speaks of the blocks behind the window's end in the middle of a fill;
  `Counted` counts the closed connections against the retries used.

- `PlayTree_proofs!TypeCorrect`, `LevelsArePaired` and `SourceOfAnEntry`, for every tree, set of
  loads and playlists, and any number of commands.  Types are not a matter of form here: that
  `Pop` finds a saved value, that the stack of loop counts is not popped empty, and that a source
  is read from a file and not from a group all depend on where the iterator is.  The invariant `IInv`
  is the types together with four parts.  `Levels`: there is a distance of each node from the root,
  one more in each list, such that the iterator, and the one that is kept while a copy looks ahead, remember at
  least as many loop counts as their nodes are deep.  It is "at least" and not "exactly" because
  of the two ways, named in section 3, in which the code gives up in the middle of the tree and
  leaves levels behind.  The distance is a witness, chosen anew when a tree is built, grown
  (`Grown`), replaced (`OnlyGraded`) or made smaller (`Shrunk`), so that the path to the root need not
  be followed.  `Balanced`: the saved option values are the base, one per remembered
  count, and one for the node in force, for the iterator that holds them.  `Calls`: which caller
  of the iterator is waiting, and what it relies on when the call returns.  `HeadAhead`: the first step after
  a load has replaced all others finds its entry, from wherever it starts in the new list; its
  caller does not look at the result.  There is one lemma per action, and one per change of the iterator's
  record.
- `Valid` and `Kept` in `PlayTree` are recursive functions, of which the definition says nothing
  until it is shown that such a function exists.  `Induct` derives induction over the numbers, for a
  *set* of them, from the library's theorem that `<` is well-founded; `KeptIn` and `KeptMembers` build
  the function for `Kept` with it.  For `Valid`, which recurs over nodes, `ValidUnfolds` takes the largest
  set of groups whose members all lie in the set: what is outside is valid.

- `PlayTreeNodes_proofs!FirstStepFindsEntry`, for every tree again.  The invariant `NInv` adds four
  parts to `IInv`.  `Places`: each node is in one list at most, and the iterator, with the one that is kept
  beside a copy, is on nothing, on a node that a way down from the root leads to (`Housed`), or on a file
  in no list (`Freed`): a playlist that was taken out under it.  So a way up or down from the iterator's node stays on
  the tree.  `Crashed`: once a group was taken for an entry, a group that can be reached is empty; the
  test in front of the way down looks at the first child only, and following first children leads to
  an empty group (`EmptyBelow`, by the deepest of the groups without a file).
  An empty group stays empty, as nothing is put into a group other than the root but next to a file
  that is in it.  `Starts`: during
  the first search no group is empty and nothing was played, so that there is no dead end.

- `PlayTreeNodes_proofs!EntryHasItsOptions` (`OptionsInForce`), for every tree, load, playlist and
  option set by the user.  It is not enough that levels are paired: each must belong to the group it
  was pushed for.  `OInv` adds to `NInv`: `Opened`, above the base and the lost levels the saved
  values are those of the way down from the root to the iterator's node, one for each group, each
  with what that group makes of the level below it (`Inherited`); `Settled`, an entry has what it
  makes of the top level itself.  The other parts say where that may be relied on.  `Strays`: on a
  playlist file that was taken out of the tree under the iterator, the way down is gone, but from
  there only the end is found, and no entry.  `Unstarted`: a new iterator has no levels yet.
  `Current`: between two entries the value is that of the top level, as a level that is popped gives
  its value back.  `Marks`: where the level of the entry itself is open.  That the recursive
  definition of `OptionsInForce` has a function at all is `AroundFits`; `OpensInForce` compares it
  with the levels, down from the root.

- `PlayTreeNodes_proofs!NoLevelStays` (`NoLevelLeft`) and `IteratorStaysInTree` (`IteratorInTree`),
  for every tree, load and playlist.  Both speak of the way that a call took, so `PInv` adds to
  `OInv` what is known in the middle of one.  `GivesUp`: a search that the main loop gives up has
  ended where the step up found no parent, unless a list is shuffled or a group is empty; there the
  stack is as long as the way down, which is nothing, and `OwnLevel` says that the level of an
  entry is not open, as the root is none.  `Hunts` is the step away from a playlist, first because its
  entries or nothing replaces it (job `added`), then upwards from the only file of its list
  (`unlooped`).  With entries, the first sibling found is another file: the new group
  is behind the playlist (`Followed`), and in a shuffled list the playlist counts as played
  (`PlayingPlayed`) and the group does not (`PlayedPlaced`).  Without, the iterator is, node by node
  of the way down to the playlist, still climbing, so that all that it has passed was the last
  of its list (`Climbing`); or beside that way, from where no step of this call leads back to it
  (`Beside`); or on its way back, below a list that brought it back (`BackAt`: shuffled, or begun
  again with nothing else in it).  When the playlist is found again after the step upwards, all
  groups below that list hold nothing else, and are empty once it is taken out: the topmost is one
  that `Returns` (`AloneInvalid`, by induction up the way, and `VictimLost`).  `Gone` keeps that
  until the iterator leaves the freed file, and `Strays` of `OInv` excludes it where a copy looks
  ahead.

- `PlayTreeNodes_proofs!ShuffleIsFair` (`ShuffleFair`), for every shuffled list, load and playlist.
  `RInv` adds to `PInv` whose turn it is, for trees that are one list to which at most playlists were
  added (`Steady`).  `Turns`, three ways to stand (`Dealt`): in a pass, where those of the list that
  are flagged count one, the others none, what commands added and played counts at least one, and
  something is left to play (`Midway`); with all of them flagged and counting none (`Even`); or with
  one file alone, which plays again and again (`Lone`).  `EntryDeals`, `PassDeals`, `AddDeals` and
  `OutDeals` take them from one to another as a file plays, a pass ends, an entry is added and a
  playlist taken out.  The last two need that what plays is flagged (`Marked`): `Copied` keeps that
  through a copy that looks ahead, which clears the flags only where all of the list were
  played, and from there finds an entry; and `Takes` says that a playlist is flagged when it is taken
  out, or that a new pass had begun while it was still in the list.  The proof showed that the
  property did not hold of files that have left the list (an empty playlist that is loaded, taken
  out and loaded again counts from both times); it is stated for those in the tree.

Only model-checked: the liveness properties (`ReadReturns`, `RequestAnswered`,
`CallReturns`, `EndReported`, `CommandEnds`), which need fairness and are beyond this prover,
and of `PlayTree` what compares the results of whole calls: `OrderKept`, `BackUndoes` and
`LookAheadRight`.

## 5. Plan

Order by importance; the first six groups are done.

1. `Cache2`, `ByteStream`, `Cache2Stream`, proofs of the ring.  Done.
2. `Demuxer` and the proofs of the queues.  Done.
3. `MpFifo`, `KeyQueue` and the proof of the refinement.  Done.
4. `MpServer` and the proofs of one player and of the kill flag.  Done.
5. `Reconnect`: the prefill, the reconnect loop, an interrupt at any step, and its proofs.  Done.
6. `PlayTree` with the option levels, and the proofs of its types, paired levels, first step, the
   options in force, `NoLevelLeft`, `IteratorInTree` and `ShuffleFair`.  Done.
7. The command queue and autorepeat of `input/input.c`, `Edl`: sequential components.
8. Proofs of `RingNeverOverrun` without assumptions on the source, `BackKept`, `CopyInRing` and
   `EofAfterSource` for a forward client, the refinement of `ByteStream`, `NoStuckKey`.  Done.
9. The buffer of stream2, `stream_t`'s own arithmetic, the sub stream of the demuxer.

Hazards that no property covers, beside those listed in `PROJECT.json`:

- `cache2.c:924`: a refused `SEEK_TO_TIME` still sets the client's position, to the one an
  earlier request left.
- `cache2.c:709`: stream2 starts with the `buf_pos` and `buf_len` of the stream it copies,
  over a buffer of its own.
- `cache2.c:81`: positions are 64 bits wide on a 32-bit chip; a load may be torn, which
  shows where the high halves differ.
- `network.c:494`: a `recv` that fails takes one byte off what was copied from the buffer
  of the header; the byte is asked for again.
- `playtree.c:768`, `command.c:4373`: of an entry's previous sources only those in the middle can be reached.
- `mplayer.c:8302`: a callback thread sets its own flag to running, so that an off right
  after an on is lost and two ons start two threads; two stoppers join the same thread.
- `mplayer.c:7594`: a command from the socket is put into a single slot, over one that is
  still there.

## 6. Not modelled, and why

Beyond the choice of the next file, the main loop and `dvdmain.c` tie everything together in functions of thousands of lines
whose state is that of decoders and drivers; the callback threads for position and buffering
only send messages whose receiver is not in the repository, and no comment says what it may
rely on (the hazards name what goes wrong between start and stop); the video output, the tuner and the box
services are ioctls to hardware that is not in the repository; container formats and
subtitle decoders are parsers; the vendored libraries are other projects.

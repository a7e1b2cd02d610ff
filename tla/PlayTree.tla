------------------------------ MODULE PlayTree ------------------------------
(***************************************************************************)
(* The play tree (playtree.c), its iterator, the levels of saved options   *)
(* that the iterator pushes and pops (m_config.c), and the main loop's     *)
(* commands that drive them (mplayer.c, command.c).                        *)
(*                                                                         *)
(* play_tree_iter_step, _up_step and _down_step call each other in tail    *)
(* position only, so a call is a run of steps of this machine from pc =    *)
(* "step", "up" or "down" to pc = "rest"; job says which caller waits.     *)
(* The lists of siblings are sequences; one option stands for all.         *)
(***************************************************************************)
EXTENDS Integers, Sequences, SequencesExt, FiniteSets

CONSTANTS
  Files,        \* nodes of type PLAY_TREE_ENTRY_FILE
  Groups,       \* nodes of type PLAY_TREE_ENTRY_NODE
  Root,         \* the top of the tree, a group
  NoNode,       \* NULL
  Sources,      \* how many files an entry has
  Trees,        \* what the command line may describe: a set of records
  Loads,        \* the entries that commands bring, a file or a playlist each
  Contents,     \* what is found in the files that turn out to be playlists
  Values,       \* of the option
  Unset,        \* a node without a parameter
  Global,       \* the option's value outside of all groups and entries
  MaxCommands   \* bound on the commands of the user

Nodes == Files \cup Groups

NoEntry == [top |-> NoNode, list |-> <<>>]

(* What commands and playlists add: an entry, with a list if it is a group.  *)
Added == Loads \cup {Contents[f] : f \in DOMAIN Contents}

ASSUME NodesAssumption ==
  /\ IsFiniteSet(Groups)
  /\ Files \cap Groups = {} /\ Root \in Groups /\ NoNode \notin Nodes
  /\ Sources \in [Files -> Nat \ {0}]
  /\ Global \in Values /\ Unset \notin Values
  /\ Loads \subseteq [top : Nodes \ {Root}, list : Seq(Files)]
  /\ \A e \in Loads : e.top \in Files <=> e.list = <<>>
  /\ DOMAIN Contents \subseteq Files
  /\ \A f \in DOMAIN Contents :
       \/ Contents[f] = NoEntry
       \/ Contents[f] \in [top : Groups \ {Root}, list : Seq(Files) \ {<<>>}]
  /\ \A e \in Added : \A i, j \in DOMAIN e.list : e.list[i] = e.list[j] => i = j
  /\ Trees \subseteq [kids : [Nodes -> Seq(Nodes)], loops : [Nodes -> Int],
                      params : [Nodes -> Values \cup {Unset}],
                      shuffled : SUBSET Groups]
  /\ MaxCommands \in Nat

(* What the parser builds is a tree: each node has one place at most, those *)
(* without one are not in use, and a group is one level below its parent.   *)
ASSUME TreesAssumption ==
  \A t \in Trees :
    /\ \A p, q \in Groups : \A i \in DOMAIN t.kids[p], j \in DOMAIN t.kids[q] :
         t.kids[p][i] = t.kids[q][j] => p = q /\ i = j
    /\ \A n \in Nodes \ {Root} :
         \/ \E q \in Groups : n \in ToSet(t.kids[q])
         \/ t.kids[n] = <<>> /\ t.loops[n] = 0 /\ t.params[n] = Unset /\ n \notin t.shuffled
    /\ \E level \in [Groups -> 0..Cardinality(Groups)] :
         /\ level[Root] = 0
         /\ \A p \in Groups : \A m \in ToSet(t.kids[p]) \cap Groups : level[m] = level[p] + 1

VARIABLES
  kids, loops, params,      \* a node's children, loop and params
  shuffled, played,         \* the nodes with PLAY_TREE_RND, with _RND_PLAYED
  iter,                     \* the iterator
  conf,                     \* m_config: saved values by level, and the value
  pc, dir, withNodes, ret,  \* the call under way: place, d, with_nodes, result
  job,                      \* what the main loop is doing
  eof,                      \* the direction of the search for a file
  saved, wanted,            \* the iterator while a copy of it is stepped, and
                            \* the call to make if the copy finds an entry
  victim,                   \* the playlist that its entries replace
  base, lost,               \* history: the levels below the tree's, and those
                            \* that a load left above them
  how, from, promised, count, cmds

tree == <<kids, loops, params, shuffled, played>>
call == <<pc, dir, withNodes, ret>>
hold == <<saved, wanted, victim>>
history == <<base, lost, how, from, promised, count>>
vars == <<tree, iter, conf, call, job, eof, hold, history, cmds>>

NoIter == [live |-> FALSE, node |-> NoNode, loop |-> 0, file |-> 0,
           pushed |-> FALSE, random |-> FALSE, stack |-> <<>>]

(* play_tree_iter_new; the root has no parent whose loop it could take.     *)
NewIter == [NoIter EXCEPT !.live = TRUE]

-----------------------------------------------------------------------------
(* The tree.                                                                *)
ParentOf(n) == IF \E p \in Groups : Contains(kids[p], n)
               THEN CHOOSE p \in Groups : Contains(kids[p], n) ELSE NoNode

Siblings(n) == IF ParentOf(n) = NoNode THEN <<n>> ELSE kids[ParentOf(n)]

Place(n) == CHOOSE i \in DOMAIN Siblings(n) : Siblings(n)[i] = n

(* Valid is play_tree_is_valid: a file, or a group with something valid.    *)
Valid == LET valid[n \in Nodes] ==
               n \in Files \/ \E i \in DOMAIN kids[n] : valid[kids[n][i]]
         IN {n \in Nodes : valid[n]}

InTree == LET in[n \in Nodes] == n = Root \/ (ParentOf(n) # NoNode /\ in[ParentOf(n)])
          IN {n \in Nodes : in[n]}

(* Mutant: empty groups stay in the tree.                                   *)
CleanedNot == kids

(* The members of a list that are in S.                                     *)
Kept(list, S) ==
  LET kept[i \in 0..Len(list)] ==
        IF i = 0 THEN <<>>
        ELSE IF list[i] \in S THEN Append(kept[i - 1], list[i]) ELSE kept[i - 1]
  IN kept[Len(list)]

(* play_tree_cleanup: everything without a valid entry in it is freed.      *)
Cleaned == [n \in Nodes |-> Kept(kids[n], Valid)]

(* The tree with the nodes under the root replaced by one entry.            *)
OnlyEntry(e) == [n \in Nodes |-> IF n = Root THEN <<e.top>>
                                 ELSE IF n = e.top THEN e.list ELSE <<>>]

(* The i-th of the list, NULL beyond it, and what is left of d: d siblings  *)
(* are passed, the end of the list counting as one.                         *)
Walk(list, i, d) ==
  LET to == i + d
      rest == IF d > 0 THEN to - (Len(list) + 1) ELSE to
  IN IF to \in DOMAIN list
     THEN [to |-> list[to], left |-> IF d = 0 THEN 0 ELSE IF d > 0 THEN 1 ELSE -1]
     ELSE [to |-> NoNode, left |-> IF rest # 0 THEN rest ELSE IF d > 0 THEN 1 ELSE -1]

(* The nodes of what is added are new: nothing in use is among them.        *)
Fresh(e) ==
  ({e.top} \cup ToSet(e.list)) \cap
  ({Root, iter.node} \cup UNION {ToSet(kids[p]) : p \in Groups}) = {}

(* What can be added: a new file, or a playlist as a new group.             *)
NewEntries == {e \in Loads : Fresh(e)}

-----------------------------------------------------------------------------
(* The options.                                                             *)
(* Mutant: the current value is not saved before a new level begins.        *)
PushStale(c) == [c EXCEPT !.slots = Append(@, Last(@))]

(* m_config_push: the value is saved and copied to a new level.             *)
Push(c) == [c EXCEPT !.slots = Append([@ EXCEPT ![Len(@)] = c.value], c.value)]

(* Mutant: a level is left without its old value coming back.               *)
PopOnly(c) == [c EXCEPT !.slots = Front(@)]

(* m_config_pop: the level goes, the value of the level below comes back.   *)
Pop(c) == [slots |-> Front(c.slots), value |-> Last(Front(c.slots))]

(* play_tree_iter_push_params.                                              *)
PushParams(c, n) ==
  IF params[n] = Unset THEN Push(c)
  ELSE [slots |-> [Push(c).slots EXCEPT ![Len(Push(c).slots)] = params[n]],
        value |-> params[n]]

(* Only the copy that a command looks ahead with has no config.             *)
WithConfig == job # "peek"

(* play_tree_iter_step before it chooses: the level of the entry is left.   *)
Left == [iter EXCEPT !.pushed = @ /\ ~WithConfig, !.file = -1,
                     !.random = ParentOf(iter.node) \in shuffled]

(* Mutant: the level of the entry stays.                                    *)
LeftConfKept == conf

LeftConf == IF iter.pushed /\ WithConfig THEN Pop(conf) ELSE conf

(* Mutant: the flag of what was played is not looked at.                    *)
UnplayedAll == ToSet(Siblings(iter.node))

(* play_tree_rnd_step: the siblings that this pass has not played.          *)
Unplayed == ToSet(Siblings(iter.node)) \ played

(* Where the iterator may go, and the rest of d.                            *)
Targets ==
  IF Left.random
  THEN {[to |-> n, left |-> dir] : n \in IF Unplayed = {} THEN {NoNode} ELSE Unplayed}
  ELSE {Walk(Siblings(iter.node), Place(iter.node), dir)}

(* How often the files of a shuffled list were played, less what all of     *)
(* them have in common.                                                     *)
Counted(n) ==
  LET more == [count EXCEPT ![n] = @ + 1]
  IN IF \A m \in ToSet(Siblings(n)) \cap Files : more[m] > 0
     THEN [m \in Files |-> IF Contains(Siblings(n), m) THEN more[m] - 1 ELSE 0]
     ELSE more

Return(r) == pc' = "rest" /\ ret' = r /\ UNCHANGED <<dir, withNodes>>

Goto(where, d) == pc' = where /\ dir' = d /\ UNCHANGED <<withNodes, ret>>

-----------------------------------------------------------------------------
(* play_tree_iter_step.                                                     *)
Stepping ==
  /\ pc = "step"
  /\ UNCHANGED <<kids, params, shuffled, job, eof, hold, base, lost, how, from, promised, cmds>>

FirstStep ==
  /\ Stepping /\ iter.node = NoNode
  /\ iter' = [iter EXCEPT !.node = Root]
  /\ Goto("step", 0)
  /\ UNCHANGED <<loops, played, conf, count>>

(* Mutant: the flags are not cleared for the next pass.                     *)
PassEndsKept ==
  /\ Stepping /\ iter.node # NoNode /\ Left.random /\ Unplayed = {}
  /\ iter' = Left /\ conf' = LeftConf
  /\ IF loops[Root] = 0
     THEN Return("end") /\ UNCHANGED <<loops, played>>
     ELSE /\ loops' = [loops EXCEPT ![Root] = IF @ > 0 THEN @ - 1 ELSE @]
          /\ Goto("step", 0) /\ UNCHANGED played
  /\ UNCHANGED count

(* The end of a pass through a shuffled list.                               *)
PassEnds ==
  /\ Stepping /\ iter.node # NoNode /\ Left.random /\ Unplayed = {}
  /\ iter' = Left /\ conf' = LeftConf
  /\ IF loops[Root] = 0
     THEN Return("end") /\ UNCHANGED <<loops, played>>
     ELSE /\ played' = {}
          /\ loops' = [loops EXCEPT ![Root] = IF @ > 0 THEN @ - 1 ELSE @]
          /\ Goto("step", 0)
  /\ UNCHANGED count

(* A list is begun again, from either end, if its loop count allows.        *)
Again(d) ==
  LET times == loops[ParentOf(iter.node)] IN
    /\ ParentOf(iter.node) # NoNode /\ times # 0
    /\ IF d > 0 THEN Left.loop # 0 ELSE Left.loop < 0 \/ Left.loop < times

Rewind(d) ==
  LET list == Siblings(iter.node)
      times == loops[ParentOf(iter.node)]
  IN IF d > 0
     THEN [Left EXCEPT !.node = Head(list), !.loop = IF @ > 0 THEN @ - 1 ELSE @]
     ELSE [Left EXCEPT !.node = Last(list),
                       !.loop = IF @ >= 0 /\ @ < times THEN @ + 1 ELSE @]

ListEnds ==
  /\ Stepping /\ iter.node # NoNode /\ ~Left.random
  /\ \E t \in Targets :
       /\ t.to = NoNode
       /\ IF Again(t.left)
          THEN iter' = Rewind(t.left) /\ Goto("step", 0)
          ELSE iter' = Left /\ Goto("up", t.left)
  /\ conf' = LeftConf
  /\ UNCHANGED <<loops, played, count>>

(* The test in front of the way down looks at the first child only.         *)
Enterable == {n \in Groups : kids[n] # <<>> /\ Head(kids[n]) \in Valid}

(* A group is reached: stop on it or go down.                               *)
Group ==
  /\ Stepping /\ iter.node # NoNode
  /\ \E t \in Targets :
       /\ t.to \in Enterable
       /\ iter' = [Left EXCEPT !.node = t.to]
       /\ IF withNodes THEN Return("node") ELSE Goto("down", t.left)
  /\ conf' = LeftConf
  /\ UNCHANGED <<loops, played, count>>

(* Something without a file is reached.  The iterator stays where it is, so *)
(* that the next step finds the same again.                                 *)
Invalid ==
  /\ Stepping /\ iter.node # NoNode
  /\ \E t \in Targets :
       /\ t.to \in Nodes \ Valid
       /\ iter' = Left
       /\ IF t.left = 0 THEN Return("error") ELSE Goto("step", t.left)
  /\ conf' = LeftConf
  /\ UNCHANGED <<loops, played, count>>

(* An entry is reached.  A group whose first child is invalid gets here too *)
(* and has no files to count: a null pointer is read.                       *)
Entry ==
  /\ Stepping /\ iter.node # NoNode
  /\ \E t \in Targets :
       /\ t.to \in Valid \ Enterable
       /\ iter' = [Left EXCEPT !.node = t.to, !.pushed = @ \/ WithConfig]
       /\ conf' = IF WithConfig THEN PushParams(LeftConf, t.to) ELSE LeftConf
       /\ played' = IF WithConfig /\ Left.random THEN played \cup {t.to} ELSE played
       /\ count' = IF WithConfig /\ Left.random THEN Counted(t.to) ELSE count
       /\ Return(IF t.to \in Files THEN "entry" ELSE "crash")
  /\ UNCHANGED loops

(* play_tree_iter_up_step.                                                  *)
Up ==
  /\ pc = "up"
  /\ IF ParentOf(iter.node) = NoNode
     THEN /\ iter' = [iter EXCEPT !.file = -1]
          /\ Return("end")
          /\ UNCHANGED <<conf, played>>
     ELSE /\ iter' = [iter EXCEPT !.file = -1, !.node = ParentOf(iter.node),
                                  !.loop = Last(iter.stack), !.stack = Front(@)]
          /\ conf' = IF WithConfig THEN Pop(conf) ELSE conf
          /\ played' = IF WithConfig /\ iter.random
                       THEN played \cup {ParentOf(iter.node)} ELSE played
          /\ Goto("step", dir)
  /\ UNCHANGED <<kids, loops, params, shuffled, job, eof, hold, history, cmds>>

(* Mutant: the levels of a group are not opened when it is entered.         *)
DownBare ==
  /\ pc = "down"
  /\ iter' = [iter EXCEPT !.file = -1, !.stack = Append(@, iter.loop),
                          !.loop = loops[iter.node] - 1,
                          !.node = IF dir >= 0 THEN Head(kids[@]) ELSE Last(kids[@])]
  /\ Goto("step", 0)
  /\ UNCHANGED <<tree, conf, job, eof, hold, history, cmds>>

(* Mutant: a group plays once more than its loop count says.                *)
DownOnceMore ==
  /\ pc = "down"
  /\ iter' = [iter EXCEPT !.file = -1, !.stack = Append(@, iter.loop),
                          !.loop = loops[iter.node],
                          !.node = IF dir >= 0 THEN Head(kids[@]) ELSE Last(kids[@])]
  /\ conf' = IF WithConfig THEN PushParams(conf, iter.node) ELSE conf
  /\ Goto("step", 0)
  /\ UNCHANGED <<tree, job, eof, hold, history, cmds>>

(* Mutant: a group is entered by its first, also on the way back.           *)
DownAtFront ==
  /\ pc = "down"
  /\ iter' = [iter EXCEPT !.file = -1, !.stack = Append(@, iter.loop),
                          !.loop = loops[iter.node] - 1, !.node = Head(kids[@])]
  /\ conf' = IF WithConfig THEN PushParams(conf, iter.node) ELSE conf
  /\ Goto("step", 0)
  /\ UNCHANGED <<tree, job, eof, hold, history, cmds>>

(* play_tree_iter_down_step.                                                *)
Down ==
  /\ pc = "down"
  /\ iter' = [iter EXCEPT !.file = -1, !.stack = Append(@, iter.loop),
                          !.loop = loops[iter.node] - 1,
                          !.node = IF dir >= 0 THEN Head(kids[@]) ELSE Last(kids[@])]
  /\ conf' = IF WithConfig THEN PushParams(conf, iter.node) ELSE conf
  /\ Goto("step", 0)
  /\ UNCHANGED <<tree, job, eof, hold, history, cmds>>

Iterate == FirstStep \/ PassEnds \/ ListEnds \/ Group \/ Invalid \/ Entry \/ Up \/ Down

-----------------------------------------------------------------------------
(* The main loop.  A call is made, and what follows it is taken up by the   *)
(* action for its job.                                                      *)
Call(where, d, nodes, j) ==
  pc' = where /\ dir' = d /\ withNodes' = nodes /\ ret' = "none" /\ job' = j

Returned(j) == pc = "rest" /\ job = j

Playing == Returned("none") /\ iter.live

Idle == Returned("none") /\ ~iter.live

NoCall == UNCHANGED call

(* play_tree_iter_get_file, NULL when the sources run out.                  *)
HasFile == iter.file < Sources[iter.node] - 1 /\ iter.file >= -1

NextFile(d) ==
  IF d > 0 THEN iter.file + 1
  ELSE IF iter.file <= 0 THEN Sources[iter.node] - 1 ELSE iter.file - 1

(* play_next_file: a file is opened and played, unless it is a playlist.    *)
Play(d) ==
  /\ iter' = [iter EXCEPT !.file = NextFile(d)]
  /\ job' = IF iter.node \in DOMAIN Contents THEN "playlist" ELSE "none"
  /\ how' = "none" /\ from' = NoIter /\ promised' = FALSE

(* play_tree_iter_free; with -idle the player then waits for a command.     *)
Free ==
  /\ iter' = NoIter /\ job' = "none"
  /\ how' = "none" /\ from' = NoIter /\ promised' = FALSE
  /\ count' = [f \in Files |-> 0] /\ UNCHANGED <<base, lost>>

(* The way an entry was left.                                               *)
Leave(way) == how' = way /\ from' = iter /\ UNCHANGED <<base, lost, promised, count>>

(* goto_next_file with PT_NEXT_ENTRY.                                       *)
NextEntry == Call("step", 1, FALSE, "next")

(* Mutant: the code of the way on (2 or -2) is taken for its direction.     *)
NextSourceCode(d) == job' = "files" /\ eof' = 2 * d

(* goto_next_file with PT_NEXT_SRC (1) or PT_PREV_SRC (-1).                 *)
NextSource(d) == job' = "files" /\ eof' = d

(* A new iterator and its first step.                                       *)
Start ==
  /\ iter' = NewIter /\ base' = Len(conf.slots) /\ lost' = 0
  /\ Call("step", 0, FALSE, "start")

Boot ==
  /\ Returned("boot")
  /\ kids' = Cleaned
  /\ loops' = [n \in Nodes |-> IF n \in Valid THEN loops[n] ELSE 0]
  /\ params' = [n \in Nodes |-> IF n \in Valid THEN params[n] ELSE Unset]
  /\ shuffled' = shuffled \cap Valid
  /\ IF Root \in Valid THEN Start
     ELSE job' = "none" /\ UNCHANGED <<iter, base, lost, call>>
  /\ UNCHANGED <<played, conf, eof, hold, how, from, promised, count, cmds>>

Started ==
  /\ Returned("start")
  /\ IF ret = "entry" THEN Play(1) /\ UNCHANGED <<base, lost, count>> ELSE Free
  /\ NoCall /\ UNCHANGED <<tree, conf, eof, hold, cmds>>

(* The file is over.                                                        *)
EndOfFile ==
  /\ Playing /\ NextEntry /\ Leave("natural")
  /\ UNCHANGED <<tree, iter, conf, eof, hold, cmds>>

(* The call that goto_next_file makes has returned.                         *)
NextDone ==
  /\ Returned("next")
  /\ IF ret = "entry"
     THEN NextSource(1) /\ UNCHANGED <<iter, history>>
     ELSE Free /\ UNCHANGED eof
  /\ NoCall /\ UNCHANGED <<tree, conf, hold, cmds>>

(* The loop that looks for a file, from entry to entry.                     *)
FindFile ==
  /\ Returned("files")
  /\ IF HasFile
     THEN Play(eof) /\ NoCall /\ UNCHANGED <<base, lost, count>>
     ELSE Call("step", eof, FALSE, "filestep") /\ UNCHANGED <<iter, history>>
  /\ UNCHANGED <<tree, conf, eof, hold, cmds>>

FileStepDone ==
  /\ Returned("filestep")
  /\ IF ret = "entry" THEN job' = "files" /\ UNCHANGED <<iter, history>> ELSE Free
  /\ NoCall /\ UNCHANGED <<tree, conf, eof, hold, cmds>>

-----------------------------------------------------------------------------
(* The commands.                                                            *)
Command == cmds < MaxCommands /\ cmds' = cmds + 1

Way(where, n) == IF where = "step" /\ n = -1 THEN "back" ELSE "jump"

(* pt_step and pt_up_step.  Unless it is forced, a copy of the iterator     *)
(* looks whether there is an entry to go to.                                *)
Move(where, n, force) ==
  /\ Playing /\ Command
  /\ IF force
     THEN Call(where, n, FALSE, "next") /\ UNCHANGED hold
     ELSE /\ Call(where, n, FALSE, "peek")
          /\ saved' = iter /\ wanted' = [at |-> where, d |-> n] /\ UNCHANGED victim
  /\ Leave(Way(where, n))
  /\ UNCHANGED <<tree, iter, conf, eof>>

PlayTreeStep(n, force) == Move("step", n, force)

UpStep(n, force) == Move("up", n, force)

(* Mutant: the way that the copy went is not remembered for the iterator.   *)
PeekedForward ==
  /\ Returned("peek")
  /\ iter' = saved /\ saved' = NoIter
  /\ IF ret = "entry"
     THEN /\ Call(wanted.at, 1, FALSE, "next")
          /\ promised' = TRUE /\ UNCHANGED <<how, from>>
     ELSE /\ job' = "none" /\ NoCall
          /\ how' = "none" /\ from' = NoIter /\ UNCHANGED promised
  /\ UNCHANGED <<tree, conf, eof, wanted, victim, base, lost, count, cmds>>

Peeked ==
  /\ Returned("peek")
  /\ iter' = saved /\ saved' = NoIter
  /\ IF ret = "entry"
     THEN /\ Call(wanted.at, wanted.d, FALSE, "next")
          /\ promised' = TRUE /\ UNCHANGED <<how, from>>
     ELSE /\ job' = "none" /\ NoCall
          /\ how' = "none" /\ from' = NoIter /\ UNCHANGED promised
  /\ UNCHANGED <<tree, conf, eof, wanted, victim, base, lost, count, cmds>>

(* pt_alt_src_step.  While a stream is being opened only the direction      *)
(* counts.                                                                  *)
AltSource(v, opening) ==
  /\ Playing /\ Command
  /\ ~opening => /\ Sources[iter.node] > 1
                 /\ IF v > 0 THEN iter.file < Sources[iter.node] ELSE iter.file > 1
  /\ NextSource(v)
  /\ Leave("jump")
  /\ NoCall /\ UNCHANGED <<tree, iter, conf, hold>>

(* stop, and a load that replaces what is there: up to the root.            *)
GoToTop(j) ==
  /\ Playing /\ Command
  /\ Call("up", 0, TRUE, j)
  /\ Leave("jump")
  /\ UNCHANGED <<tree, iter, conf, eof, hold>>

NotYetAtTop ==
  /\ Returned("stop") \/ Returned("replace")
  /\ ret # "end"
  /\ Call("up", 0, TRUE, job)
  /\ UNCHANGED <<tree, iter, conf, eof, hold, history, cmds>>

Stop == GoToTop("stop")

Stopped ==
  /\ Returned("stop") /\ ret = "end" /\ Free
  /\ NoCall /\ UNCHANGED <<tree, conf, eof, hold, cmds>>

(* The nodes under the root are freed, the entry takes their place.         *)
Replace(e) ==
  /\ kids' = OnlyEntry(e)
  /\ loops' = [n \in Nodes |-> IF n = Root THEN loops[n] ELSE 0]
  /\ params' = [n \in Nodes |-> IF n = Root THEN params[n] ELSE Unset]
  /\ shuffled' = shuffled \cap {Root} /\ played' = {}
  /\ count' = [f \in Files |-> 0]

LoadReplace == GoToTop("replace")

Replaced(e) ==
  /\ Returned("replace") /\ ret = "end"
  /\ Replace(e)
  /\ iter' = [iter EXCEPT !.node = Root] /\ lost' = Len(iter.stack)
  /\ Call("step", 0, FALSE, "head")
  /\ UNCHANGED <<conf, eof, hold, base, how, from, promised, cmds>>

HeadFound ==
  /\ Returned("head") /\ NextSource(1)
  /\ NoCall /\ UNCHANGED <<tree, iter, conf, hold, history, cmds>>

LoadAppend(e) ==
  /\ Playing /\ Command
  /\ kids' = [kids EXCEPT ![Root] = Append(@, e.top), ![e.top] = e.list]
  /\ UNCHANGED <<loops, params, shuffled, played, iter, conf, call, job, eof, hold, history>>

LoadIdle(e) ==
  /\ Idle /\ Command
  /\ Replace(e) /\ Start
  /\ UNCHANGED <<conf, eof, hold, how, from, promised>>

(* A property is set: the variable changes, its level does not.             *)
SetOption(v) ==
  /\ Returned("none") /\ Command
  /\ v # conf.value /\ conf' = [conf EXCEPT !.value = v]
  /\ UNCHANGED <<tree, iter, call, job, eof, hold, history>>

-----------------------------------------------------------------------------
(* playtree_add_playlist: the file was a playlist, its entries replace it.  *)
InsertAfter(list, n, m) == InsertAt(list, Place(n) + 1, m)

OpenPlaylist ==
  /\ Returned("playlist")
  /\ victim' = iter.node
  /\ LET e == Contents[iter.node] IN
       IF e = NoEntry
       THEN UNCHANGED <<kids, params>>
       ELSE /\ Fresh(e)
            /\ kids' = [kids EXCEPT ![ParentOf(iter.node)] = InsertAfter(@, iter.node, e.top),
                                    ![e.top] = e.list]
            /\ params' = [params EXCEPT ![e.top] = params[iter.node]]
  /\ Call("step", 1, FALSE, "added")
  /\ UNCHANGED <<loops, shuffled, played, iter, conf, eof, saved, wanted, history, cmds>>

RemoveVictim ==
  /\ kids' = [n \in Nodes |-> Kept(kids[n], Nodes \ {victim})]
  /\ params' = [params EXCEPT ![victim] = Unset]
  /\ played' = played \ {victim}
  /\ victim' = NoNode
  /\ UNCHANGED <<loops, shuffled>>

(* Mutant: a list that comes back to the empty playlist is not noticed.     *)
SingleFileMissed == FALSE

(* An empty playlist in a list that has nothing else in it is left upwards. *)
SingleFile == Returned("added") /\ Contents[victim] = NoEntry /\ iter.node = victim

PlaylistDone ==
  /\ Returned("added") \/ Returned("unlooped")
  /\ IF ret # "entry"
     THEN NextEntry /\ victim' = NoNode /\ UNCHANGED <<tree, eof>>
     ELSE IF SingleFile
     THEN Call("up", 1, FALSE, "unlooped") /\ UNCHANGED <<tree, eof, victim>>
     ELSE RemoveVictim /\ NextSource(1) /\ NoCall
  /\ UNCHANGED <<iter, conf, saved, wanted, history, cmds>>

-----------------------------------------------------------------------------
Init ==
  /\ \E t \in Trees : /\ kids = t.kids /\ loops = t.loops
                       /\ params = t.params /\ shuffled = t.shuffled
  /\ played = {}
  /\ iter = NoIter
  /\ conf = [slots |-> <<Global>>, value |-> Global]
  /\ pc = "rest" /\ dir = 0 /\ withNodes = FALSE /\ ret = "none"
  /\ job = "boot" /\ eof = 1
  /\ saved = NoIter /\ wanted = [at |-> "step", d |-> 0] /\ victim = NoNode
  /\ base = 1 /\ lost = 0 /\ how = "none" /\ from = NoIter /\ promised = FALSE
  /\ count = [f \in Files |-> 0] /\ cmds = 0

(* What the program does by itself.                                         *)
Proceed ==
  \/ Iterate
  \/ Boot \/ Started \/ NextDone \/ FindFile \/ FileStepDone
  \/ Peeked \/ NotYetAtTop \/ Stopped \/ HeadFound
  \/ \E e \in Loads : Replaced(e)
  \/ OpenPlaylist \/ PlaylistDone

Next ==
  \/ Proceed
  \/ EndOfFile
  \/ \E force \in BOOLEAN :
       \/ \E n \in {-2, -1, 1, 2} : PlayTreeStep(n, force)
       \/ \E n \in {-1, 1} : UpStep(n, force) \/ AltSource(n, force)
  \/ Stop \/ LoadReplace
  \/ \E e \in NewEntries : LoadAppend(e)
  \/ \E e \in Loads : LoadIdle(e)
  \/ \E v \in Values : SetOption(v)

Spec == Init /\ [][Next]_vars /\ WF_vars(Proceed)

-----------------------------------------------------------------------------
Iterators ==
  [live : BOOLEAN, node : Nodes \cup {NoNode}, loop : Int, file : Int,
   pushed : BOOLEAN, random : BOOLEAN, stack : Seq(Int)]

TypeOK ==
  /\ kids \in [Nodes -> Seq(Nodes)] /\ loops \in [Nodes -> Int]
  /\ params \in [Nodes -> Values \cup {Unset}]
  /\ shuffled \subseteq Groups /\ played \subseteq Nodes
  /\ iter \in Iterators /\ saved \in Iterators /\ from \in Iterators
  /\ conf \in [slots : Seq(Values), value : Values]
  /\ pc \in {"rest", "step", "up", "down"} /\ dir \in Int /\ withNodes \in BOOLEAN
  /\ ret \in {"none", "entry", "node", "end", "error", "crash"}
  /\ job \in {"none", "boot", "start", "next", "files", "filestep", "peek", "stop",
              "replace", "head", "playlist", "added", "unlooped"}
  /\ eof \in {-1, 1} /\ wanted \in [at : {"step", "up"}, d : Int]
  /\ victim \in Files \cup {NoNode}
  /\ base \in Nat /\ lost \in Nat /\ how \in {"none", "natural", "back", "jump"}
  /\ promised \in BOOLEAN /\ count \in [Files -> Nat] /\ cmds \in 0..MaxCommands

(* While a copy looks ahead, the iterator that counts is the saved one.     *)
Held == IF job = "peek" THEN saved ELSE iter

Finite == \A n \in InTree : loops[n] >= 0

Clean == InTree \subseteq Valid

(* The levels of options are those of the groups that the iterator is in    *)
(* and of the entry that plays: play_tree_iter_step, _up_step and           *)
(* _down_step push and pop one level each for what they enter and leave,    *)
(* on every way through the tree, look-ahead and playlists included.        *)
LevelsPaired ==
  Held.live =>
    Len(conf.slots) = base + Len(Held.stack) + (IF Held.pushed THEN 1 ELSE 0)

(* When the player has become idle, no level of the groups and entries it   *)
(* went through is left, whatever way it left them.  (The end of a shuffled *)
(* list, and a group that was emptied, give up in the middle of the tree;   *)
(* the levels that a load had lost in that way before stay.)                *)
NoLevelLeft == Idle /\ shuffled = {} /\ Clean => Len(conf.slots) = base + lost

Arrived ==
  /\ pc = "rest" /\ ret = "entry"
  /\ job \in {"start", "next", "filestep", "head", "added", "unlooped"}

(* Each entry starts with the parameter of the nearest group around it that *)
(* has one, its own first, else with what was set outside of the tree:      *)
(* whatever was pushed, popped or set by the user on the way to it.  (Lost  *)
(* levels of a tree that was replaced count as outside.)                    *)
OptionsInForce ==
  LET inForce[n \in Nodes \cup {NoNode}] ==
        IF n = NoNode THEN conf.slots[base + lost]
        ELSE IF params[n] # Unset THEN params[n] ELSE inForce[ParentOf(n)]
  IN Arrived => conf.value = inForce[iter.node]

(* Groups without an entry, left by playlists that turned out to be empty.  *)
Emptied == (InTree \cap Groups) \ Valid

(* Above such a group is a list that brings the iterator back to it, with   *)
(* no entry in between: it is shuffled, or begun again and empty as well.   *)
Returns(n) ==
  \/ ParentOf(n) \in shuffled
  \/ ParentOf(n) \in Emptied /\ loops[ParentOf(n)] # 0

(* The iterator never points to a node that was freed: playlists that are   *)
(* replaced by their entries, and loads, take nodes out of the tree while   *)
(* it is in use.  (If the empty playlist is all there was in a group that   *)
(* Returns, the step up that should leave it comes back to it, and          *)
(* playtree_add_playlist frees it under the iterator.)                      *)
IteratorInTree ==
  /\ shuffled \subseteq {Root} /\ \A n \in Emptied \ {Root} : ~Returns(n)
  /\ Held.live /\ Held.node # NoNode
  => Held.node \in InTree

(* The first step on a new tree finds an entry: main takes the first file   *)
(* from the iterator without a test for NULL.  And no step takes a group    *)
(* for an entry, as long as no group was emptied since the tree was cleaned.*)
FirstStepFinds ==
  /\ Clean => ret # "crash"
  /\ Returned("start") => ret = "entry"

(* A step that the copy of the iterator could make, the iterator can make.  *)
(* (The copy of a shuffled list's end takes a pass from the root, which the *)
(* iterator of a group in the tree may then miss; and of a shuffled list    *)
(* the two choose differently, of which one may be an empty group.)         *)
LookAheadRight ==
  Returned("next") /\ promised /\ Clean /\ shuffled \subseteq {Root} => ret = "entry"

-----------------------------------------------------------------------------
(* What is still to play: what follows in the list, the passes left of it,  *)
(* and the same for the lists around it.                                    *)
Repeat(list, n) == FlattenSeq([i \in 1..n |-> list])

Plays ==
  LET plays[n \in Nodes] ==
        IF n \in Files THEN <<n>>
        ELSE Repeat(FlattenSeq([i \in DOMAIN kids[n] |-> plays[kids[n][i]]]),
                    IF loops[n] = 0 THEN 1 ELSE loops[n])
  IN plays

Remaining(it) ==
  LET depth == Len(it.stack) - lost
      at[k \in 0..depth] == IF k = 0 THEN it.node ELSE ParentOf(at[k - 1])
      passes(k) == IF loops[at[k + 1]] = 0 THEN 0
                   ELSE IF k = 0 THEN it.loop ELSE it.stack[Len(it.stack) + 1 - k]
      all(list) == FlattenSeq([i \in DOMAIN list |-> Plays[list[i]]])
      rest(k) == LET list == Siblings(at[k]) IN
                 all(SubSeq(list, Place(at[k]) + 1, Len(list))) \o Repeat(all(list), passes(k))
  IN FlattenSeq([k \in 1..depth |-> rest(k - 1)])

Regular == Clean /\ Finite /\ shuffled = {}

(* When a file ends, the next one is the first of what was still to play,   *)
(* and what is to play then is the rest: group by group, each list as many  *)
(* times as its loop count says; nothing is left only at the end.           *)
OrderKept ==
  Returned("next") /\ how = "natural" /\ Regular =>
    Remaining(from) = IF ret = "entry" THEN <<iter.node>> \o Remaining(iter) ELSE <<>>

(* A step back gives back what was played: the entry it comes from is the   *)
(* next to play again, with all that was to play after it.  (A group with a *)
(* loop count of its own is entered from behind with one pass less, and has *)
(* one more if its first pass is left backwards; one at the end of another, *)
(* or of a list that is begun again, is entered by its first.)              *)
BackUndoes ==
  /\ Returned("next") /\ how = "back" /\ ret = "entry" /\ Regular
  /\ \A n \in InTree \cap Groups : Last(kids[n]) \in Files /\ (n = Root \/ loops[n] = 0)
  => Remaining(iter) = <<from.node>> \o Remaining(from)

(* In a shuffled list every file is played as often as the others, up to    *)
(* once: over the passes, when steps look ahead at the end of one, and when *)
(* an empty playlist is taken out of it.  (A file that is added at the end  *)
(* of a pass still plays in that pass.)                                     *)
ShuffleFair ==
  /\ shuffled = {Root} /\ InTree \cap Groups = {Root}
  /\ \A e \in Loads : e.top \notin InTree
  => \A f \in InTree \cap Files : count[f] <= 1

(* Every call, and every command made of several, comes to an end in a tree *)
(* without empty groups: something plays, or the player is idle.            *)
Settles == Clean /\ job # "none" ~> job = "none"

(* "Not a valid entry : go to next one" (play_tree_iter_step): with groups  *)
(* that an empty playlist left empty a call should come to its end as well. *)
(* (It does not: it goes to the same one again.)                            *)
EveryCallReturns == pc # "rest" ~> pc = "rest"

=============================================================================

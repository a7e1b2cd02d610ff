--------------------------- MODULE MpServer_proofs ---------------------------
(***************************************************************************)
(* One player at a time, known to the server, and a handler that does not  *)
(* wait for a running one: for any number of starts and any interleaving   *)
(* of the commands with SIGCHLD.                                           *)
(***************************************************************************)
EXTENDS MpServer, FiniteSetTheorems, TLAPS

(* What may run, by the place of the thread: the player it knows; none from *)
(* the end of the kill to the fork; the new one until its pid is stored.    *)
Tracked ==
  /\ pc \in {"idle", "status", "answer", "kill", "wait"} => Running \subseteq {mplayer_pid}
  /\ pc \in {"clear", "unflag", "fork"} => Running = {} /\ ~sigchld /\ handler = Off
  /\ pc = "store" => Running \subseteq {local} /\ local # Nobody
  /\ pc = "wait" => \A p \in Players : proc[p] # "running"

(* A signal is there for a player that has ended and is not yet forgotten.  *)
Signalled ==
  /\ sigchld => handler = Off /\ Running = {} /\ (mplayer_pid # Nobody \/ pc = "store")
  /\ handler # Off => Running = {}

IInv == TypeOK /\ Tracked /\ Signalled

-----------------------------------------------------------------------------
LEMMA InitIInv == Init => IInv
BY PidsAssumption DEF Init, IInv, TypeOK, Tracked, Signalled, Running, Pids

(* A player that ends was the only one, and the server's thread or the      *)
(* pending fork knows it.                                                   *)
LEMMA ExitKeeps ==
  ASSUME IInv, Exit
  PROVE  IInv'
<1>1. PICK p \in Running : /\ proc' = [proc EXCEPT ![p] = "zombie"]
                           /\ sigchld' = TRUE
                           /\ UNCHANGED <<globals, handler, pc, then, local, history>>
  BY DEF Exit
<1>2. /\ UNCHANGED <<mplayer_pid, mpserver_kill_flag, handler, pc, then, local, reports, struck>>
      /\ p \in Players
  BY <1>1 DEF globals, history, Running
<1>3. TypeOK'
  BY <1>1, <1>2 DEF IInv, TypeOK, Pids
<1>4. handler = Off /\ pc \notin {"clear", "unflag", "fork"}
  BY <1>1 DEF IInv, Signalled, Tracked
<1>5. Running' = Running \ {p}
  BY <1>1 DEF Running, IInv, TypeOK
<1>6. Running = {p} /\ (mplayer_pid = p \/ pc = "store")
  BY <1>1, <1>4 DEF IInv, Tracked, TypeOK
<1>7. Running' = {}
  BY <1>5, <1>6
<1>8. Tracked'
  BY <1>1, <1>2, <1>4, <1>7 DEF IInv, Tracked, TypeOK
<1>9. Signalled'
  BY <1>2, <1>4, <1>6, <1>7, PidsAssumption DEF Signalled
<1> QED BY <1>3, <1>8, <1>9 DEF IInv

(* The handler runs only when no player does.                               *)
LEMMA HandlerKeeps ==
  ASSUME IInv, Handler
  PROVE  IInv'
<1>1. CASE HandlerEnter
  <2>1. Running' = Running /\ Running = {}
    BY <1>1 DEF HandlerEnter, Running, IInv, Signalled
  <2>2. TypeOK'
    BY <1>1 DEF HandlerEnter, IInv, TypeOK, globals, history
  <2>3. Tracked' /\ Signalled'
    BY <1>1, <2>1 DEF HandlerEnter, IInv, Tracked, Signalled, globals
  <2> QED BY <2>2, <2>3 DEF IInv
<1>2. CASE HandlerReturn
  <2>1. Running = {} /\ ~sigchld /\ pc \notin {"clear", "unflag", "fork"}
    BY <1>2 DEF HandlerReturn, IInv, Signalled, Tracked
  <2>2. PICK n \in {1, 2} :
          \/ \E p \in Awaited(handler) :
               /\ proc[p] = "zombie"
               /\ proc' = [proc EXCEPT ![p] = "gone"]
               /\ Report(p, n)
          \/ Awaited(handler) = {} /\ UNCHANGED proc /\ Report(handler, n)
    BY <1>2 DEF HandlerReturn
  <2>3. /\ proc' \in [Players -> {"none", "running", "hit", "zombie", "gone"}]
        /\ \A p \in Players : proc'[p] = proc[p] \/ proc'[p] = "gone"
    BY <2>2 DEF IInv, TypeOK, Awaited, Children
  <2>4. reports' \in [Players -> SUBSET {1, 2}]
    BY <2>2 DEF IInv, TypeOK, Report
  <2>5. /\ mplayer_pid' = Nobody /\ handler' = Off
        /\ UNCHANGED <<sigchld, mpserver_kill_flag, pc, then, local, struck>>
    BY <1>2 DEF HandlerReturn
  <2>6. Running' = {}
    BY <2>1, <2>3 DEF Running
  <2>7. TypeOK'
    BY <2>3, <2>4, <2>5 DEF IInv, TypeOK, Pids
  <2>8. Tracked' /\ Signalled'
    BY <2>1, <2>3, <2>5, <2>6 DEF IInv, Tracked, Signalled
  <2> QED BY <2>7, <2>8 DEF IInv
<1> QED BY <1>1, <1>2 DEF Handler

-----------------------------------------------------------------------------
(* The steps of the thread.                                                 *)
LEMMA StatusKeeps ==
  ASSUME IInv, Status \/ StatusWait \/ StatusAnswer
  PROVE  IInv'
<1>1. CASE Status
  <2>1. Running' = Running
    BY <1>1 DEF Status, kernel, Running
  <2> QED BY <1>1, <2>1 DEF Status, Thread, kernel, globals, history, IInv, TypeOK, Tracked, Signalled
<1>2. CASE StatusWait
  <2>1. /\ proc' \in [Players -> {"none", "running", "hit", "zombie", "gone"}]
        /\ Running' = Running
        /\ local' \in Pids
    BY <1>2 DEF StatusWait, IInv, TypeOK, Awaited, Children, Running, Pids
  <2> QED BY <1>2, <2>1 DEF StatusWait, Thread, globals, history, IInv, TypeOK, Tracked, Signalled
<1>3. CASE StatusAnswer
  <2>1. Running' = Running
    BY <1>3 DEF StatusAnswer, kernel, Running
  <2>2. reports' \in [Players -> SUBSET {1, 2}]
    BY <1>3 DEF StatusAnswer, Report, IInv, TypeOK
  <2> QED BY <1>3, <2>1, <2>2
        DEF StatusAnswer, Thread, kernel, globals, IInv, TypeOK, Tracked, Signalled, Pids
<1> QED BY <1>1, <1>2, <1>3

(* From the command to the end of the wait.                                 *)
LEMMA ForceKillKeeps ==
  ASSUME IInv, NEW after \in {"idle", "clear"}, handler = Off, pc = "idle", ForceKill(after),
         after = "clear" => mplayer_pid # Nobody
  PROVE  IInv'
<1>1. Running' = Running
  BY DEF ForceKill, kernel, Running
<1> QED BY <1>1 DEF ForceKill, kernel, history, IInv, TypeOK, Tracked, Signalled

LEMMA KillKeeps ==
  ASSUME IInv, Kill \/ Sigkill \/ Wait
  PROVE  IInv'
<1>1. CASE Kill
  BY <1>1, ForceKillKeeps DEF Kill
<1>2. CASE Sigkill
  <2> DEFINE hit == {p \in Running : mplayer_pid \in {p, Everybody}}
  <2>1. hit = Running
    BY <1>2 DEF Sigkill, Thread, IInv, Tracked
  <2>2. /\ proc' = [p \in Players |-> IF p \in Running THEN "hit" ELSE proc[p]]
        /\ struck' = struck \cup Running
    BY <1>2, <2>1 DEF Sigkill
  <2>3. /\ proc' \in [Players -> {"none", "running", "hit", "zombie", "gone"}]
        /\ Running' = Running
        /\ \A p \in Players : proc'[p] # "running"
        /\ struck' \subseteq Players
    BY <2>2 DEF Running, IInv, TypeOK
  <2> QED BY <1>2, <2>3 DEF Sigkill, Thread, globals, IInv, TypeOK, Tracked, Signalled
<1>3. CASE Wait
  <2>1. Running' = Running
    BY <1>3 DEF Wait, kernel, Running
  <2>2. CASE then = "idle"
    BY <1>3, <2>1, <2>2
      DEF Wait, Thread, kernel, globals, history, IInv, TypeOK, Tracked, Signalled
  <2>3. CASE then = "clear"
    <3>1. handler = Off /\ pc = "wait"
      BY <1>3 DEF Wait, Thread
    <3>2. ~sigchld
      BY <1>3, <3>1 DEF Wait, IInv, Signalled
    <3>3. Running = {}
      BY <1>3, <3>1, PidsAssumption DEF Wait, IInv, Tracked, Running
    <3> QED BY <1>3, <2>1, <2>3, <3>1, <3>2, <3>3
          DEF Wait, Thread, kernel, globals, history, IInv, TypeOK, Tracked, Signalled
  <2> QED BY <2>2, <2>3 DEF IInv, TypeOK
<1> QED BY <1>1, <1>2, <1>3

(* From the start to the store of the new pid.                              *)
LEMMA StartKeeps ==
  ASSUME IInv, Start \/ Clear \/ Unflag \/ Fork \/ Store
  PROVE  IInv'
<1>1. CASE Start
  <2>1. CASE mplayer_pid # Nobody
    BY <1>1, <2>1, ForceKillKeeps DEF Start
  <2>2. CASE mplayer_pid = Nobody
    <3>1. Running' = Running /\ Running = {}
      BY <1>1, <2>2, PidsAssumption DEF Start, kernel, IInv, Tracked, Running
    <3> QED BY <1>1, <2>2, <3>1
          DEF Start, kernel, globals, history, IInv, TypeOK, Tracked, Signalled
  <2> QED BY <2>1, <2>2
<1>2. CASE Clear
  <2>1. Running' = Running
    BY <1>2 DEF Clear, kernel, Running
  <2> QED BY <1>2, <2>1 DEF Clear, Thread, kernel, history, IInv, TypeOK, Tracked, Signalled, Pids
<1>3. CASE Unflag
  <2>1. Running' = Running
    BY <1>3 DEF Unflag, kernel, Running
  <2> QED BY <1>3, <2>1 DEF Unflag, Thread, kernel, history, IInv, TypeOK, Tracked, Signalled
<1>4. CASE Fork
  <2>1. Running = {} /\ ~sigchld /\ handler = Off
    BY <1>4 DEF Fork, Thread, IInv, Tracked
  <2>2. /\ proc' \in [Players -> {"none", "running", "hit", "zombie", "gone"}]
        /\ Running' \subseteq {local'} /\ local' # Nobody /\ local' \in Pids
    BY <1>4, <2>1, PidsAssumption DEF Fork, IInv, TypeOK, Running, Pids
  <2> QED BY <1>4, <2>1, <2>2 DEF Fork, Thread, globals, history, IInv, TypeOK, Tracked, Signalled
<1>5. CASE Store
  <2>1. Running' = Running
    BY <1>5 DEF Store, kernel, Running
  <2> QED BY <1>5, <2>1 DEF Store, Thread, kernel, history, IInv, TypeOK, Tracked, Signalled, Pids
<1> QED BY <1>1, <1>2, <1>3, <1>4, <1>5

(* The invariant holds throughout.                                          *)
LEMMA Invariance == Spec => []IInv
<1>1. IInv /\ [Next]_vars => IInv'
  <2> SUFFICES ASSUME IInv, [Next]_vars PROVE IInv'
    OBVIOUS
  <2>1. CASE Next
    BY <2>1, ExitKeeps, HandlerKeeps, StatusKeeps, KillKeeps, StartKeeps DEF Next, Busy
  <2>2. CASE UNCHANGED vars
    <3>1. Running' = Running
      BY <2>2 DEF vars, kernel, Running
    <3> QED BY <2>2, <3>1
          DEF vars, kernel, globals, history, IInv, TypeOK, Tracked, Signalled
  <2> QED BY <2>1, <2>2
<1> QED BY <1>1, InitIInv, PTL DEF Spec

-----------------------------------------------------------------------------
(* Who is to be collected, and what the kill flag stands for: there is one  *)
(* process that has ended and was not waited for, at most, and a signal or  *)
(* the handler is there for it; once the flag is reset, the processes that  *)
(* a command has killed are gone and forgotten.                             *)
Zombie(p) == p \in Players /\ proc[p] = "zombie"

Awaitable ==
  /\ \A p, q \in Players : Zombie(p) /\ Zombie(q) => p = q
  /\ \A p \in Players : Zombie(p) =>
       /\ sigchld \/ handler # Off
       /\ handler # Off => handler \in {p, Nobody, Everybody}
       /\ handler = Off => mplayer_pid \in {p, Nobody, Everybody}
       /\ pc = "store" => local = p
  /\ pc \in {"unflag", "fork", "store"} => mplayer_pid = Nobody

Flagged ==
  /\ \A p \in struck : 1 \notin reports[p] /\ proc[p] \in {"hit", "zombie", "gone"}
  /\ pc \in {"kill", "wait"} => mpserver_kill_flag = 1
  /\ mpserver_kill_flag = 0 =>
       \A p \in struck : /\ proc[p] = "gone" /\ mplayer_pid # p /\ handler # p
                         /\ pc = "store" => local # p

(* Only what is gone was reported, and what the server knows was started.   *)
Reported ==
  \A p \in Players :
    /\ 1 \in reports[p] => proc[p] = "gone"
    /\ mplayer_pid = p \/ handler = p \/ (pc = "store" /\ local = p) => proc[p] # "none"

KInv == Awaitable /\ Flagged /\ Reported

LEMMA InitKInv == Init => KInv
BY PidsAssumption DEF Init, KInv, Awaitable, Flagged, Reported, Zombie, Pids

LEMMA ExitKeepsK ==
  ASSUME IInv, KInv, Exit
  PROVE  KInv'
<1>1. PICK p \in Running : /\ proc' = [proc EXCEPT ![p] = "zombie"]
                           /\ sigchld' = TRUE
                           /\ UNCHANGED <<globals, handler, pc, then, local, history>>
  BY DEF Exit
<1>2. /\ UNCHANGED <<mplayer_pid, mpserver_kill_flag, handler, pc, then, local, reports, struck>>
      /\ p \in Players
  BY <1>1 DEF globals, history, Running
<1>3. handler = Off /\ ~sigchld
  BY <1>1 DEF IInv, Signalled
<1>4. \A q \in Players : ~Zombie(q)
  BY <1>3 DEF KInv, Awaitable
<1>5. /\ pc = "store" => local = p
      /\ pc # "store" => mplayer_pid = p
  BY <1>1 DEF IInv, Tracked, TypeOK
<1>6. \A q \in Players : Zombie(q)' => q = p
  BY <1>1, <1>2, <1>4 DEF Zombie, IInv, TypeOK
<1>7. Awaitable'
  BY <1>1, <1>2, <1>3, <1>5, <1>6 DEF KInv, Awaitable
<1>8. \A q \in Players : proc'[q] = IF q = p THEN "zombie" ELSE proc[q]
  BY <1>1, <1>2 DEF IInv, TypeOK
<1>9. proc[p] # "gone" /\ struck \subseteq Players
  BY <1>1 DEF Running, IInv, TypeOK
<1>10. Flagged'
  BY <1>2, <1>8, <1>9 DEF KInv, Flagged
<1>11. Reported'
  BY <1>2, <1>8, <1>9 DEF KInv, Reported
<1> QED BY <1>7, <1>10, <1>11 DEF KInv

LEMMA HandlerKeepsK ==
  ASSUME IInv, KInv, Handler
  PROVE  KInv'
<1>1. CASE HandlerEnter
  <2>1. /\ handler = Off /\ handler' = mplayer_pid /\ sigchld
        /\ UNCHANGED <<proc, mplayer_pid, mpserver_kill_flag, pc, then, local, reports, struck>>
    BY <1>1 DEF HandlerEnter, globals, history
  <2>2. mplayer_pid # Off
    BY PidsAssumption DEF IInv, TypeOK
  <2>3. Awaitable'
    BY <2>1, <2>2 DEF KInv, Awaitable, Zombie
  <2>4. Flagged'
    BY <2>1 DEF KInv, Flagged
  <2>5. Reported'
    BY <2>1 DEF KInv, Reported
  <2> QED BY <2>3, <2>4, <2>5 DEF KInv
<1>2. CASE HandlerReturn
  <2> DEFINE n == IF mpserver_kill_flag = 1 THEN 2 ELSE 1
  <2>1. \/ \E p \in Awaited(handler) :
               /\ proc[p] = "zombie"
               /\ proc' = [proc EXCEPT ![p] = "gone"]
               /\ Report(p, n)
        \/ Awaited(handler) = {} /\ UNCHANGED proc /\ Report(handler, n)
    BY <1>2 DEF HandlerReturn
  <2>2. /\ mplayer_pid' = Nobody /\ handler' = Off /\ handler # Off
        /\ UNCHANGED <<sigchld, mpserver_kill_flag, pc, then, local, struck>>
    BY <1>2 DEF HandlerReturn
  <2>3. /\ \A q \in Players : proc'[q] \in {proc[q], "gone"}
        /\ \A q \in Players : ~Zombie(q)'
    <3>1. CASE \E p \in Awaited(handler) :
                 proc[p] = "zombie" /\ proc' = [proc EXCEPT ![p] = "gone"]
      BY <3>1 DEF KInv, Awaitable, Zombie, Awaited, Children, IInv, TypeOK
    <3>2. CASE Awaited(handler) = {} /\ UNCHANGED proc
      <4>1. \A q \in Players : Zombie(q) => q \in Awaited(handler)
        BY <2>2, PidsAssumption DEF KInv, Awaitable, Zombie, Awaited, Children
      <4> QED BY <3>2, <4>1 DEF Zombie
    <3> QED BY <2>1, <3>1, <3>2
  <2>4. Awaitable'
    BY <2>2, <2>3 DEF Awaitable
  <2>5. \A p \in struck : 1 \notin reports'[p]
    <3>1. CASE mpserver_kill_flag = 1
      BY <2>1, <3>1 DEF Report, KInv, Flagged, IInv, TypeOK
    <3>2. CASE mpserver_kill_flag = 0
      BY <2>1, <3>2 DEF Report, KInv, Flagged, IInv, TypeOK
    <3> QED BY <3>1, <3>2 DEF IInv, TypeOK
  <2>6. Flagged'
    <3>1. /\ \A p \in struck' : 1 \notin reports'[p] /\ proc'[p] \in {"hit", "zombie", "gone"}
          /\ pc' \in {"kill", "wait"} => mpserver_kill_flag' = 1
      BY <2>2, <2>3, <2>5 DEF KInv, Flagged, IInv, TypeOK
    <3>2. \A p \in struck : p # Nobody /\ p # Off /\ p \in Players
      BY PidsAssumption DEF IInv, TypeOK, Pids
    <3>3. ASSUME mpserver_kill_flag' = 0, NEW p \in struck'
          PROVE  /\ proc'[p] = "gone" /\ mplayer_pid' # p /\ handler' # p
                 /\ pc' = "store" => local' # p
      BY <2>2, <2>3, <3>2, <3>3 DEF KInv, Flagged
    <3> QED BY <3>1, <3>3 DEF Flagged
  <2>7. Reported'
    <3>1. \A p \in Players : 1 \in reports'[p] => 1 \in reports[p] \/ proc'[p] = "gone"
      <4>1. CASE Awaited(handler) = {} /\ UNCHANGED proc /\ Report(handler, n)
        <5>1. \A p \in Players : handler = p => proc[p] = "gone"
          BY <4>1 DEF Awaited, Children, KInv, Reported, IInv, TypeOK
        <5> QED BY <4>1, <5>1 DEF Report, IInv, TypeOK
      <4>2. CASE \E p \in Awaited(handler) :
                   proc' = [proc EXCEPT ![p] = "gone"] /\ Report(p, n)
        BY <4>2 DEF Report, IInv, TypeOK
      <4> QED BY <2>1, <4>1, <4>2
    <3>2. \A p \in Players : p # Nobody /\ p # Off
      BY PidsAssumption DEF Pids
    <3> QED BY <2>2, <2>3, <3>1, <3>2 DEF KInv, Reported
  <2> QED BY <2>4, <2>6, <2>7 DEF KInv
<1> QED BY <1>1, <1>2 DEF Handler

LEMMA StatusKeepsK ==
  ASSUME IInv, KInv, Status \/ StatusWait \/ StatusAnswer
  PROVE  KInv'
<1>1. CASE Status
  BY <1>1 DEF Status, Thread, kernel, globals, history, KInv, Awaitable, Flagged, Reported, Zombie
<1>2. CASE StatusWait
  <2>1. /\ handler = Off /\ pc = "status" /\ pc' = "answer"
        /\ UNCHANGED <<sigchld, mplayer_pid, mpserver_kill_flag, handler, reports, struck>>
    BY <1>2 DEF StatusWait, Thread, globals, history
  <2>2. /\ \A q \in Players : Zombie(q)' => Zombie(q)
        /\ \A q \in Players : proc'[q] = proc[q] \/ proc'[q] = "gone"
    BY <1>2 DEF StatusWait, Zombie, Awaited, Children, IInv, TypeOK
  <2>3. Awaitable'
    BY <2>1, <2>2 DEF KInv, Awaitable
  <2>4. Flagged'
    BY <2>1, <2>2 DEF KInv, Flagged, IInv, TypeOK
  <2>5. Reported'
    BY <2>1, <2>2 DEF KInv, Reported
  <2> QED BY <2>3, <2>4, <2>5 DEF KInv
<1>3. CASE StatusAnswer
  <2>1. /\ UNCHANGED <<proc, sigchld, mplayer_pid, mpserver_kill_flag, handler, struck>>
        /\ pc' = "idle"
    BY <1>3 DEF StatusAnswer, Thread, kernel, globals
  <2>2. \A p \in Players : 1 \in reports'[p] => 1 \in reports[p]
    BY <1>3 DEF StatusAnswer, Report, IInv, TypeOK
  <2>3. Awaitable'
    BY <2>1 DEF KInv, Awaitable, Zombie
  <2>4. Flagged'
    BY <2>1, <2>2 DEF KInv, Flagged, IInv, TypeOK
  <2>5. Reported'
    BY <2>1, <2>2 DEF KInv, Reported
  <2> QED BY <2>3, <2>4, <2>5 DEF KInv
<1> QED BY <1>1, <1>2, <1>3

LEMMA ForceKillKeepsK ==
  ASSUME IInv, KInv, NEW after \in {"idle", "clear"}, ForceKill(after), pc = "idle"
  PROVE  KInv'
<1>1. /\ UNCHANGED <<proc, sigchld, mplayer_pid, handler, local, reports, struck>>
      /\ mpserver_kill_flag' = 1 /\ pc' \in {"idle", "clear", "kill"}
  BY DEF ForceKill, kernel, history
<1>2. Awaitable'
  BY <1>1 DEF KInv, Awaitable, Zombie
<1>3. Flagged'
  BY <1>1 DEF KInv, Flagged
<1>4. Reported'
  BY <1>1 DEF KInv, Reported
<1> QED BY <1>2, <1>3, <1>4 DEF KInv

LEMMA KillKeepsK ==
  ASSUME IInv, KInv, Kill \/ Sigkill \/ Wait
  PROVE  KInv'
<1>1. CASE Kill
  BY <1>1, ForceKillKeepsK DEF Kill
<1>2. CASE Sigkill
  <2> DEFINE hit == {p \in Running : mplayer_pid \in {p, Everybody}}
  <2>1. /\ proc' = [p \in Players |-> IF p \in hit THEN "hit" ELSE proc[p]]
        /\ struck' = struck \cup hit /\ hit \subseteq Players
        /\ pc = "kill" /\ pc' = "wait"
        /\ UNCHANGED <<sigchld, mplayer_pid, mpserver_kill_flag, handler, local, reports>>
    BY <1>2 DEF Sigkill, Thread, globals, Running
  <2>2. \A q \in Players : Zombie(q)' <=> Zombie(q)
    BY <2>1 DEF Zombie, Running
  <2>3. Awaitable'
    BY <2>1, <2>2 DEF KInv, Awaitable
  <2>4. \A p \in hit : 1 \notin reports[p]
    BY DEF Running, KInv, Reported
  <2>5. Flagged'
    BY <2>1, <2>4 DEF KInv, Flagged, IInv, TypeOK
  <2>6. \A q \in Players : proc'[q] = proc[q] \/ (proc[q] # "gone" /\ proc'[q] = "hit")
    BY <2>1 DEF Running
  <2>7. Reported'
    BY <2>1, <2>6 DEF KInv, Reported
  <2> QED BY <2>3, <2>5, <2>7 DEF KInv
<1>3. CASE Wait
  <2>1. /\ UNCHANGED <<proc, sigchld, mplayer_pid, mpserver_kill_flag, handler, local, reports, struck>>
        /\ pc' \in {"idle", "clear"}
    BY <1>3 DEF Wait, Thread, kernel, globals, history, IInv, TypeOK
  <2>2. Awaitable'
    BY <2>1 DEF KInv, Awaitable, Zombie
  <2>3. Flagged'
    BY <2>1 DEF KInv, Flagged
  <2>4. Reported'
    BY <2>1 DEF KInv, Reported
  <2> QED BY <2>2, <2>3, <2>4 DEF KInv
<1> QED BY <1>1, <1>2, <1>3

LEMMA StartKeepsK ==
  ASSUME IInv, KInv, Start \/ Clear \/ Unflag \/ Fork \/ Store
  PROVE  KInv'
<1>1. CASE Start
  <2>1. CASE mplayer_pid # Nobody
    BY <1>1, <2>1, ForceKillKeepsK DEF Start
  <2>2. CASE mplayer_pid = Nobody
    BY <1>1, <2>2
      DEF Start, kernel, globals, history, KInv, Awaitable, Flagged, Reported, Zombie
  <2> QED BY <2>1, <2>2
<1>2. CASE Clear
  <2>1. /\ UNCHANGED <<proc, sigchld, mpserver_kill_flag, handler, local, reports, struck>>
        /\ pc' = "unflag" /\ mplayer_pid' = Nobody
    BY <1>2 DEF Clear, Thread, kernel, history
  <2>2. \A p \in struck : p # Nobody
    BY PidsAssumption DEF IInv, TypeOK
  <2>3. Awaitable'
    BY <2>1 DEF KInv, Awaitable, Zombie
  <2>4. Flagged'
    BY <2>1, <2>2 DEF KInv, Flagged
  <2>5. Reported'
    BY <2>1, PidsAssumption DEF KInv, Reported
  <2> QED BY <2>3, <2>4, <2>5 DEF KInv
<1>3. CASE Unflag
  <2>1. /\ UNCHANGED <<proc, sigchld, mplayer_pid, handler, local, reports, struck>>
        /\ pc = "unflag" /\ pc' = "fork" /\ mpserver_kill_flag' = 0
    BY <1>3 DEF Unflag, Thread, kernel, history
  <2>2. Running = {} /\ ~sigchld /\ handler = Off
    BY <2>1 DEF IInv, Tracked
  <2>3. \A p \in struck : proc[p] = "gone"
    BY <2>2 DEF KInv, Flagged, Awaitable, Zombie, Running, IInv, TypeOK
  <2>4. Awaitable'
    BY <2>1 DEF KInv, Awaitable, Zombie
  <2>5. \A p \in struck : p # Nobody /\ p # Off
    BY PidsAssumption DEF IInv, TypeOK, Pids
  <2>6. mplayer_pid = Nobody
    BY <2>1 DEF KInv, Awaitable
  <2>7. Flagged'
    BY <2>1, <2>2, <2>3, <2>5, <2>6 DEF KInv, Flagged
  <2>8. Reported'
    BY <2>1 DEF KInv, Reported
  <2> QED BY <2>4, <2>7, <2>8 DEF KInv
<1>4. CASE Fork
  <2>1. /\ pc = "fork" /\ pc' = "store"
        /\ UNCHANGED <<sigchld, mplayer_pid, mpserver_kill_flag, handler, reports, struck>>
    BY <1>4 DEF Fork, Thread, globals, history
  <2>2. Running = {} /\ ~sigchld /\ handler = Off
    BY <2>1 DEF IInv, Tracked
  <2>3. \A q \in Players : ~Zombie(q)
    BY <2>2 DEF KInv, Awaitable
  <2>4. /\ \A q \in Players : ~Zombie(q)'
        /\ \A q \in struck : proc'[q] = proc[q] /\ local' # q
        /\ \A q \in Players : proc'[q] = proc[q] \/ (proc[q] = "none" /\ proc'[q] = "running")
        /\ \A q \in Players : local' = q => proc'[q] = "running"
    <3>1. ASSUME NEW p \in Players, proc[p] = "none",
                 proc' = [proc EXCEPT ![p] = "running"], local' = p
          PROVE  /\ \A q \in Players : ~Zombie(q)'
                 /\ \A q \in struck : proc'[q] = proc[q] /\ local' # q
                 /\ \A q \in Players : proc'[q] = proc[q] \/ (proc[q] = "none" /\ proc'[q] = "running")
                 /\ \A q \in Players : local' = q => proc'[q] = "running"
      BY <2>3, <3>1 DEF Zombie, KInv, Flagged, IInv, TypeOK
    <3>2. CASE local' = Everybody /\ UNCHANGED proc
      BY <2>3, <3>2, PidsAssumption DEF Zombie, IInv, TypeOK
    <3> QED BY <1>4, <3>1, <3>2 DEF Fork
  <2>5. Awaitable'
    BY <2>1, <2>4 DEF KInv, Awaitable
  <2>6. Flagged'
    BY <2>1, <2>4 DEF KInv, Flagged
  <2>7. Reported'
    BY <2>1, <2>4 DEF KInv, Reported
  <2> QED BY <2>5, <2>6, <2>7 DEF KInv
<1>5. CASE Store
  <2>1. /\ UNCHANGED <<proc, sigchld, mpserver_kill_flag, handler, reports, struck>>
        /\ pc = "store" /\ pc' = "idle" /\ mplayer_pid' = local
    BY <1>5 DEF Store, Thread, kernel, history
  <2>2. Awaitable'
    BY <2>1 DEF KInv, Awaitable, Zombie
  <2>3. Flagged'
    BY <2>1 DEF KInv, Flagged
  <2>4. Reported'
    BY <2>1 DEF KInv, Reported
  <2> QED BY <2>2, <2>3, <2>4 DEF KInv
<1> QED BY <1>1, <1>2, <1>3, <1>4, <1>5

LEMMA KInvariance == Spec => []KInv
<1>1. IInv /\ KInv /\ [Next]_vars => KInv'
  <2> SUFFICES ASSUME IInv, KInv, [Next]_vars PROVE KInv'
    OBVIOUS
  <2>1. CASE Next
    BY <2>1, ExitKeepsK, HandlerKeepsK, StatusKeepsK, KillKeepsK, StartKeepsK DEF Next, Busy
  <2>2. CASE UNCHANGED vars
    BY <2>2 DEF vars, kernel, globals, history, KInv, Awaitable, Flagged, Reported, Zombie
  <2> QED BY <2>1, <2>2
<1> QED BY <1>1, InitKInv, Invariance, PTL DEF Spec

-----------------------------------------------------------------------------
(* The server's globals, the processes and the reports keep their types.    *)
THEOREM TypeCorrect == Spec => []TypeOK
BY Invariance, PTL DEF IInv

(* However many starts, kills and ends of players: two never run at once.   *)
THEOREM NeverTwoPlayers == Spec => []OnePlayer
<1>1. IInv => OnePlayer
  <2> SUFFICES ASSUME IInv PROVE Cardinality(Running) <= 1
    BY DEF OnePlayer
  <2>1. PICK p : Running \subseteq {p}
    BY DEF IInv, TypeOK, Tracked
  <2>2. IsFiniteSet({p}) /\ Cardinality({p}) = 1
    BY FS_Singleton
  <2> QED BY <2>1, <2>2, FS_Subset
<1> QED BY <1>1, Invariance, PTL

(* Between commands the running player is the one the server knows.         *)
THEOREM PlayerIsKnown == Spec => []KnowsPlayer
<1>1. IInv => KnowsPlayer
  BY DEF IInv, Tracked, KnowsPlayer
<1> QED BY <1>1, Invariance, PTL

(* The handler's waitpid never waits for a player that still runs.          *)
THEOREM HandlerReturns == Spec => []HandlerNeverWaits
<1>1. IInv => HandlerNeverWaits
  BY DEF IInv, Signalled, HandlerNeverWaits, Awaited, Children, Running
<1> QED BY <1>1, Invariance, PTL

(* A player that a command has killed is not reported as one that ended by  *)
(* itself, whichever of the signal, the status command and the next start   *)
(* comes first.                                                             *)
THEOREM KilledNotOwnEnd == Spec => []KillNotOwnEnd
<1>1. KInv => KillNotOwnEnd
  BY DEF KInv, Flagged, KillNotOwnEnd
<1> QED BY <1>1, KInvariance, PTL
=============================================================================

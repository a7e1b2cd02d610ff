------------------------------ MODULE MpServer ------------------------------
(***************************************************************************)
(* The player server of mpserver.c: one thread that takes the commands of  *)
(* a client, starts a player with fork, kills it and asks after it, and a  *)
(* SIGCHLD handler that interrupts the thread between any two steps.       *)
(* The kernel's part (fork, exit, kill, waitpid) is written out beside it. *)
(***************************************************************************)
EXTENDS Integers, FiniteSets

CONSTANTS
  Players,     \* the processes that fork can make; a pid is not used again
  Nobody,      \* pid 0: no player; for waitpid, any child of the group
  Everybody,   \* pid -1: fork failed; for waitpid any child, for kill any process
  Off          \* the handler is not running

Pids == Players \cup {Nobody, Everybody}

ASSUME PidsAssumption == /\ Nobody \notin Players /\ Everybody \notin Players
                         /\ Nobody # Everybody /\ Off \notin Pids

VARIABLES
  proc,          \* a process: none yet, running, "hit" by SIGKILL, zombie or gone
  sigchld,       \* a SIGCHLD is pending
  mplayer_pid, mpserver_kill_flag,
  handler,       \* the pid that the handler waits for, or Off
  pc,            \* where the server's thread is
  then,          \* where it goes after mpserver_force_kill_child
  local,         \* what it holds: a pid it has read, wait_ret or new_pid
  reports,       \* the "status: error: n" sent about a process
  struck         \* the processes that were running when SIGKILL was sent to them

kernel == <<proc, sigchld>>
globals == <<mplayer_pid, mpserver_kill_flag>>
history == <<reports, struck>>
vars == <<kernel, globals, handler, pc, then, local, history>>

Init ==
  /\ proc = [p \in Players |-> "none"] /\ sigchld = FALSE
  /\ mplayer_pid = Nobody /\ mpserver_kill_flag = 0
  /\ handler = Off /\ pc = "idle" /\ then = "idle" /\ local = Nobody
  /\ reports = [p \in Players |-> {}] /\ struck = {}

Running == {p \in Players : proc[p] \in {"running", "hit"}}
Children == {p \in Players : proc[p] \in {"running", "hit", "zombie"}}

(* The children that waitpid(pid) may return, and the effect of a report.   *)
Awaited(pid) == IF pid \in Players THEN {pid} \cap Children ELSE Children

Report(p, n) == reports' = IF p \in Players THEN [reports EXCEPT ![p] = @ \cup {n}]
                                            ELSE reports

-----------------------------------------------------------------------------
(* A player ends, by itself or by a signal.                                 *)
Exit ==
  \E p \in Running :
    /\ proc' = [proc EXCEPT ![p] = "zombie"]
    /\ sigchld' = TRUE
    /\ UNCHANGED <<globals, handler, pc, then, local, history>>

(* exit_sighandler is entered, and blocks in waitpid until a child it waits *)
(* for has ended or there is none; the thread stands still until it returns.*)
HandlerEnter ==
  /\ handler = Off /\ sigchld
  /\ sigchld' = FALSE
  /\ handler' = mplayer_pid
  /\ UNCHANGED <<proc, globals, pc, then, local, history>>

(* Mutant: no report once a command has set the flag.                       *)
HandlerReturnQuiet ==
  /\ handler # Off
  /\ \/ \E p \in Awaited(handler) :
          /\ proc[p] = "zombie"
          /\ proc' = [proc EXCEPT ![p] = "gone"]
          /\ IF mpserver_kill_flag = 1 THEN UNCHANGED reports ELSE Report(p, 1)
     \/ Awaited(handler) = {} /\ UNCHANGED <<proc, reports>>
  /\ mplayer_pid' = Nobody
  /\ handler' = Off
  /\ UNCHANGED <<sigchld, mpserver_kill_flag, pc, then, local, struck>>

HandlerReturn ==
  /\ handler # Off
  /\ LET n == IF mpserver_kill_flag = 1 THEN 2 ELSE 1
     IN  \/ \E p \in Awaited(handler) :
              /\ proc[p] = "zombie"
              /\ proc' = [proc EXCEPT ![p] = "gone"]
              /\ Report(p, n)
         \/ Awaited(handler) = {} /\ UNCHANGED proc /\ Report(handler, n)
  /\ mplayer_pid' = Nobody
  /\ handler' = Off
  /\ UNCHANGED <<sigchld, mpserver_kill_flag, pc, then, local, struck>>

-----------------------------------------------------------------------------
(* A step of the thread, from one place to another.                         *)
Thread(from, to) == handler = Off /\ pc = from /\ pc' = to

(* Command 3, get child status: the pid is read,                            *)
Status ==
  /\ Thread("idle", IF mplayer_pid = Nobody THEN "idle" ELSE "status")
  /\ local' = mplayer_pid
  /\ UNCHANGED <<kernel, globals, handler, then, history>>

(* waited for with WNOHANG: a child, 0 (Nobody) or -1 (Everybody),          *)
StatusWait ==
  /\ Thread("status", "answer")
  /\ \/ \E p \in Awaited(local) :
          /\ proc[p] = "zombie"
          /\ proc' = [proc EXCEPT ![p] = "gone"]
          /\ local' = p
     \/ /\ \A p \in Awaited(local) : proc[p] # "zombie"
        /\ local' = IF Awaited(local) = {} THEN Everybody ELSE Nobody
        /\ UNCHANGED proc
  /\ UNCHANGED <<sigchld, globals, handler, then, history>>

(* Mutant: the player is forgotten whatever waitpid said.                   *)
StatusAnswerForget ==
  /\ Thread("answer", "idle")
  /\ local' = Nobody /\ mplayer_pid' = Nobody
  /\ Report(local, 2)
  /\ UNCHANGED <<kernel, mpserver_kill_flag, handler, then, struck>>

(* and reported if it is still the player.                                  *)
StatusAnswer ==
  /\ Thread("answer", "idle")
  /\ local' = Nobody
  /\ IF local = mplayer_pid THEN Report(local, 2) ELSE UNCHANGED reports
  /\ UNCHANGED <<kernel, globals, handler, then, struck>>

(* Mutant: the flag is left as it is.                                       *)
ForceKillNoFlag(after) ==
  /\ then' = IF mplayer_pid = Nobody THEN "idle" ELSE after
  /\ pc' = IF mplayer_pid = Nobody THEN after ELSE "kill"
  /\ UNCHANGED <<kernel, mplayer_pid, mpserver_kill_flag, handler, local, history>>

(* Mutant: the flag counts the kills.                                       *)
ForceKillCount(after) ==
  /\ mpserver_kill_flag' = mpserver_kill_flag + 1
  /\ then' = IF mplayer_pid = Nobody THEN "idle" ELSE after
  /\ pc' = IF mplayer_pid = Nobody THEN after ELSE "kill"
  /\ UNCHANGED <<kernel, mplayer_pid, handler, local, history>>

(* mpserver_force_kill_child up to the signals: two SIGQUITs, which the     *)
(* player may obey (Exit), before the SIGKILL.                              *)
ForceKill(after) ==
  /\ mpserver_kill_flag' = 1
  /\ then' = IF mplayer_pid = Nobody THEN "idle" ELSE after
  /\ pc' = IF mplayer_pid = Nobody THEN after ELSE "kill"
  /\ UNCHANGED <<kernel, mplayer_pid, handler, local, history>>

(* Commands 4, kill child, and 5, rebuild cmd init.                         *)
Kill == handler = Off /\ pc = "idle" /\ ForceKill("idle")

Sigkill ==
  /\ Thread("kill", "wait")
  /\ LET hit == {p \in Running : mplayer_pid \in {p, Everybody}}
     IN  /\ proc' = [p \in Players |-> IF p \in hit THEN "hit" ELSE proc[p]]
         /\ struck' = struck \cup hit
  /\ UNCHANGED <<sigchld, globals, handler, then, local, reports>>

(* Mutant: the player is not waited for.                                    *)
WaitNot ==
  /\ Thread("wait", then) /\ then' = "idle"
  /\ UNCHANGED <<kernel, globals, handler, local, history>>

(* Mutant: the player is killed again until it has gone.                    *)
WaitAgain ==
  /\ Thread("wait", IF mplayer_pid = Nobody THEN then ELSE "kill")
  /\ then' = IF mplayer_pid = Nobody THEN "idle" ELSE then
  /\ mplayer_pid # Nobody => ~sigchld /\ \A p \in Players : proc[p] # "hit"
  /\ UNCHANGED <<kernel, globals, handler, local, history>>

(* The wait for the handler to have reset mplayer_pid, and its end after a  *)
(* second: only where there is no player to end and no signal to come.      *)
Wait ==
  /\ Thread("wait", then) /\ then' = "idle"
  /\ mplayer_pid # Nobody => ~sigchld /\ \A p \in Players : proc[p] # "hit"
  /\ UNCHANGED <<kernel, globals, handler, local, history>>

(* Mutant: the player before is left to run.                                *)
StartBeside ==
  /\ Thread("idle", "clear")
  /\ UNCHANGED <<kernel, globals, handler, then, local, history>>

(* Command 7, run new command, kills the player before,                     *)
Start ==
  /\ handler = Off /\ pc = "idle"
  /\ IF mplayer_pid # Nobody
       THEN ForceKill("clear")
       ELSE /\ pc' = "clear"
            /\ UNCHANGED <<kernel, globals, handler, then, local, history>>

(* forgets it,                                                              *)
Clear ==
  /\ Thread("clear", "unflag")
  /\ mplayer_pid' = Nobody
  /\ UNCHANGED <<kernel, mpserver_kill_flag, handler, then, local, history>>

(* forgets that it was killed,                                              *)
Unflag ==
  /\ Thread("unflag", "fork")
  /\ mpserver_kill_flag' = 0
  /\ UNCHANGED <<kernel, mplayer_pid, handler, then, local, history>>

(* makes a process, unless there is none left (the bound) or fork fails,    *)
Fork ==
  /\ Thread("fork", "store")
  /\ \/ \E p \in Players : /\ proc[p] = "none"
                           /\ proc' = [proc EXCEPT ![p] = "running"]
                           /\ local' = p
     \/ local' = Everybody /\ UNCHANGED proc
  /\ UNCHANGED <<sigchld, globals, handler, then, history>>

(* and stores its pid.                                                      *)
Store ==
  /\ Thread("store", "idle")
  /\ mplayer_pid' = local /\ local' = Nobody
  /\ UNCHANGED <<kernel, mpserver_kill_flag, handler, then, history>>

Handler == HandlerEnter \/ HandlerReturn
Busy == StatusWait \/ StatusAnswer \/ Sigkill \/ Wait \/ Clear \/ Unflag \/ Fork \/ Store
Next == Exit \/ Handler \/ Status \/ Kill \/ Start \/ Busy

(* A signal is delivered, a handler and a command run on, and a process     *)
(* that was sent SIGKILL ends.                                              *)
HitEnds == \E p \in Players : proc[p] = "hit" /\ Exit /\ proc'[p] = "zombie"
Fairness == WF_vars(Handler) /\ WF_vars(Busy) /\ WF_vars(HitEnds)

Spec == Init /\ [][Next]_vars /\ Fairness

-----------------------------------------------------------------------------
(* The types of the server's globals and of what the kernel keeps for it.   *)
TypeOK ==
  /\ proc \in [Players -> {"none", "running", "hit", "zombie", "gone"}]
  /\ sigchld \in BOOLEAN
  /\ mplayer_pid \in Pids /\ mpserver_kill_flag \in {0, 1}
  /\ handler \in Pids \cup {Off}
  /\ pc \in {"idle", "status", "answer", "kill", "wait", "clear", "unflag", "fork", "store"}
  /\ then \in {"idle", "clear"} /\ local \in Pids
  /\ reports \in [Players -> SUBSET {1, 2}] /\ struck \subseteq Players

(* "try to force kill child before next play": two players never run at     *)
(* once, so they do not fight over the decoder.                             *)
OnePlayer == Cardinality(Running) <= 1

(* Between commands the server knows the player that runs, so a kill        *)
(* command reaches it.                                                      *)
KnowsPlayer == pc = "idle" => Running \subseteq {mplayer_pid}

(* The handler's waitpid without WNOHANG finds a child that has ended or no *)
(* child: a server that answers no command while a movie plays is excluded. *)
HandlerNeverWaits ==
  handler # Off => Awaited(handler) = {} \/ \E p \in Awaited(handler) : proc[p] = "zombie"

(* "killed by command 4" or "exit by itself": a player that a command has   *)
(* killed is not reported as one that ended by itself.                      *)
KillNotOwnEnd == \A p \in struck : 1 \notin reports[p]

(* Every player's end is reported, whoever collects it: the handler or a    *)
(* status command that comes before it.                                     *)
EndReported == \A p \in Players : proc[p] = "zombie" ~> reports[p] # {}

(* Each command comes to its end: killing and waiting do not hang.          *)
CommandEnds == pc # "idle" ~> pc = "idle"
=============================================================================

------------------------------ MODULE PoolMode ------------------------------
(***************************************************************************)
(* The worker: run_pool_mode (src/src/runtime/pool_solver.cpp) with the    *)
(* checkpoint of its assignment, the backends it drives, and what starts   *)
(* it again: the script src/worker/starminer-worker.py, or the menu of     *)
(* main.cpp, which runs one session after the other in one process.        *)
(*                                                                         *)
(*   backend     which backend the build has, "metal" or another: CPU's    *)
(*               and CUDA's behave alike; driver: "script" or "menu"       *)
(*   issued, solved   per pool: assignments handed out, the puzzle's state *)
(*   file        the checkpoint: the assignment it is of ({} before the    *)
(*               first) and whether it is written as far as its ranges     *)
(*   pc          per process: where run_pool_mode is; "menu" between two   *)
(*               sessions; "done" and "failed" after exit with 0 or not    *)
(*   at          the pool the worker is configured for                     *)
(*   work        `work', the assignment that is searched ({}: none yet)    *)
(*   held        PoolManager::current_work_ while has_work_                *)
(*   answer      what get_work returned in this session                    *)
(*   conn, told  the manager's connection; solution_found() of the client  *)
(*               it has now                                                *)
(*   shut        g_shutdown                                                *)
(*   script, child, asked   where main of the script is, its Popen, and    *)
(*               whether the user has interrupted it                       *)
(*                                                                         *)
(* The supervisor of the connection and the walk of the solver are         *)
(* PoolManager's and Kangaroo's subject; display and telemetry are left    *)
(* out.  A file more than 24 hours old is one of LoadCheckpoint's outcomes.*)
(***************************************************************************)
EXTENDS Naturals

CONSTANTS
  Pools,     \* pools (or databases of one pool) the worker meets
  Procs,     \* slots for processes
  Home,      \* the pool the worker is first configured for
  First,     \* the slot of the menu's process
  MaxWork    \* bound: assignments each pool hands out

ASSUME PoolModeAssumption ==
  First \in Procs /\ Home \in Pools /\ MaxWork \in [Pools -> Nat]

VARIABLES backend, driver, issued, solved, file, pc, at, work, held, answer, conn,
          told, shut, script, child, asked

choices == <<backend, driver>>
pools   == <<issued, solved>>
locals  == <<work, answer, told, shut>>
rest    == <<held, conn>>
wrapper == <<at, script, child, asked>>
vars    == <<choices, pools, file, pc, locals, rest, wrapper>>

Work     == [pool : Pools, id : Nat]
Given    == UNION {{[pool |-> q, id |-> i] : i \in 1..issued[q]} : q \in Pools}
Busy     == {"dial", "load", "ask", "init", "solve", "save", "leave"}
Alive(p) == pc[p] \in Busy

Goes(p, to) == pc' = [pc EXCEPT ![p] = to]

Forgets(p) ==
  /\ work' = [work EXCEPT ![p] = {}] /\ answer' = [answer EXCEPT ![p] = {}]
  /\ told' = [told EXCEPT ![p] = FALSE] /\ shut' = [shut EXCEPT ![p] = FALSE]

(* run_pool_mode returns in a process of the menu, whose PoolManager goes on *)
(* holding its assignment, and its connection (left) if nobody has ended it; *)
(* or the process ends.                                                      *)
Returns(p, code, left) ==
  /\ Forgets(p)
  /\ \/ driver = "menu" /\ Goes(p, "menu") /\ UNCHANGED held
        /\ conn' = [conn EXCEPT ![p] = left]
     \/ driver # "menu" /\ Goes(p, code) /\ held' = [held EXCEPT ![p] = {}]
        /\ conn' = [conn EXCEPT ![p] = "off"]

-----------------------------------------------------------------------------
(* The checkpoint.                                                           *)

(* Every cut that loses part of a range is seen by the sizes of the fields;  *)
(* unseen, it would leave the number with ranges of zeros.                   *)
Loadable_Any == IF file.whole THEN file.of ELSE {[w EXCEPT !.id = 0] : w \in file.of}
Loadable == IF file.whole THEN file.of ELSE {}

LoadCheckpoint(p) ==
  /\ pc[p] = "load"
  /\ \E found \in {Loadable, {}} : work' = [work EXCEPT ![p] = found]
  /\ Goes(p, "ask")
  /\ UNCHANGED <<choices, pools, file, answer, told, shut, rest, wrapper>>

(* on_progress, after its look at g_shutdown: the file is truncated, then    *)
(* written from the start.                                                   *)
StartSave(p) ==
  /\ pc[p] = "solve" /\ ~shut[p]
  /\ file' = [of |-> work[p], whole |-> FALSE]
  /\ Goes(p, "save")
  /\ UNCHANGED <<choices, pools, locals, rest, wrapper>>

EndSave(p) ==
  /\ pc[p] = "save"
  /\ file' = [of |-> work[p], whole |-> TRUE]
  /\ Goes(p, "solve")
  /\ UNCHANGED <<choices, pools, locals, rest, wrapper>>

-----------------------------------------------------------------------------
(* The session: connect, get_work, initialize, solve, disconnect.            *)

Dial(p) ==
  /\ pc[p] = "dial"
  /\ \/ Goes(p, "load") /\ conn' = [conn EXCEPT ![p] = "up"] /\ UNCHANGED <<held, locals>>
     \/ Returns(p, "failed", "off")
  /\ UNCHANGED <<choices, pools, file, wrapper>>

(* The assignment the session goes on with, when get_work has returned got:  *)
(* the checkpoint counts when its number is the same.                        *)
Numbers(ws) == {w.id : w \in ws}
Chosen_Saved(saved, got) == IF saved # {} THEN saved ELSE got
Chosen(saved, got) == IF Numbers(saved) = Numbers(got) THEN saved ELSE got

Answered(p, got) ==
  /\ answer' = [answer EXCEPT ![p] = got]
  /\ held' = [held EXCEPT ![p] = got]
  /\ work' = [work EXCEPT ![p] = Chosen(work[p], got)]
  /\ Goes(p, "init")

(* PoolManager::get_work asks only when it holds no assignment, and nothing  *)
(* ever takes the one it holds from it.                                      *)
GetHeld(p) ==
  /\ pc[p] = "ask" /\ conn[p] = "up" /\ held[p] # {}
  /\ Answered(p, held[p])
  /\ UNCHANGED <<choices, pools, file, conn, told, shut, wrapper>>

GetNew(p) ==
  /\ pc[p] = "ask" /\ conn[p] = "up" /\ held[p] = {}
  /\ ~solved[at] /\ issued[at] < MaxWork[at]
  /\ issued' = [issued EXCEPT ![at] = @ + 1]
  /\ Answered(p, {[pool |-> at, id |-> issued[at] + 1]})
  /\ UNCHANGED <<choices, solved, file, conn, told, shut, wrapper>>

(* No answer: the checkpoint is searched all the same.  A pool that is       *)
(* solved says so and closes.                                                *)
GetNothing(p) ==
  /\ pc[p] = "ask"
  /\ conn[p] = "up" => held[p] = {}
  /\ \/ work[p] = {} /\ Returns(p, "failed", conn[p])
     \/ work[p] # {} /\ Goes(p, "init") /\ UNCHANGED <<rest, locals>>
     \/ /\ work[p] # {} /\ Goes(p, "init")
        /\ conn[p] = "up" /\ solved[at]
        /\ conn' = [conn EXCEPT ![p] = "down"]
        /\ told' = [told EXCEPT ![p] = TRUE]
        /\ UNCHANGED <<work, answer, shut, held>>
  /\ UNCHANGED <<choices, pools, file, wrapper>>

Initialize(p) ==
  /\ pc[p] = "init"
  /\ \/ Goes(p, "solve") /\ UNCHANGED <<rest, locals>>
     \/ Returns(p, "failed", conn[p])
  /\ UNCHANGED <<choices, pools, file, wrapper>>

(* The CPU's and CUDA's solvers find keys; Metal's only makes DPs.           *)
Found(p) ==
  /\ pc[p] = "solve" /\ backend # "metal"
  /\ solved' = [solved EXCEPT ![at] = @ \/ conn[p] = "up"]
  /\ Goes(p, "leave")
  /\ UNCHANGED <<choices, issued, file, locals, rest, wrapper>>

ProgressStops_Never(p) == FALSE
ProgressStops(p) ==
  /\ pc[p] = "solve" /\ shut[p]
  /\ Goes(p, "leave")
  /\ UNCHANGED <<choices, pools, file, locals, rest, wrapper>>

(* should_continue, which only Metal's loop asks.                            *)
PollStops(p) ==
  /\ pc[p] = "solve" /\ backend = "metal" /\ (shut[p] \/ told[p])
  /\ Goes(p, "leave")
  /\ UNCHANGED <<choices, pools, file, locals, rest, wrapper>>

Leave(p) ==
  /\ pc[p] = "leave"
  /\ Returns(p, "done", "off")
  /\ UNCHANGED <<choices, pools, file, wrapper>>

-----------------------------------------------------------------------------
(* The pool and the connection.                                              *)

(* Another worker's DP or key solves the puzzle of the pool in use.          *)
OtherSolves ==
  /\ ~solved[at]
  /\ solved' = [solved EXCEPT ![at] = TRUE]
  /\ UNCHANGED <<choices, issued, file, pc, locals, rest, wrapper>>

(* A DP brings back that the puzzle is solved, and the connection is closed. *)
Tells(p) ==
  /\ pc[p] = "solve" /\ conn[p] = "up" /\ solved[at]
  /\ told' = [told EXCEPT ![p] = TRUE]
  /\ conn' = [conn EXCEPT ![p] = "down"]
  /\ UNCHANGED <<choices, pools, file, pc, work, answer, held, shut, wrapper>>

(* The connection comes and goes; it is looked at in these places only.      *)
Drops(p) ==
  /\ conn[p] = "up" /\ pc[p] \in {"ask", "solve"}
  /\ conn' = [conn EXCEPT ![p] = "down"]
  /\ UNCHANGED <<choices, pools, file, pc, locals, held, wrapper>>

(* The supervisor's client is a new one, to which nobody has told anything.  *)
Restores(p) ==
  /\ conn[p] = "down" /\ pc[p] \in {"ask", "solve"}
  /\ conn' = [conn EXCEPT ![p] = "up"]
  /\ told' = [told EXCEPT ![p] = FALSE]
  /\ UNCHANGED <<choices, pools, file, pc, work, answer, held, shut, wrapper>>

-----------------------------------------------------------------------------
(* The end of a process from outside, and its start.                         *)

(* What was in hand when the process ended: a file that is being written is  *)
(* left as it is, or with its last line missing only.                        *)
Dies(p) ==
  /\ Goes(p, IF driver = "menu" THEN "menu" ELSE "failed")
  /\ Forgets(p)
  /\ held' = [held EXCEPT ![p] = {}] /\ conn' = [conn EXCEPT ![p] = "off"]
  /\ IF pc[p] = "save" THEN \E w \in BOOLEAN : file' = [file EXCEPT !.whole = w]
     ELSE UNCHANGED file
  /\ UNCHANGED <<choices, pools, wrapper>>

Crash(p) == Alive(p) /\ Dies(p)

(* Nobody reads the output of a process that run_starminer has given up.     *)
BrokenPipe(p) ==
  /\ Alive(p) /\ driver = "script"
  /\ script \in {"spawn", "stopped"} \/ p # child
  /\ Dies(p)

MenuPicks(p, pool) ==
  /\ pc[p] = "menu"
  /\ Goes(p, "dial") /\ at' = pool
  /\ UNCHANGED <<choices, pools, file, locals, rest, script, child, asked>>

(* A slot is used again unless its process is still there.                   *)
Spawn(p) ==
  /\ script = "spawn" /\ ~Alive(p) /\ (p = child \/ Alive(child))
  /\ Goes(p, "dial")
  /\ script' = "read" /\ child' = p
  /\ UNCHANGED <<choices, pools, file, locals, rest, at, asked>>

(* run_starminer returns when the child has closed its output and ended.     *)
Reap_Unwaited ==
  /\ script = "read"
  /\ script' \in {"spawn", "sleep"}
  /\ UNCHANGED <<choices, pools, file, pc, locals, rest, at, child, asked>>
Reap_Breaks ==
  /\ script = "read" /\ ~Alive(child)
  /\ script' = IF pc[child] = "done" THEN "stopped" ELSE "sleep"
  /\ UNCHANGED <<choices, pools, file, pc, locals, rest, at, child, asked>>
Reap ==
  /\ script = "read" /\ ~Alive(child)
  /\ script' = IF pc[child] = "done" THEN "spawn" ELSE "sleep"
  /\ UNCHANGED <<choices, pools, file, pc, locals, rest, at, child, asked>>

Wake ==
  /\ script \in {"sleep", "sulk"}
  /\ script' = "spawn"
  /\ UNCHANGED <<choices, pools, file, pc, locals, rest, at, child, asked>>

(* Ctrl+C reaches every process of the terminal.                             *)
Interrupt ==
  /\ script # "stopped"
  /\ asked' = TRUE
  /\ shut' = [p \in Procs |-> shut[p] \/ Alive(p)]
  /\ script' = CASE script = "absent" -> "absent"
                 [] script = "read"   -> "wait"
                 [] OTHER             -> "stopped"
  /\ UNCHANGED <<choices, pools, file, pc, work, answer, told, rest, at, child>>

(* proc.wait(timeout=5) raises when the child is still there: it is not      *)
(* killed, and main takes the exception for a failure and starts another.    *)
WaitOver ==
  /\ script = "wait"
  /\ script' = IF Alive(child) THEN "sulk" ELSE "stopped"
  /\ UNCHANGED <<choices, pools, file, pc, locals, rest, at, child, asked>>

(* The user starts the script again.  (Another pool is met from the menu,    *)
(* to keep the instance small.)                                              *)
StartScript ==
  /\ script = "stopped" /\ \A p \in Procs : ~Alive(p)
  /\ script' = "spawn" /\ asked' = FALSE
  /\ UNCHANGED <<choices, pools, file, pc, locals, rest, at, child>>

-----------------------------------------------------------------------------
Init ==
  /\ backend \in {"metal", "other"} /\ driver \in {"script", "menu"}
  /\ issued = [pool \in Pools |-> 0] /\ solved = [pool \in Pools |-> FALSE]
  /\ file = [of |-> {}, whole |-> FALSE]
  /\ pc = [p \in Procs |-> IF driver = "menu" /\ p = First THEN "menu" ELSE "done"]
  /\ at = Home
  /\ work = [p \in Procs |-> {}] /\ held = work /\ answer = work
  /\ conn = [p \in Procs |-> "off"]
  /\ told = [p \in Procs |-> FALSE] /\ shut = told
  /\ script = (IF driver = "menu" THEN "absent" ELSE "spawn")
  /\ child = First /\ asked = FALSE

Steps(p) == \/ Dial(p) \/ LoadCheckpoint(p) \/ GetHeld(p) \/ GetNew(p) \/ GetNothing(p)
            \/ Initialize(p) \/ EndSave(p) \/ Leave(p)

Next ==
  \/ \E p \in Procs : \/ Steps(p) \/ StartSave(p) \/ Found(p) \/ ProgressStops(p)
                      \/ PollStops(p) \/ Tells(p) \/ Drops(p) \/ Restores(p)
                      \/ Crash(p) \/ BrokenPipe(p)
                      \/ Spawn(p) \/ \E pool \in Pools : MenuPicks(p, pool)
  \/ OtherSolves \/ Reap \/ Wake \/ Interrupt \/ WaitOver \/ StartScript

(* Each process and the script go on; solvers call on_progress again and     *)
(* again, and every round of Metal's loop asks should_continue.  Nothing is  *)
(* assumed of the network, the pool, the user, or of a search's success.     *)
Script == Reap \/ Wake \/ WaitOver \/ \E p \in Procs : Spawn(p)

Fairness ==
  /\ WF_vars(Script)
  /\ \A p \in Procs : WF_vars(Steps(p) \/ ProgressStops(p)) /\ SF_vars(PollStops(p))

Spec == Init /\ [][Next]_vars /\ Fairness

-----------------------------------------------------------------------------
TypeOK ==
  /\ backend \in {"metal", "other"} /\ driver \in {"script", "menu"}
  /\ issued \in [Pools -> Nat] /\ solved \in [Pools -> BOOLEAN]
  /\ file \in [of : SUBSET Given, whole : BOOLEAN]
  /\ pc \in [Procs -> Busy \cup {"menu", "done", "failed"}]
  /\ at \in Pools
  /\ {work, held, answer} \subseteq [Procs -> SUBSET Given]
  /\ conn \in [Procs -> {"off", "up", "down"}]
  /\ {told, shut} \subseteq [Procs -> BOOLEAN]
  /\ script \in {"absent", "spawn", "read", "wait", "sleep", "sulk", "stopped"}
  /\ child \in Procs /\ asked \in BOOLEAN

(* What a process searches, and what it leaves for the next one, is one      *)
(* assignment that a pool handed out, whatever was cut, lost or restarted;   *)
(* and when get_work answered, it is the answer or has its number            *)
(* (pool_solver.cpp, load_checkpoint and the choice after get_work).         *)
Searching(p) == pc[p] \in {"init", "solve", "save"}

WasAssigned ==
  /\ \A p \in Procs : Searching(p) =>
       /\ \E w \in Given : work[p] = {w}
       /\ answer[p] # {} => Numbers(work[p]) = Numbers(answer[p])
  /\ file.whole => file.of \subseteq Given

(* Of two processes the script has started, at most one was not told to      *)
(* stop: there is never a second search of the same device by mistake.       *)
OneSearcher ==
  \A p, q \in Procs : Alive(p) /\ Alive(q) /\ p # q => shut[p] \/ shut[q]

(* A process that is told to stop stops, wherever it is and whatever backend *)
(* it drives (g_shutdown, polled by on_progress); and Metal's loop, which     *)
(* asks should_continue, stops when the pool has said that the puzzle is      *)
(* solved, unless a new client has made the manager forget it.                *)
Ignores(p) == pc[p] \in {"solve", "save"} /\ told[p]
Stops ==
  \A p \in Procs :
    /\ (Alive(p) /\ shut[p]) ~> ~(Alive(p) /\ shut[p])
    /\ (Ignores(p) /\ backend = "metal") ~> ~Ignores(p)

(* Until the user interrupts it, the script always comes back to a running   *)
(* worker, whatever the worker's exit code was.                              *)
KeepsGoing == []<>(driver = "menu" \/ asked \/ \E p \in Procs : Alive(p))
=============================================================================

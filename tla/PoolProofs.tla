----------------------------- MODULE PoolProofs -----------------------------
(***************************************************************************)
(* Proofs about what a worker does with its pools.                         *)
(*                                                                         *)
(* PoolMode, for any pools, processes and numbers of assignments: the      *)
(* types, then what is searched (WorkInv), then who searches (RunInv).     *)
(*                                                                         *)
(* PoolManager, for any number of attempts, sessions and DPs: the types,   *)
(* who handles the client, the counts, when it gives up, and that its      *)
(* steps are those of PoolSession.                                         *)
(***************************************************************************)
EXTENDS PoolMode, PoolManager, TLAPS

(* The kinds of steps, for the lemmas: those of one process that leave what  *)
(* is handed out alone, and the others.                                      *)
Process(p) ==
  \/ Dial(p) \/ LoadCheckpoint(p) \/ GetHeld(p) \/ GetNothing(p) \/ Initialize(p)
  \/ StartSave(p) \/ EndSave(p) \/ Found(p) \/ ProgressStops(p) \/ PollStops(p)
  \/ Leave(p) \/ Tells(p) \/ Drops(p) \/ Restores(p) \/ Crash(p) \/ BrokenPipe(p)
  \/ Spawn(p) \/ \E pool \in Pools : MenuPicks(p, pool)

User == OtherSolves \/ Reap \/ Wake \/ Interrupt \/ WaitOver \/ StartScript

(* A step is one of a process, a new assignment, or one of the user, the     *)
(* script or another worker.                                                 *)
LEMMA StepKinds == Next => (\E p \in Procs : Process(p) \/ GetNew(p)) \/ User
  BY DEF Next, Steps, Process, User

(* What was handed out stays so, and what a pool hands out is new in it.     *)
LEMMA GivenGrows ==
  ASSUME issued \in [Pools -> Nat], NEW pool \in Pools,
         issued' = [issued EXCEPT ![pool] = @ + 1]
  PROVE  Given \subseteq Given' /\ [pool |-> pool, id |-> issued[pool] + 1] \in Given'
<1>1. issued' \in [Pools -> Nat] /\ issued'[pool] = issued[pool] + 1
  OBVIOUS
<1>2. \A q \in Pools : issued[q] <= issued'[q]
  OBVIOUS
<1>3. \A q \in Pools : 1..issued[q] \subseteq 1..issued'[q]
  BY <1>1, <1>2
<1>4. issued[pool] + 1 \in 1..issued'[pool]
  BY <1>1
<1>5. Given \subseteq Given'
  BY <1>3 DEF Given
<1>6. [pool |-> pool, id |-> issued[pool] + 1] \in
        {[pool |-> pool, id |-> i] : i \in 1..issued'[pool]}
  BY <1>4
<1>7. [pool |-> pool, id |-> issued[pool] + 1] \in Given'
  BY <1>6 DEF Given
<1> QED BY <1>5, <1>7

LEMMA GivenSame == ASSUME UNCHANGED issued PROVE Given' = Given
  BY DEF Given

-----------------------------------------------------------------------------
(* Types.                                                                    *)

TypeCore ==
  /\ backend \in {"metal", "other"} /\ driver \in {"script", "menu"}
  /\ issued \in [Pools -> Nat] /\ solved \in [Pools -> BOOLEAN]
  /\ file \in [of : SUBSET Given, whole : BOOLEAN]
  /\ pc \in [Procs -> Busy \cup {"menu", "done", "failed"}]
  /\ at \in Pools
  /\ work \in [Procs -> SUBSET Given] /\ held \in [Procs -> SUBSET Given]
  /\ answer \in [Procs -> SUBSET Given]
  /\ conn \in [Procs -> {"off", "up", "down"}]
  /\ told \in [Procs -> BOOLEAN] /\ shut \in [Procs -> BOOLEAN]
  /\ script \in {"absent", "spawn", "read", "wait", "sleep", "sulk", "stopped"}
  /\ child \in Procs /\ asked \in BOOLEAN

LEMMA TypeSame == TypeOK <=> TypeCore
  BY DEF TypeOK, TypeCore

LEMMA TypeInit == ASSUME Init PROVE TypeCore
<1>1. issued \in [Pools -> Nat] /\ solved \in [Pools -> BOOLEAN]
  BY DEF Init
<1>2. file \in [of : SUBSET Given, whole : BOOLEAN]
  BY DEF Init
<1>3. told \in [Procs -> BOOLEAN] /\ shut \in [Procs -> BOOLEAN]
  BY DEF Init
<1>4. /\ work \in [Procs -> SUBSET Given] /\ held \in [Procs -> SUBSET Given]
      /\ answer \in [Procs -> SUBSET Given]
  BY DEF Init
<1>5. /\ backend \in {"metal", "other"} /\ driver \in {"script", "menu"}
      /\ pc \in [Procs -> Busy \cup {"menu", "done", "failed"}]
      /\ at \in Pools
      /\ conn \in [Procs -> {"off", "up", "down"}]
      /\ script \in {"absent", "spawn", "read", "wait", "sleep", "sulk", "stopped"}
      /\ child \in Procs /\ asked \in BOOLEAN
  BY PoolModeAssumption DEF Init
<1> QED BY <1>1, <1>2, <1>3, <1>4, <1>5 DEF TypeCore

LEMMA TypeProcess ==
  ASSUME TypeCore, NEW p \in Procs, Process(p) PROVE TypeCore'
<1> USE DEF TypeCore, Goes, Forgets, Returns, choices, pools, locals, rest, wrapper, Busy
<1>0. issued' = issued /\ Given' = Given
  BY GivenSame DEF Process, Dial, LoadCheckpoint, GetHeld, GetNothing, Initialize,
     StartSave, EndSave, Found, ProgressStops, PollStops, Leave, Tells, Drops, Restores,
     Crash, BrokenPipe, Dies, Spawn, MenuPicks
<1>1. CASE Dial(p) \/ Initialize(p) \/ Leave(p)
  BY <1>0, <1>1 DEF Dial, Initialize, Leave
<1>2. CASE LoadCheckpoint(p)
  BY <1>0, <1>2 DEF LoadCheckpoint, Loadable
<1>3. CASE GetHeld(p)
  BY <1>0, <1>3 DEF GetHeld, Answered, Chosen
<1>4. CASE GetNothing(p)
  BY <1>0, <1>4 DEF GetNothing
<1>5. CASE StartSave(p) \/ EndSave(p)
  <2> DEFINE written(b) == [of |-> work[p], whole |-> b]
  <2>0. \A b \in BOOLEAN : written(b) \in [of : SUBSET Given, whole : BOOLEAN]
    OBVIOUS
  <2>1. file' \in [of : SUBSET Given, whole : BOOLEAN]
    <3>1. \E b \in BOOLEAN : file' = written(b)
      BY <1>5, Zenon DEF StartSave, EndSave
    <3> QED BY <2>0, <3>1
  <2> QED BY <1>0, <1>5, <2>1 DEF StartSave, EndSave
<1>6. CASE Found(p) \/ ProgressStops(p) \/ PollStops(p)
  BY <1>0, <1>6 DEF Found, ProgressStops, PollStops
<1>7. CASE Tells(p) \/ Drops(p) \/ Restores(p)
  BY <1>0, <1>7 DEF Tells, Drops, Restores
<1>8. CASE Crash(p) \/ BrokenPipe(p)
  <2>1. Dies(p)
    BY <1>8 DEF Crash, BrokenPipe
  <2>2. file' \in [of : SUBSET Given, whole : BOOLEAN]
    BY <2>1 DEF Dies
  <2>3. pc' \in [Procs -> Busy \cup {"menu", "done", "failed"}]
    BY <2>1 DEF Dies
  <2>4. /\ work' \in [Procs -> SUBSET Given] /\ held' \in [Procs -> SUBSET Given]
        /\ answer' \in [Procs -> SUBSET Given] /\ conn' \in [Procs -> {"off", "up", "down"}]
        /\ told' \in [Procs -> BOOLEAN] /\ shut' \in [Procs -> BOOLEAN]
    BY <2>1 DEF Dies
  <2>5. UNCHANGED <<choices, pools, wrapper>>
    BY <2>1 DEF Dies
  <2> QED BY <1>0, <2>2, <2>3, <2>4, <2>5
<1>9. CASE Spawn(p) \/ \E pool \in Pools : MenuPicks(p, pool)
  BY <1>0, <1>9 DEF Spawn, MenuPicks
<1> QED BY <1>1, <1>2, <1>3, <1>4, <1>5, <1>6, <1>7, <1>8, <1>9 DEF Process

LEMMA TypeNew == ASSUME TypeCore, NEW p \in Procs, GetNew(p) PROVE TypeCore'
<1> DEFINE new == [pool |-> at, id |-> issued[at] + 1]
<1>1. Given \subseteq Given' /\ new \in Given'
  BY GivenGrows DEF TypeCore, GetNew
<1>2. {new} \in SUBSET Given' /\ Chosen(work[p], {new}) \in SUBSET Given'
  BY <1>1 DEF TypeCore, Chosen
<1>3. /\ work' \in [Procs -> SUBSET Given'] /\ held' \in [Procs -> SUBSET Given']
      /\ answer' \in [Procs -> SUBSET Given'] /\ file' \in [of : SUBSET Given', whole : BOOLEAN]
  <2> HIDE DEF new
  <2> QED BY <1>1, <1>2 DEF TypeCore, GetNew, Answered, new
<1>4. pc' \in [Procs -> Busy \cup {"menu", "done", "failed"}]
  BY DEF TypeCore, GetNew, Answered, Goes, Busy
<1>5. issued' \in [Pools -> Nat]
  BY DEF TypeCore, GetNew
<1> QED BY <1>3, <1>4, <1>5 DEF TypeCore, GetNew, choices, wrapper

LEMMA TypeUser == ASSUME TypeCore, User PROVE TypeCore'
<1> USE DEF TypeCore, choices, pools, locals, rest, wrapper, Busy
<1>0. issued' = issued /\ Given' = Given
  BY GivenSame DEF User, OtherSolves, Reap, Wake, Interrupt, WaitOver, StartScript
<1>1. CASE OtherSolves \/ Reap \/ Wake \/ WaitOver \/ StartScript
  BY <1>0, <1>1 DEF OtherSolves, Reap, Wake, WaitOver, StartScript
<1>2. CASE Interrupt
  <2>1. shut' \in [Procs -> BOOLEAN]
    BY <1>2 DEF Interrupt, Alive
  <2> QED BY <1>0, <1>2, <2>1 DEF Interrupt
<1> QED BY <1>1, <1>2 DEF User

LEMMA TypeStutter == ASSUME TypeCore, UNCHANGED vars PROVE TypeCore'
  BY GivenSame DEF TypeCore, vars, choices, pools, locals, rest, wrapper

(* Every variable keeps its type: in particular, every assignment that a     *)
(* process, its manager or the checkpoint has was handed out by a pool       *)
(* (pool_solver.cpp).                                                        *)
THEOREM TypeCorrect == Spec => []TypeOK
<1>1. TypeCore /\ [Next]_vars => TypeCore'
  BY StepKinds, TypeProcess, TypeNew, TypeUser, TypeStutter
<1> QED BY TypeInit, TypeSame, <1>1, PTL DEF Spec

-----------------------------------------------------------------------------
(* What is searched.                                                         *)

Small(ws) == ws = {} \/ \E w \in Given : ws = {w}

(* A set of assignments is at most one; a session that searches has one, of  *)
(* the number that get_work returned if it did; one that does not yet has no *)
(* answer.                                                                   *)
SessionOf(p) ==
  /\ Small(work[p]) /\ Small(held[p]) /\ Small(answer[p])
  /\ Searching(p) => work[p] # {}
  /\ Searching(p) /\ answer[p] # {} => Numbers(work[p]) = Numbers(answer[p])
  /\ pc[p] \in {"dial", "load", "ask", "menu", "done", "failed"} => answer[p] = {}

WorkInv == Small(file.of) /\ \A p \in Procs : SessionOf(p)

LEMMA WorkInit == Init => WorkInv
  BY DEF Init, WorkInv, SessionOf, Small, Searching

(* A step that leaves the assignments handed out and the session's own parts *)
(* alone leaves what is said of the session alone.                           *)
LEMMA SessionSame ==
  ASSUME NEW q, SessionOf(q), UNCHANGED issued, work'[q] = work[q], held'[q] = held[q],
         answer'[q] = answer[q], pc'[q] = pc[q]
  PROVE  SessionOf(q)'
<1>1. Given' = Given
  BY GivenSame
<1> QED BY <1>1 DEF SessionOf, Small, Searching, Numbers

(* The choice between checkpoint and answer.                                 *)
LEMMA ChoiceRight ==
  ASSUME NEW saved, NEW got, Small(saved), Small(got), got # {}
  PROVE  /\ Small(Chosen(saved, got)) /\ Chosen(saved, got) # {}
         /\ Numbers(Chosen(saved, got)) = Numbers(got)
<1>1. Numbers({}) = {} /\ Numbers(got) # {}
  BY DEF Numbers
<1> QED BY <1>1 DEF Chosen

LEMMA WorkProcess ==
  ASSUME TypeCore, WorkInv, NEW p \in Procs, Process(p) PROVE WorkInv'
<1> USE DEF Goes, Forgets, Returns, choices, pools, locals, rest, wrapper
<1>0. issued' = issued /\ Given' = Given
  BY GivenSame DEF Process, Dial, LoadCheckpoint, GetHeld, GetNothing, Initialize,
     StartSave, EndSave, Found, ProgressStops, PollStops, Leave, Tells, Drops, Restores,
     Crash, BrokenPipe, Dies, Spawn, MenuPicks
<1> DEFINE Others == \A q \in Procs \ {p} : /\ work'[q] = work[q] /\ held'[q] = held[q]
                                           /\ answer'[q] = answer[q] /\ pc'[q] = pc[q]
           Own == SessionOf(p)' /\ Small(file.of)'
<1>s. SessionOf(p) /\ Small(file.of)
  BY DEF WorkInv
<1>1. CASE Dial(p) \/ Initialize(p) \/ Leave(p)
  <2>1. Others
    BY <1>1 DEF Dial, Initialize, Leave, TypeCore
  <2>2. Own
    BY <1>0, <1>1, <1>s DEF Dial, Initialize, Leave, TypeCore, SessionOf, Searching, Small, Numbers
  <2> QED BY <1>0, <2>1, <2>2, SessionSame DEF WorkInv
<1>2. CASE LoadCheckpoint(p)
  <2>1. Others
    BY <1>2 DEF LoadCheckpoint, TypeCore
  <2>2. Own
    BY <1>0, <1>2, <1>s DEF LoadCheckpoint, Loadable, TypeCore, SessionOf, Searching, Small
  <2> QED BY <1>0, <2>1, <2>2, SessionSame DEF WorkInv
<1>3. CASE GetHeld(p)
  <2>1. Others
    BY <1>3 DEF GetHeld, Answered, TypeCore
  <2>2. /\ Small(Chosen(work[p], held[p])) /\ Chosen(work[p], held[p]) # {}
        /\ Numbers(Chosen(work[p], held[p])) = Numbers(held[p])
    BY <1>3, <1>s, ChoiceRight DEF GetHeld, SessionOf
  <2>3. /\ work'[p] = Chosen(work[p], held[p]) /\ answer'[p] = held[p]
        /\ held'[p] = held[p] /\ pc'[p] = "init" /\ file' = file
    BY <1>3 DEF GetHeld, Answered, TypeCore
  <2>4. Own
    BY <1>0, <1>s, <2>2, <2>3 DEF SessionOf, Searching, Small, Numbers
  <2> QED BY <1>0, <2>1, <2>4, SessionSame DEF WorkInv
<1>4. CASE GetNothing(p)
  <2>1. Others
    BY <1>4 DEF GetNothing, TypeCore
  <2>2. Own
    BY <1>0, <1>4, <1>s DEF GetNothing, TypeCore, SessionOf, Searching, Small, Numbers
  <2> QED BY <1>0, <2>1, <2>2, SessionSame DEF WorkInv
<1>5. CASE StartSave(p) \/ EndSave(p)
  <2>1. Others
    BY <1>5 DEF StartSave, EndSave, TypeCore
  <2>3. file'.of = work[p]
    BY <1>5 DEF StartSave, EndSave
  <2>4. /\ pc[p] \in {"solve", "save"} /\ pc'[p] \in {"solve", "save"}
        /\ UNCHANGED <<work, held, answer>>
    BY <1>5 DEF StartSave, EndSave, TypeCore
  <2>2. Own
    BY <1>0, <1>s, <2>3, <2>4 DEF SessionOf, Searching, Small, Numbers
  <2> QED BY <1>0, <2>1, <2>2, SessionSame DEF WorkInv
<1>6. CASE Found(p) \/ ProgressStops(p) \/ PollStops(p)
  <2>1. Others
    BY <1>6 DEF Found, ProgressStops, PollStops, TypeCore
  <2>2. Own
    BY <1>0, <1>6, <1>s DEF Found, ProgressStops, PollStops, TypeCore, SessionOf, Searching, Small
  <2> QED BY <1>0, <2>1, <2>2, SessionSame DEF WorkInv
<1>7. CASE Tells(p) \/ Drops(p) \/ Restores(p)
  <2>1. Others /\ UNCHANGED <<work, held, answer, pc, file>>
    BY <1>7 DEF Tells, Drops, Restores
  <2> QED BY <1>0, <1>s, <2>1, SessionSame DEF WorkInv, Small
<1>8. CASE Crash(p) \/ BrokenPipe(p)
  <2>0. Dies(p)
    BY <1>8 DEF Crash, BrokenPipe
  <2>1. Others
    BY <2>0 DEF Dies, TypeCore
  <2>2. file'.of = file.of
    BY <2>0 DEF Dies, TypeCore
  <2>3. SessionOf(p)'
    BY <2>0 DEF Dies, TypeCore, SessionOf, Searching, Small
  <2> QED BY <1>0, <1>s, <2>1, <2>2, <2>3, SessionSame DEF WorkInv, Small
<1>9. CASE Spawn(p) \/ \E pool \in Pools : MenuPicks(p, pool)
  <2>1. Others
    BY <1>9 DEF Spawn, MenuPicks, TypeCore
  <2>2. pc[p] \in {"menu", "done", "failed"} /\ answer[p] = {}
    BY <1>9, <1>s DEF Spawn, MenuPicks, Alive, SessionOf, TypeCore
  <2>4. pc'[p] = "dial" /\ UNCHANGED <<work, held, answer, file>>
    BY <1>9 DEF Spawn, MenuPicks, TypeCore
  <2>3. Own
    BY <1>0, <1>s, <2>2, <2>4 DEF SessionOf, Searching, Small
  <2> QED BY <1>0, <2>1, <2>3, SessionSame DEF WorkInv
<1> QED BY <1>1, <1>2, <1>3, <1>4, <1>5, <1>6, <1>7, <1>8, <1>9 DEF Process

LEMMA WorkNew == ASSUME TypeCore, WorkInv, NEW p \in Procs, GetNew(p) PROVE WorkInv'
<1> DEFINE got == {[pool |-> at, id |-> issued[at] + 1]}
<1>1. Given \subseteq Given' /\ [pool |-> at, id |-> issued[at] + 1] \in Given'
  BY GivenGrows DEF TypeCore, GetNew
<1>2. \A ws : Small(ws) => Small(ws)'
  BY <1>1 DEF Small
<1>3. /\ work'[p] = Chosen(work[p], got) /\ answer'[p] = got /\ held'[p] = got
      /\ pc'[p] = "init" /\ file' = file
  BY DEF GetNew, Answered, Goes, TypeCore
<1>4. got # {} /\ got = {[pool |-> at, id |-> issued[at] + 1]}
  OBVIOUS
<1> HIDE DEF got
<1>5. /\ Chosen(work[p], got) \in {work[p], got} /\ Chosen(work[p], got) # {}
      /\ Numbers(Chosen(work[p], got)) = Numbers(got)
  <2>1. Numbers({}) = {} /\ Numbers(got) # {}
    BY <1>4 DEF Numbers
  <2> QED BY <1>4, <2>1 DEF Chosen
<1>6. \E w \in Given' : got = {w}
  BY <1>1, <1>4
<1>7. (\E w \in Given' : work[p] = {w}) \/ work[p] = {}
  BY <1>1 DEF WorkInv, SessionOf, Small
<1>8. SessionOf(p)'
  BY <1>3, <1>4, <1>5, <1>6, <1>7 DEF SessionOf, Small, Searching, Numbers
<1>9. \A q \in Procs \ {p} : SessionOf(q)'
  <2> TAKE q \in Procs \ {p}
  <2>1. work'[q] = work[q] /\ held'[q] = held[q] /\ answer'[q] = answer[q] /\ pc'[q] = pc[q]
    BY DEF GetNew, Answered, Goes, TypeCore
  <2> QED BY <1>1, <2>1 DEF WorkInv, SessionOf, Small, Searching, Numbers
<1>10. Small(file.of)'
  BY <1>1, <1>3 DEF WorkInv, Small
<1> QED BY <1>8, <1>9, <1>10 DEF WorkInv

LEMMA WorkUser == ASSUME WorkInv, User \/ UNCHANGED vars PROVE WorkInv'
<1>1. UNCHANGED <<issued, work, held, answer, pc, file>>
  BY DEF User, OtherSolves, Reap, Wake, Interrupt, WaitOver, StartScript, vars, choices,
         pools, locals, rest, wrapper
<1> QED BY <1>1, GivenSame, SessionSame DEF WorkInv, Small

LEMMA WorkRight == ASSUME TypeCore, WorkInv PROVE WasAssigned
  BY DEF TypeCore, WorkInv, WasAssigned, SessionOf, Small

(* What a process searches, and what the checkpoint holds, is one assignment *)
(* that a pool handed out, of the number get_work returned if it returned    *)
(* one: run_pool_mode, load_checkpoint and save_checkpoint, over any         *)
(* crashes, cuts and restarts.                                               *)
THEOREM AssignedCorrect == Spec => []WasAssigned
<1>1. TypeCore /\ WorkInv /\ [Next]_vars => TypeCore' /\ WorkInv'
  BY StepKinds, TypeProcess, TypeNew, TypeUser, TypeStutter, WorkProcess, WorkNew, WorkUser
<1> QED BY TypeInit, WorkInit, WorkRight, <1>1, PTL DEF Spec

-----------------------------------------------------------------------------
(* Who searches.                                                             *)

(* The menu has one process.  Of the script's, all but the child were told   *)
(* to stop; so was the child, if it is there, when the script does not read  *)
(* its output.                                                               *)
RunInv ==
  /\ driver = "menu" => script = "absent"
  /\ \A p \in Procs : (driver = "menu" /\ p # child) \/ driver = "script" => pc[p] # "menu"
  /\ \A p \in Procs : p # child /\ Alive(p) => driver = "script" /\ shut[p]
  /\ script \notin {"absent", "read"} /\ Alive(child) => shut[child]

LEMMA RunInit == ASSUME Init PROVE RunInv
<1>1. \A p \in Procs : pc[p] = IF driver = "menu" /\ p = First THEN "menu" ELSE "done"
  BY DEF Init
<1>2. child = First /\ First \in Procs /\ driver \in {"script", "menu"}
  BY PoolModeAssumption DEF Init
<1>3. \A p \in Procs : ~Alive(p)
  BY <1>1 DEF Alive, Busy
<1>4. driver = "menu" => script = "absent"
  BY DEF Init
<1> QED BY <1>1, <1>2, <1>3, <1>4 DEF RunInv

(* No step of a process but its start brings it to life or lets it forget    *)
(* that it was told to stop.                                                 *)
LEMMA NoneRises ==
  ASSUME TypeCore, NEW p \in Procs, (Process(p) /\ ~Spawn(p)
           /\ ~\E pool \in Pools : MenuPicks(p, pool)) \/ GetNew(p)
  PROVE  /\ UNCHANGED <<driver, script, child>>
         /\ \A q \in Procs : /\ Alive(q)' => Alive(q) /\ shut'[q] = shut[q]
                             /\ pc'[q] = "menu" => pc[q] = "menu"
                                                   \/ (driver = "menu" /\ Alive(q))
<1> USE DEF TypeCore, Goes, Forgets, Returns, choices, pools, locals, rest, wrapper, Alive, Busy
<1>1. CASE Dial(p) \/ Initialize(p) \/ Leave(p) \/ GetNothing(p)
  BY <1>1 DEF Dial, Initialize, Leave, GetNothing
<1>2. CASE LoadCheckpoint(p) \/ GetHeld(p) \/ GetNew(p)
  BY <1>2 DEF LoadCheckpoint, GetHeld, GetNew, Answered
<1>3. CASE StartSave(p) \/ EndSave(p) \/ Found(p) \/ ProgressStops(p) \/ PollStops(p)
  BY <1>3 DEF StartSave, EndSave, Found, ProgressStops, PollStops
<1>4. CASE Tells(p) \/ Drops(p) \/ Restores(p)
  BY <1>4 DEF Tells, Drops, Restores
<1>5. CASE Crash(p) \/ BrokenPipe(p)
  <2>1. Alive(p) /\ Dies(p)
    BY <1>5 DEF Crash, BrokenPipe
  <2>2. pc' = [pc EXCEPT ![p] = IF driver = "menu" THEN "menu" ELSE "failed"]
    BY <2>1 DEF Dies
  <2>3. shut' = [shut EXCEPT ![p] = FALSE] /\ UNCHANGED <<driver, script, child>>
    BY <2>1 DEF Dies
  <2> QED BY <2>1, <2>2, <2>3
<1> QED BY <1>1, <1>2, <1>3, <1>4, <1>5 DEF Process

LEMMA RunProcess ==
  ASSUME TypeCore, RunInv, NEW p \in Procs, Process(p) \/ GetNew(p) PROVE RunInv'
<1>1. CASE Spawn(p)
  <2>1. script = "spawn" /\ script' = "read" /\ child' = p /\ UNCHANGED <<driver, shut>>
    BY <1>1 DEF Spawn, choices, locals
  <2>2. driver = "script"
    BY <2>1 DEF RunInv, TypeCore
  <2>3. \A q \in Procs \ {p} : pc'[q] = pc[q]
    BY <1>1 DEF Spawn, Goes, TypeCore
  <2>4. pc'[p] = "dial"
    BY <1>1 DEF Spawn, Goes, TypeCore
  <2>5. \A q \in Procs : Alive(q) => shut[q]
    BY <2>1 DEF RunInv
  <2> QED BY <2>1, <2>2, <2>3, <2>4, <2>5 DEF RunInv, Alive
<1>2. CASE \E pool \in Pools : MenuPicks(p, pool)
  <2>1. pc[p] = "menu" /\ UNCHANGED <<driver, script, child, shut>>
    BY <1>2 DEF MenuPicks, choices, locals
  <2>2. driver = "menu" /\ p = child
    BY <2>1 DEF RunInv, TypeCore
  <2>3. \A q \in Procs \ {p} : pc'[q] = pc[q]
    BY <1>2 DEF MenuPicks, Goes, TypeCore
  <2> QED BY <2>1, <2>2, <2>3 DEF RunInv, Alive
<1>3. CASE ~Spawn(p) /\ ~\E pool \in Pools : MenuPicks(p, pool)
  <2>1. /\ UNCHANGED <<driver, script, child>>
        /\ \A q \in Procs : /\ Alive(q)' => Alive(q) /\ shut'[q] = shut[q]
                            /\ pc'[q] = "menu" => pc[q] = "menu"
                                                  \/ (driver = "menu" /\ Alive(q))
    BY <1>3, NoneRises
  <2>2. child \in Procs /\ driver \in {"script", "menu"}
    BY DEF TypeCore
  <2> QED BY <2>1, <2>2 DEF RunInv
<1> QED BY <1>1, <1>2, <1>3

LEMMA RunUser == ASSUME TypeCore, RunInv, User \/ UNCHANGED vars PROVE RunInv'
<1>1. CASE OtherSolves \/ UNCHANGED vars
  <2>1. UNCHANGED <<driver, script, child, pc, shut>>
    BY <1>1 DEF OtherSolves, vars, choices, locals, wrapper
  <2> QED BY <2>1 DEF RunInv, Alive
<1>2. CASE Reap \/ Wake \/ WaitOver \/ StartScript
  <2>1. UNCHANGED <<driver, child, pc, shut>> /\ driver # "menu"
    BY <1>2 DEF Reap, Wake, WaitOver, StartScript, choices, locals, RunInv
  <2>2. script' \notin {"absent", "read"} /\ Alive(child) => shut[child]
    BY <1>2 DEF Reap, Wake, WaitOver, StartScript, RunInv, TypeCore
  <2> QED BY <2>1, <2>2 DEF RunInv, Alive
<1>3. CASE Interrupt
  <2>2. UNCHANGED <<driver, child, pc>>
    BY <1>3 DEF Interrupt, choices
  <2>3. \A q \in Procs : (shut[q] \/ Alive(q)) => shut'[q]
    BY <1>3 DEF Interrupt
  <2>4. script = "absent" => script' = "absent"
    BY <1>3 DEF Interrupt
  <2> QED BY <2>2, <2>3, <2>4 DEF RunInv, Alive, TypeCore
<1> QED BY <1>1, <1>2, <1>3 DEF User

LEMMA RunRight == ASSUME RunInv PROVE OneSearcher
  BY DEF RunInv, OneSearcher

(* There are never two processes of the worker that were not told to stop,   *)
(* although the script starts a new one while the one it gave up waiting for *)
(* is still there (starminer-worker.py, run_starminer and main).             *)
THEOREM SearcherCorrect == Spec => []OneSearcher
<1>1. TypeCore /\ RunInv /\ [Next]_vars => TypeCore' /\ RunInv'
  BY StepKinds, TypeProcess, TypeNew, TypeUser, TypeStutter, RunProcess, RunUser
<1> QED BY TypeInit, RunInit, RunRight, <1>1, PTL DEF Spec

-----------------------------------------------------------------------------
(* The manager.                                                              *)

(* Where the supervisor is still at work, and where it is inside an attempt. *)
Active  == {"probe", "backoff", "drop", "clear", "make", "dial", "auth"}
Trying  == {"backoff", "drop", "clear", "make", "dial", "auth"}
Joining == {"make", "dial", "auth"}

(* A supervisor at work has a session and has not given up; unless the host  *)
(* recalled, it counts exactly what is missed, and has no connection while   *)
(* it tries.                                                                 *)
SupervisorInv ==
  /\ spc \in Active => on /\ ~gaveUp
  /\ spc \in Trying => fails < MaxAttempts
  /\ misses <= fails
  /\ ~recalled => /\ spc \in Active => fails = misses
                  /\ spc \in Trying => ~is_connected
                  /\ spc \in Joining => ~connected
                  /\ connected => misses = 0

(* Unless it recalled, the host connects while there is no supervisor; it    *)
(* calls get_work and disconnect in a session; the threads die together.     *)
HostInv ==
  /\ recalled => on
  /\ hpc \in Joining /\ ~recalled => ~on
  /\ ~on /\ hpc # Dead => spc = "none" /\ ~connected
  /\ hpc \in {"ask", "join"} => on
  /\ hpc = Dead <=> spc = Dead
  /\ hpc = Dead <=> dpc = Dead
  /\ hpc = Dead => client = "none"

(* Only a thread in a call is torn, and without a recall that call is        *)
(* get_work's or submit_dp's.                                                *)
TornInv ==
  /\ torn \subseteq InClient
  /\ ~recalled => "supervisor" \notin torn /\ ("host" \in torn => hpc = "ask")

ManagerInv == ManagerTypeOK /\ SupervisorInv /\ HostInv /\ TornInv

USE DEF Dead, is_connected, counts, flags, history, Threads

LEMMA ManagerStarts == ManagerInit => ManagerInv
<1> SUFFICES ASSUME ManagerInit
             PROVE  ManagerInv
  OBVIOUS
<1>1. 0 \in 0 .. MaxAttempts
  BY ManagerAssumption
<1>2. ManagerTypeOK
  <2>1. {connected, hasWork, stop, gaveUp, on, recalled} \subseteq BOOLEAN
    BY DEF ManagerInit
  <2>. QED  BY <1>1, <2>1 DEF ManagerInit, ManagerTypeOK
<1>3. SupervisorInv /\ HostInv /\ TornInv
  BY <1>2 DEF ManagerTypeOK, ManagerInit, SupervisorInv, HostInv, TornInv, Active, Trying, Joining
<1>. QED  BY <1>2, <1>3 DEF ManagerInv

LEMMA StepHost == ManagerInv /\ (HostCalls \/ HostGoes) => ManagerInv'
<1> SUFFICES ASSUME ManagerInv, HostCalls \/ HostGoes
             PROVE  ManagerInv'
  OBVIOUS
<1>. USE ManagerAssumption DEF ManagerInv, ManagerTypeOK, SupervisorInv, HostInv, TornInv,
         Active, Trying, Joining, InClient, Return, CallEnds, Authenticate, Replace
<1>1. CASE Connect
  BY <1>1 DEF Connect
<1>2. CASE HostMakes
  BY <1>2 DEF HostMakes
<1>3. CASE GetWork
  BY <1>3 DEF GetWork
<1>4. CASE Disconnect
  BY <1>4 DEF Disconnect
<1>5. CASE HostDials
  BY <1>5 DEF HostDials
<1>6. CASE HostAuthOk
  <2>1. offered' \in Nat /\ submitted' \in Nat /\ sessions' \in Nat
    BY <1>6 DEF HostAuthOk
  <2>2. 0 \in 0 .. MaxAttempts
    OBVIOUS
  <2>3. CASE spc = "none"
    <3>1. spc' = "probe" /\ fails' = 0 /\ gaveUp' = FALSE /\ stop' = FALSE
      BY <1>6, <2>3 DEF HostAuthOk, start_supervisor
    <3>2. "supervisor" \notin torn /\ "host" \notin torn'
      BY <1>6, <2>3 DEF HostAuthOk
    <3>3. torn' = torn \ {"host"} /\ hpc = "auth" /\ hpc' = "idle" /\ dpc' = dpc
      BY <1>6 DEF HostAuthOk
    <3>4. TornInv'
      BY <3>1, <3>2, <3>3
    <3>5. ManagerTypeOK'
      BY <1>6, <2>1, <2>2, <3>1, <3>3 DEF HostAuthOk
    <3>. QED  BY <1>6, <2>3, <3>1, <3>3, <3>4, <3>5 DEF HostAuthOk
  <2>4. CASE spc # "none"
    <3>1. recalled /\ on
      BY <1>6, <2>4 DEF HostAuthOk
    <3>. QED  BY <1>6, <2>1, <2>2, <2>4, <3>1 DEF HostAuthOk, start_supervisor
  <2>. QED  BY <2>3, <2>4
<1>7. CASE HostAuthFails
  BY <1>7 DEF HostAuthFails
<1>8. CASE GotWork
  <2>1. /\ hpc = "ask" /\ hpc' = "idle" /\ hasWork' \in BOOLEAN /\ torn' = torn \ {"host"}
        /\ UNCHANGED <<connected, client, counts, flags, spc, fails, dpc, history>>
    BY <1>8 DEF GotWork
  <2>2. TornInv'
    <3>1. ASSUME NEW t \in torn'  PROVE t \in InClient'
      BY <2>1, <3>1
    <3>. QED  BY <2>1, <3>1
  <2>3. ManagerTypeOK'
    BY <2>1
  <2>. QED  BY <2>1, <2>2, <2>3
<1>9. CASE Joined
  <2>1. /\ spc' = "none" /\ client' = "none" /\ connected' = FALSE /\ on' = FALSE
        /\ recalled' = FALSE /\ hpc = "join" /\ hpc' = "idle" /\ spc \in {"none", "done"}
        /\ UNCHANGED <<hasWork, counts, flags, fails, dpc, misses, sessions>>
    BY <1>9 DEF Joined
  <2>2. ASSUME NEW t \in torn'  PROVE t = "solver" /\ dpc = "use"
    <3>1. torn' = IF client = "none" THEN torn ELSE torn \cup (InClient \ {"host"})
      BY <1>9 DEF Joined, Replace
    <3>2. t \in torn \/ t \in InClient
      BY <2>2, <3>1
    <3>3. t \in InClient
      BY <3>2
    <3>. QED  BY <2>1, <3>3
  <2>3. \A t \in torn' : t = "solver" /\ dpc' = "use"
    BY <2>1, <2>2
  <2>4. TornInv'
    BY <2>3
  <2>. QED  BY <2>1, <2>4
<1>. QED  BY <1>1, <1>2, <1>3, <1>4, <1>5, <1>6, <1>7, <1>8, <1>9
             DEF HostCalls, HostGoes

LEMMA StepSolver == ManagerInv /\ (Solver \/ Client \/ ProcessDies) => ManagerInv'
<1> SUFFICES ASSUME ManagerInv, Solver \/ Client \/ ProcessDies
             PROVE  ManagerInv'
  OBVIOUS
<1>. USE ManagerAssumption DEF ManagerInv, ManagerTypeOK, SupervisorInv, HostInv, TornInv,
         Active, Trying, Joining, InClient, Return, SubmitReturns
<1>1. CASE SubmitDown
  BY <1>1 DEF SubmitDown
<1>2. CASE SubmitUp
  BY <1>2 DEF SubmitUp
<1>3. CASE Submitted
  BY <1>3 DEF Submitted
<1>4. CASE QueueFull
  BY <1>4 DEF QueueFull
<1>5. CASE ProcessDies
  BY <1>5 DEF ProcessDies
<1>6. CASE Lost
  BY <1>6 DEF Lost
<1>7. CASE WorkArrives
  BY <1>7 DEF WorkArrives
<1>. QED  BY <1>1, <1>2, <1>3, <1>4, <1>5, <1>6, <1>7 DEF Solver, Client

LEMMA StepSupervisor == ManagerInv /\ Supervisor => ManagerInv'
<1> SUFFICES ASSUME ManagerInv, Supervisor
             PROVE  ManagerInv'
  OBVIOUS
<1>. USE ManagerAssumption DEF ManagerInv, ManagerTypeOK, SupervisorInv, HostInv, TornInv,
         Active, Trying, Joining, InClient, Return, CallEnds, Authenticate, Replace
<1>1. CASE SupervisorStops
  BY <1>1 DEF SupervisorStops
<1>2. CASE Healthy
  BY <1>2 DEF Healthy
<1>3. CASE GivesUp
  BY <1>3 DEF GivesUp
<1>4. CASE Retries
  BY <1>4 DEF Retries, Enough
<1>5. CASE TearsDown
  BY <1>5 DEF TearsDown
<1>6. CASE Resets
  BY <1>6 DEF Resets
<1>7. CASE Clears
  BY <1>7 DEF Clears
<1>8. CASE Renews
  BY <1>8 DEF Renews
<1>9. CASE Dials
  BY <1>9 DEF Dials
<1>10. CASE DialFails
  BY <1>10 DEF DialFails, Missed
<1>11. CASE AuthOk
  BY <1>11 DEF AuthOk
<1>12. CASE AuthFails
  BY <1>12 DEF AuthFails, Missed
<1>. QED  BY <1>1, <1>2, <1>3, <1>4, <1>5, <1>6, <1>7, <1>8, <1>9, <1>10, <1>11, <1>12
             DEF Supervisor

LEMMA ManagerStep == ManagerInv /\ [ManagerNext]_managerVars => ManagerInv'
<1>1. ManagerInv /\ UNCHANGED managerVars => ManagerInv'
  BY DEF managerVars, ManagerInv, ManagerTypeOK, SupervisorInv, HostInv, TornInv, InClient
<1>. QED  BY <1>1, StepHost, StepSolver, StepSupervisor DEF ManagerNext

LEMMA ManagerInvariant == ManagerSpec => []ManagerInv
BY ManagerStarts, ManagerStep, PTL DEF ManagerSpec

(* pool_manager.cpp: the variables have their types, and the supervisor      *)
(* never tries more often than kMaxReconnectAttempts.                        *)
THEOREM ManagerTypeCorrect == ManagerSpec => []ManagerTypeOK
BY ManagerInvariant, PTL DEF ManagerInv

(* supervisor_loop and the host's connect are at client_ together only after *)
(* a connect in a session that was down and not ended; no thread loses its   *)
(* client in a call of connect otherwise; and after disconnect nothing is    *)
(* left running or connected.                                                *)
THEOREM OwnerCorrect == ManagerSpec => []OneOwner
<1>1. ManagerInv => OneOwner
  BY DEF ManagerInv, SupervisorInv, HostInv, TornInv, OneOwner, Active, Joining
<1>. QED  BY <1>1, ManagerInvariant, PTL

(* supervisor_loop gives up only after kMaxReconnectAttempts misses in a     *)
(* row, unless the host connected beside it.                                 *)
THEOREM GiveUpCorrect == ManagerSpec => GivesUpLate
<1>1. ManagerInv /\ [ManagerNext]_managerVars =>
        (gaveUp' /\ ~gaveUp => misses >= MaxAttempts \/ recalled)
  <2> SUFFICES ASSUME ManagerInv, [ManagerNext]_managerVars, gaveUp', ~gaveUp
               PROVE  misses >= MaxAttempts \/ recalled
    OBVIOUS
  <2>1. CASE GivesUp
    BY <2>1 DEF GivesUp, Enough, ManagerInv, SupervisorInv, Active
  <2>2. CASE ~GivesUp
    BY <2>2 DEF ManagerNext, managerVars, HostCalls, HostGoes, Solver, Supervisor, Client, Connect,
       GetWork, Disconnect, HostMakes, HostDials, HostAuthOk, start_supervisor, HostAuthFails,
       GotWork, Joined, SubmitDown, SubmitUp, Submitted, QueueFull, ProcessDies,
       SupervisorStops, Healthy, Retries, TearsDown, Resets, Clears, Renews, Dials, DialFails,
       AuthOk, AuthFails, Lost, WorkArrives
  <2>. QED  BY <2>1, <2>2
<1>. QED  BY <1>1, ManagerInvariant, PTL DEF ManagerSpec, GivesUpLate

-----------------------------------------------------------------------------
(* Each DP of a session is counted once; one between submit_dp's check and   *)
(* its use of the client is offered and not yet counted.                     *)
CountInv ==
  /\ dpc = "idle" => submitted + dropped = offered
  /\ dpc = "use" => submitted + dropped + 1 = offered

(* submit_dp: in a session every DP that was offered is counted as submitted *)
(* or as dropped, never as both.                                             *)
THEOREM CountCorrect == ManagerSpec => []EveryDPCounted
<1>1. ManagerInit => CountInv
  BY DEF ManagerInit, CountInv
<1>2. ManagerTypeOK /\ CountInv /\ [ManagerNext]_managerVars => CountInv'
  <2> SUFFICES ASSUME ManagerTypeOK, CountInv, [ManagerNext]_managerVars
               PROVE  CountInv'
    OBVIOUS
  <2>. USE DEF ManagerTypeOK, CountInv
  <2>1. CASE HostAuthOk
    BY <2>1 DEF HostAuthOk
  <2>2. CASE SubmitDown
    BY <2>2 DEF SubmitDown
  <2>3. CASE SubmitUp
    BY <2>3 DEF SubmitUp
  <2>4. CASE Submitted
    BY <2>4 DEF Submitted, SubmitReturns
  <2>5. CASE QueueFull
    BY <2>5 DEF QueueFull, SubmitReturns
  <2>6. CASE ProcessDies
    BY <2>6 DEF ProcessDies
  <2>7. CASE UNCHANGED <<counts, dpc>>
    BY <2>7
  <2>8. \/ HostAuthOk \/ SubmitDown \/ SubmitUp \/ Submitted \/ QueueFull
        \/ ProcessDies \/ UNCHANGED <<counts, dpc>>
    BY DEF ManagerNext, managerVars, HostCalls, HostGoes, Solver, Supervisor, Client, Connect,
       GetWork, Disconnect, HostMakes, HostDials, HostAuthFails, GotWork, Joined, SupervisorStops,
       Healthy, GivesUp, Retries, TearsDown, Resets, Clears, Renews, Dials, DialFails, AuthOk,
       AuthFails, Lost, WorkArrives
  <2>. QED  BY <2>1, <2>2, <2>3, <2>4, <2>5, <2>6, <2>7, <2>8
<1>3. CountInv => EveryDPCounted
  BY DEF CountInv, EveryDPCounted
<1>. QED  BY <1>1, <1>2, <1>3, ManagerTypeCorrect, PTL DEF ManagerSpec

-----------------------------------------------------------------------------
(* Without a recall, a manager that gave up has no connection until the host *)
(* has ended the session and starts another.                                 *)
SessionInv == ManagerInv /\ (on /\ gaveUp /\ ~recalled => ~is_connected)

(* What the host sees of a session, case by case.                            *)
LEMMA PhaseCases ==
  /\ hpc = Dead => phase = "dead"
  /\ hpc # Dead /\ recalled => phase = "void"
  /\ hpc # Dead /\ ~recalled /\ is_connected /\ ManagerInv => phase = "up" /\ on
  /\ hpc # Dead /\ ~recalled /\ ~is_connected /\ ~on => phase = "off"
  /\ hpc # Dead /\ ~recalled /\ ~is_connected /\ on /\ gaveUp => phase = "gaveUp"
  /\ hpc # Dead /\ ~recalled /\ ~is_connected /\ on /\ ~gaveUp => phase = "down"
<1>1. hpc # Dead /\ is_connected /\ ManagerInv => on
  BY DEF ManagerInv, HostInv
<1>. HIDE DEF is_connected
<1>2. hpc = Dead => phase = "dead"
  BY DEF phase
<1>3. hpc # Dead /\ recalled => phase = "void"
  BY DEF phase
<1>4. hpc # Dead /\ ~recalled /\ is_connected => phase = "up"
  BY DEF phase
<1>5. hpc # Dead /\ ~recalled /\ ~is_connected /\ ~on => phase = "off"
  BY DEF phase
<1>6. hpc # Dead /\ ~recalled /\ ~is_connected /\ on /\ gaveUp => phase = "gaveUp"
  BY DEF phase
<1>7. hpc # Dead /\ ~recalled /\ ~is_connected /\ on /\ ~gaveUp => phase = "down"
  BY DEF phase
<1>. QED  BY <1>1, <1>2, <1>3, <1>4, <1>5, <1>6, <1>7

(* The steps other than a connect, a disconnect, a success and the giving up *)
(* neither begin nor end a session nor bring a connection up, unless the     *)
(* host recalled.                                                            *)
LEMMA QuietStep ==
  ASSUME ManagerInv, [ManagerNext]_managerVars, hpc' # Dead,
         ~Connect, ~HostAuthOk, ~Joined, ~AuthOk, ~GivesUp, ~recalled
  PROVE  on' = on /\ gaveUp' = gaveUp /\ recalled' = recalled /\ (is_connected' => is_connected)
<1>. USE DEF ManagerInv, ManagerTypeOK, SupervisorInv, HostInv, TornInv, Active, Trying, Joining
<1>1. CASE HostMakes \/ HostDials \/ HostAuthFails
  BY <1>1 DEF HostMakes, HostDials, HostAuthFails
<1>2. CASE GetWork \/ Disconnect \/ GotWork
  <2>1. UNCHANGED <<connected, client, on, gaveUp, recalled>>
    BY <1>2 DEF GetWork, Disconnect, GotWork
  <2>. QED  BY <2>1
<1>3. CASE ProcessDies
  BY <1>3 DEF ProcessDies
<1>4. CASE Solver \/ Client
  BY <1>4 DEF Solver, Client, SubmitDown, SubmitUp, Submitted, QueueFull, Lost, WorkArrives
<1>5. CASE Supervisor
  BY <1>5 DEF Supervisor, SupervisorStops, Healthy, Retries, TearsDown, Resets, Clears, Renews,
     Dials, DialFails, AuthFails
<1>6. CASE UNCHANGED managerVars
  BY <1>6 DEF managerVars
<1>. QED  BY <1>1, <1>2, <1>3, <1>4, <1>5, <1>6 DEF ManagerNext, HostCalls, HostGoes

(* A recall lasts until disconnect, and a dead process stays so.             *)
LEMMA RecallLasts ==
  ASSUME ManagerInv, [ManagerNext]_managerVars
  PROVE  /\ recalled /\ ~Joined => recalled'
         /\ hpc = Dead => hpc' = Dead
BY DEF ManagerInv, HostInv, TornInv, InClient, ManagerNext, managerVars, HostCalls, HostGoes,
   Solver, Supervisor, Client, Connect, GetWork, Disconnect, HostMakes, HostDials, HostAuthOk,
   start_supervisor, HostAuthFails, GotWork, Joined, SubmitDown, SubmitUp, SubmitReturns,
   Submitted, QueueFull, ProcessDies, SupervisorStops, Healthy, GivesUp, Retries, TearsDown,
   Resets, Clears, Renews, Dials, DialFails, AuthOk, AuthFails, Lost, WorkArrives

(* The steps that a session sees, without a recall.                          *)
LEMMA SeenStep ==
  ASSUME SessionInv, hpc # Dead, hpc' # Dead, ~recalled
  PROVE  /\ Connect => /\ recalled' = on /\ on' = on /\ UNCHANGED <<gaveUp, connected, client>>
                       /\ ~is_connected
         /\ HostAuthOk => ~on /\ ~is_connected /\ is_connected' /\ ~gaveUp' /\ ~recalled'
         /\ Joined => on /\ ~on' /\ ~is_connected' /\ ~recalled'
         /\ AuthOk => /\ on /\ ~is_connected /\ is_connected' /\ ~gaveUp /\ ~gaveUp'
                      /\ ~recalled'
         /\ GivesUp => /\ on /\ on' /\ ~gaveUp /\ gaveUp' /\ ~is_connected /\ ~is_connected'
                       /\ ~recalled'
<1>. USE DEF SessionInv, ManagerInv, ManagerTypeOK, SupervisorInv, HostInv, TornInv, Active,
         Trying, Joining
<1>1. Connect => /\ recalled' = on /\ on' = on /\ UNCHANGED <<gaveUp, connected, client>>
                 /\ ~is_connected
  BY DEF Connect
<1>2. HostAuthOk => ~on /\ ~is_connected /\ is_connected' /\ ~gaveUp' /\ ~recalled'
  <2> SUFFICES ASSUME HostAuthOk PROVE ~on /\ ~is_connected /\ is_connected' /\ ~gaveUp' /\ ~recalled'
    OBVIOUS
  <2>1. ~on /\ spc = "none" /\ ~connected /\ "host" \notin torn
    BY DEF HostAuthOk
  <2>. QED  BY <2>1 DEF HostAuthOk, start_supervisor, Authenticate, CallEnds
<1>3. Joined => on /\ ~on' /\ ~is_connected' /\ ~recalled'
  BY DEF Joined
<1>4. AuthOk => /\ on /\ ~is_connected /\ is_connected' /\ ~gaveUp /\ ~gaveUp' /\ ~recalled'
  BY DEF AuthOk, Authenticate, CallEnds
<1>5. GivesUp => /\ on /\ on' /\ ~gaveUp /\ gaveUp' /\ ~is_connected /\ ~is_connected'
                 /\ ~recalled'
  BY DEF GivesUp
<1>. QED  BY <1>1, <1>2, <1>3, <1>4, <1>5

LEMMA SessionStep ==
  ASSUME SessionInv, [ManagerNext]_managerVars PROVE SessionInv'
<1>1. ManagerInv /\ ManagerInv'
  BY ManagerStep DEF SessionInv
<1>2. CASE hpc' = Dead
  BY <1>1, <1>2 DEF SessionInv, ManagerInv, HostInv
<1>3. CASE recalled
  <2>1. CASE Joined
    BY <1>1, <2>1 DEF SessionInv, Joined
  <2>2. CASE ~Joined
    BY <1>1, <1>3, <2>2, RecallLasts DEF SessionInv
  <2>. QED  BY <2>1, <2>2
<1>4. CASE hpc' # Dead /\ ~recalled
  <2>1. hpc # Dead
    BY <1>1, <1>4, RecallLasts
  <2>2. CASE Connect \/ HostAuthOk \/ Joined \/ AuthOk \/ GivesUp
    BY <1>1, <1>4, <2>1, <2>2, SeenStep DEF SessionInv
  <2>3. CASE ~(Connect \/ HostAuthOk \/ Joined \/ AuthOk \/ GivesUp)
    BY <1>1, <1>4, <2>3, QuietStep DEF SessionInv
  <2>. QED  BY <2>2, <2>3
<1>. QED  BY <1>2, <1>3, <1>4

(* What a step does to what the session is seen by.                          *)
LEMMA PhaseStep ==
  ASSUME SessionInv, SessionInv', [ManagerNext]_managerVars
  PROVE  [Session!Next]_phase
<1>. USE DEF Session!Next, Session!Connect, Session!Lose, Session!Restore, Session!GiveUp,
             Session!Recall, Session!End, Session!Crash
<1>0. ManagerInv /\ ManagerInv' /\ recalled \in BOOLEAN /\ recalled' \in BOOLEAN
  BY DEF SessionInv, ManagerInv, ManagerTypeOK
<1>1. CASE hpc = Dead
  BY <1>0, <1>1, RecallLasts DEF phase
<1>2. CASE hpc # Dead /\ hpc' = Dead
  BY <1>2 DEF phase
<1>3. CASE hpc # Dead /\ hpc' # Dead /\ recalled
  <2>1. CASE Joined
    BY <1>3, <2>1 DEF phase, Joined
  <2>2. CASE ~Joined
    BY <1>0, <1>3, <2>2, RecallLasts DEF phase
  <2>. QED  BY <2>1, <2>2
<1>4. CASE hpc # Dead /\ hpc' # Dead /\ ~recalled
  <2>0. is_connected => on /\ ~gaveUp
    BY <1>4 DEF SessionInv, ManagerInv, HostInv
  <2>. HIDE DEF is_connected
  <2>1. CASE Connect
    <3>1. recalled' = on /\ on' = on /\ gaveUp' = gaveUp /\ ~is_connected /\ ~is_connected'
      BY <1>4, <2>1, SeenStep DEF is_connected
    <3>. QED  BY <1>4, <3>1 DEF phase
  <2>2. CASE HostAuthOk
    BY <1>4, <2>2, SeenStep DEF phase
  <2>3. CASE Joined
    BY <1>4, <2>3, SeenStep DEF phase
  <2>4. CASE AuthOk
    BY <1>4, <2>4, SeenStep DEF phase
  <2>5. CASE GivesUp
    BY <1>4, <2>5, SeenStep DEF phase
  <2>6. CASE ~Connect /\ ~HostAuthOk /\ ~Joined /\ ~AuthOk /\ ~GivesUp
    BY <1>0, <1>4, <2>0, <2>6, QuietStep DEF phase
  <2>. QED  BY <2>1, <2>2, <2>3, <2>4, <2>5, <2>6
<1>. QED  BY <1>1, <1>2, <1>3, <1>4

(* pool_manager.hpp: every step of the manager is one that a session may     *)
(* take, or not seen, whatever the host calls and whenever.                  *)
THEOREM Refines == ManagerSpec => Session!Safety
<1>1. ManagerInit => SessionInv /\ Session!Init
  BY ManagerStarts DEF ManagerInit, SessionInv, Session!Init, phase
<1>2. SessionInv /\ [ManagerNext]_managerVars => SessionInv'
  BY SessionStep
<1>3. SessionInv /\ SessionInv' /\ [ManagerNext]_managerVars => [Session!Next]_phase
  BY PhaseStep
<1>. QED  BY <1>1, <1>2, <1>3, PTL DEF ManagerSpec, Session!Safety
=============================================================================

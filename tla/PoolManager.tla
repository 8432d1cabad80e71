----------------------------- MODULE PoolManager -----------------------------
(***************************************************************************)
(* PoolManager, src/pool/pool_manager.cpp: the host's thread, the solver's *)
(* thread that submits DPs, and the supervisor thread that restores a lost *)
(* connection with a client object of its own making.                      *)
(*                                                                         *)
(*   connected        connected_                                           *)
(*   client           client_: "none" (null), "fresh" (made), "open"       *)
(*                    (connect() succeeded), "authed", "lost" (the client  *)
(*                    found its connection gone), "closed" (disconnected)  *)
(*   hasWork          has_work_                                            *)
(*   submitted, dropped   submitted_count_, dropped_count_                 *)
(*   stop, gaveUp     supervisor_stop_, supervisor_gave_up_                *)
(*   spc, fails       the supervisor: where it is, consecutive_failures;   *)
(*                    "none" is a thread that is not joinable, "done" one  *)
(*                    that returned and was not joined                     *)
(*   hpc, dpc         where the host and the solver's thread are           *)
(*   torn             the threads in a call on a client object that        *)
(*                    another thread has destroyed since                   *)
(*   on, misses, offered, sessions   history: the host has a session,      *)
(*                    attempts that failed since the connection was last   *)
(*                    seen up, DPs offered, sessions started               *)
(*   recalled         history: connect() was called in a session that was  *)
(*                    not ended, with the connection down                  *)
(*                                                                         *)
(* client_ is not protected by a lock.  Replacing it destroys the object   *)
(* under a thread that is in a call on it; that call, and a call on null,  *)
(* may end the process ("dead"), and a torn call may also fail or succeed. *)
(*                                                                         *)
(* auto_reconnect is TRUE, its default. Delays are left out; how JLPClient *)
(* behaves inside is its own module's subject.                             *)
(***************************************************************************)
EXTENDS Integers

CONSTANTS
  MaxAttempts,   \* kMaxReconnectAttempts, 16 in the code
  MaxSessions,   \* bound: sessions the host starts
  MaxDPs         \* bound: DPs offered

ASSUME ManagerAssumption ==
  MaxAttempts \in Nat \ {0} /\ {MaxSessions, MaxDPs} \subseteq Nat

VARIABLES connected, client, hasWork, submitted, dropped, stop, gaveUp, spc, fails,
          hpc, dpc, torn, on, misses, offered, sessions, recalled

counts  == <<submitted, dropped, offered>>
flags   == <<stop, gaveUp>>
history == <<on, misses, sessions, recalled>>
managerVars == <<connected, client, hasWork, counts, flags, spc, fails, hpc, dpc,
                 torn, history>>

is_connected == connected /\ client \in {"open", "authed"}

(* The threads that are in a call on the object client_ points to.           *)
Threads == {"host", "supervisor", "solver"}
InClient ==
  {t \in Threads : \/ t = "host" /\ hpc \in {"dial", "auth", "ask"}
                   \/ t = "supervisor" /\ spc \in {"drop", "dial", "auth"}
                   \/ t = "solver" /\ dpc = "use"}

(* Thread t sets client_, and the object it pointed to is destroyed.         *)
Replace(t, with) ==
  /\ client' = with
  /\ torn' = IF client = "none" THEN torn ELSE torn \cup (InClient \ {t})

(* A call of thread t leaves its object as `left`, or has been torn and      *)
(* leaves the present one alone.                                             *)
Return(t) == torn' = torn \ {t}
CallEnds(t, left) ==
  /\ \/ client # "none" /\ client' = left
     \/ t \in torn /\ client' = client
  /\ Return(t)

(* authenticate() succeeds only on a connection that is open.                *)
Authenticate(t) == (t \in torn \/ client \in {"open", "authed"}) /\ CallEnds(t, "authed")

-----------------------------------------------------------------------------
(* The host: connect, get_work and disconnect.                               *)

start_supervisor ==
  IF spc = "none" THEN spc' = "probe" /\ fails' = 0 /\ stop' = FALSE /\ gaveUp' = FALSE
  ELSE UNCHANGED <<spc, fails, stop, gaveUp>>

(* connect() looks at connected_ and at nothing else: where it is set,       *)
(* connect() is Disconnect and Joined, and then this.                        *)
Connect ==
  /\ hpc = "idle" /\ ~connected /\ sessions < MaxSessions
  /\ recalled' = (recalled \/ on)
  /\ hpc' = "make"
  /\ UNCHANGED <<connected, client, hasWork, counts, flags, spc, fails, dpc, torn,
                 on, misses, sessions>>

HostMakes ==
  /\ hpc = "make"
  /\ Replace("host", "fresh")
  /\ hpc' = "dial"
  /\ UNCHANGED <<connected, hasWork, counts, flags, spc, fails, dpc, history>>

HostDials ==
  /\ hpc = "dial"
  /\ \/ CallEnds("host", "open") /\ hpc' = "auth"
     \/ CallEnds("host", "fresh") /\ hpc' = "idle"
  /\ UNCHANGED <<connected, hasWork, counts, flags, spc, fails, dpc, history>>

HostAuthOk ==
  /\ hpc = "auth"
  /\ Authenticate("host")
  /\ connected' = TRUE
  /\ submitted' = 0 /\ offered' = dropped + (IF dpc = "use" THEN 1 ELSE 0)
  /\ start_supervisor
  /\ on' = TRUE /\ misses' = 0 /\ sessions' = sessions + 1
  /\ hpc' = "idle"
  /\ UNCHANGED <<hasWork, dropped, dpc, recalled>>

(* It disconnects the client that client_ points to by then.                 *)
HostAuthFails ==
  /\ hpc = "auth" /\ client # "none"
  /\ client' = "closed" /\ Return("host")
  /\ hpc' = "idle"
  /\ UNCHANGED <<connected, hasWork, counts, flags, spc, fails, dpc, history>>

(* The assignment that is kept is returned, whichever client brought it;     *)
(* only when there is none is the server asked.                              *)
GetWork ==
  /\ hpc = "idle" /\ is_connected /\ ~hasWork
  /\ hpc' = "ask"
  /\ UNCHANGED <<connected, client, hasWork, counts, flags, spc, fails, dpc, torn,
                 history>>

GotWork ==
  /\ hpc = "ask"
  /\ \/ hasWork' = hasWork
     \/ hasWork' = TRUE /\ (client = "authed" \/ "host" \in torn)
  /\ Return("host")
  /\ hpc' = "idle"
  /\ UNCHANGED <<connected, client, counts, flags, spc, fails, dpc, history>>

Disconnect ==
  /\ hpc = "idle" /\ on
  /\ stop' = TRUE
  /\ hpc' = "join"
  /\ UNCHANGED <<connected, client, hasWork, counts, gaveUp, spc, fails, dpc, torn,
                 history>>

Joined_Detaches ==    \* mutant: the supervisor is left to stop by itself
  /\ hpc = "join"
  /\ Replace("host", "none") /\ connected' = FALSE
  /\ on' = FALSE /\ recalled' = FALSE
  /\ hpc' = "idle"
  /\ UNCHANGED <<hasWork, counts, flags, spc, fails, dpc, misses, sessions>>

Joined ==
  /\ hpc = "join" /\ spc \in {"none", "done"}
  /\ spc' = "none"
  /\ Replace("host", "none") /\ connected' = FALSE
  /\ on' = FALSE /\ recalled' = FALSE
  /\ hpc' = "idle"
  /\ UNCHANGED <<hasWork, counts, flags, fails, dpc, misses, sessions>>

-----------------------------------------------------------------------------
(* The solver's thread: submit_dp looks at is_connected and then uses        *)
(* client_, which may be null or another object by then.                     *)

SubmitDown ==
  /\ dpc = "idle" /\ offered < MaxDPs /\ sessions > 0
  /\ ~is_connected
  /\ offered' = offered + 1 /\ dropped' = dropped + 1
  /\ UNCHANGED <<connected, client, hasWork, submitted, flags, spc, fails, hpc,
                 dpc, torn, history>>

SubmitUp ==
  /\ dpc = "idle" /\ offered < MaxDPs /\ is_connected
  /\ offered' = offered + 1
  /\ dpc' = "use"
  /\ UNCHANGED <<connected, client, hasWork, submitted, dropped, flags, spc,
                 fails, hpc, torn, history>>

(* client_->submit_dp returns, to the present object or to a destroyed one.  *)
SubmitReturns ==
  /\ dpc = "use" /\ (client # "none" \/ "solver" \in torn)
  /\ Return("solver")
  /\ dpc' = "idle"

Submitted ==
  /\ SubmitReturns
  /\ submitted' = submitted + 1
  /\ UNCHANGED <<connected, client, hasWork, dropped, offered, flags, spc,
                 fails, hpc, history>>

QueueFull_Silent ==    \* mutant: a refused DP is not counted
  /\ SubmitReturns
  /\ UNCHANGED <<connected, client, hasWork, counts, flags, spc, fails, hpc, history>>

QueueFull ==
  /\ SubmitReturns
  /\ dropped' = dropped + 1
  /\ UNCHANGED <<connected, client, hasWork, submitted, offered, flags, spc,
                 fails, hpc, history>>

(* A call on a destroyed object, or on null, ends the process.               *)
Dead == "dead"
ProcessDies ==
  /\ torn # {} \/ (client = "none" /\ InClient # {})
  /\ hpc' = Dead /\ dpc' = Dead /\ spc' = Dead /\ client' = "none" /\ torn' = {}
  /\ UNCHANGED <<connected, hasWork, counts, flags, fails, history>>

-----------------------------------------------------------------------------
(* The supervisor: it probes every 500 ms, and when the client is not        *)
(* connected waits, destroys it, makes a fresh one, and connects that.       *)

SupervisorStops ==
  /\ spc \in {"probe", "backoff"} /\ stop
  /\ spc' = "done"
  /\ UNCHANGED <<connected, client, hasWork, counts, flags, fails, hpc, dpc, torn,
                 history>>

Healthy ==
  /\ spc = "probe" /\ ~stop /\ is_connected
  /\ fails' = 0 /\ misses' = 0
  /\ UNCHANGED <<connected, client, hasWork, counts, flags, spc, hpc, dpc, torn,
                 on, sessions, recalled>>

Enough_OffByOne == fails > MaxAttempts    \* mutant: one attempt more

Enough == fails >= MaxAttempts

GivesUp ==
  /\ spc = "probe" /\ ~stop /\ ~is_connected /\ Enough
  /\ gaveUp' = TRUE
  /\ spc' = "done"
  /\ UNCHANGED <<connected, client, hasWork, counts, stop, fails, hpc, dpc, torn,
                 history>>

Retries ==
  /\ spc = "probe" /\ ~stop /\ ~is_connected /\ ~Enough
  /\ spc' = "backoff"
  /\ UNCHANGED <<connected, client, hasWork, counts, flags, fails, hpc, dpc, torn,
                 history>>

TearsDown ==
  /\ spc = "backoff" /\ ~stop
  /\ client' = "closed"
  /\ spc' = "drop"
  /\ UNCHANGED <<connected, hasWork, counts, flags, fails, hpc, dpc, torn, history>>

(* The disconnect() of the old client has returned, and the client is reset. *)
Resets ==
  /\ spc = "drop"
  /\ client' = "none" /\ torn' = (torn \cup InClient) \ {"supervisor"}
  /\ spc' = "clear"
  /\ UNCHANGED <<connected, hasWork, counts, flags, fails, hpc, dpc, history>>

Clears ==
  /\ spc = "clear"
  /\ connected' = FALSE
  /\ spc' = "make"
  /\ UNCHANGED <<client, hasWork, counts, flags, fails, hpc, dpc, torn, history>>

Renews ==
  /\ spc = "make"
  /\ Replace("supervisor", "fresh")
  /\ spc' = "dial"
  /\ UNCHANGED <<connected, hasWork, counts, flags, fails, hpc, dpc, history>>

Missed_NotCounted ==    \* mutant: an attempt that fails is not counted
  fails' = fails /\ misses' = misses /\ spc' = "probe"

Missed == fails' = fails + 1 /\ misses' = misses + 1 /\ spc' = "probe"

Dials ==
  /\ spc = "dial"
  /\ CallEnds("supervisor", "open")
  /\ spc' = "auth"
  /\ UNCHANGED <<connected, hasWork, counts, flags, fails, hpc, dpc, history>>

DialFails ==
  /\ spc = "dial"
  /\ CallEnds("supervisor", "fresh")
  /\ Missed
  /\ UNCHANGED <<connected, hasWork, counts, flags, hpc, dpc, on, sessions, recalled>>

AuthOk ==
  /\ spc = "auth"
  /\ Authenticate("supervisor")
  /\ connected' = TRUE
  /\ fails' = 0 /\ misses' = 0
  /\ spc' = "probe"
  /\ UNCHANGED <<hasWork, counts, flags, hpc, dpc, on, sessions, recalled>>

AuthFails ==
  /\ spc = "auth" /\ client # "none"
  /\ client' = "closed" /\ Return("supervisor")
  /\ Missed
  /\ UNCHANGED <<connected, hasWork, counts, flags, hpc, dpc, on, sessions, recalled>>

(* The client's own threads: the connection ends, or WORK_ASN arrives.       *)
Lost ==
  /\ client \in {"open", "authed"}
  /\ client' = "lost"
  /\ UNCHANGED <<connected, hasWork, counts, flags, spc, fails, hpc, dpc, torn, history>>

WorkArrives ==
  /\ client = "authed"
  /\ hasWork' = TRUE
  /\ UNCHANGED <<connected, client, counts, flags, spc, fails, hpc, dpc, torn, history>>

-----------------------------------------------------------------------------
ManagerInit ==
  /\ connected = FALSE /\ client = "none" /\ hasWork = FALSE
  /\ submitted = 0 /\ dropped = 0 /\ offered = 0
  /\ stop = FALSE /\ gaveUp = FALSE /\ spc = "none" /\ fails = 0
  /\ hpc = "idle" /\ dpc = "idle" /\ torn = {}
  /\ on = FALSE /\ misses = 0 /\ sessions = 0 /\ recalled = FALSE

HostCalls == Connect \/ GetWork \/ Disconnect
HostGoes  == HostMakes \/ HostDials \/ HostAuthOk \/ HostAuthFails \/ GotWork \/ Joined
Solver    == SubmitDown \/ SubmitUp \/ Submitted \/ QueueFull
Supervisor ==
  \/ SupervisorStops \/ Healthy \/ GivesUp \/ Retries \/ TearsDown \/ Resets \/ Clears
  \/ Renews \/ Dials \/ DialFails \/ AuthOk \/ AuthFails
Client == Lost \/ WorkArrives

ManagerNext == HostCalls \/ HostGoes \/ Solver \/ Supervisor \/ Client \/ ProcessDies

ManagerSpec == ManagerInit /\ [][ManagerNext]_managerVars

(* Threads are scheduled, and connect, authenticate and request_work have    *)
(* time limits. That the host makes a call is not assumed.                   *)
FairManagerSpec == ManagerSpec /\ WF_managerVars(HostGoes) /\ WF_managerVars(Supervisor)

-----------------------------------------------------------------------------
(* Every variable has its type; the supervisor never tries more often than   *)
(* kMaxReconnectAttempts.                                                    *)
ManagerTypeOK ==
  /\ {connected, hasWork, stop, gaveUp, on, recalled} \subseteq BOOLEAN
  /\ client \in {"none", "fresh", "open", "authed", "lost", "closed"}
  /\ spc \in {"none", "probe", "backoff", "drop", "clear", "make", "dial", "auth",
              "done", Dead}
  /\ hpc \in {"idle", "make", "dial", "auth", "ask", "join", Dead}
  /\ dpc \in {"idle", "use", Dead}
  /\ torn \subseteq Threads
  /\ {fails, misses} \subseteq 0 .. MaxAttempts
  /\ {submitted, dropped, offered, sessions} \subseteq Nat

(* connect, disconnect and supervisor_loop all replace client_ without a     *)
(* lock.  The supervisor and a connect() of the host are at it together only *)
(* after connect() was called in a session nobody ended, while the           *)
(* connection was down: connect() looks at connected_ (:40), which the       *)
(* supervisor clears, and not at the supervisor, and run_pool_mode leaves a  *)
(* session without disconnect (pool_solver.cpp:205, :244).  In every other   *)
(* session a call torn from below is get_work or submit_dp.  And once the    *)
(* host has disconnected nothing is left running or connected, after such a  *)
(* connect() too.                                                            *)
OneOwner ==
  /\ hpc \in {"make", "dial", "auth"} /\ spc \in {"drop", "clear", "make", "dial", "auth"} =>
       recalled
  /\ ~recalled => "supervisor" \notin torn /\ ("host" \in torn => hpc = "ask")
  /\ hpc = "idle" /\ ~on => spc = "none" /\ ~is_connected

(* supervisor_loop: it gives up only after kMaxReconnectAttempts attempts in *)
(* a row failed, counted from the last moment the connection was seen up; a  *)
(* connect() of the host beside it brings the connection up and leaves       *)
(* consecutive_failures as it is.                                            *)
GivesUpLate == [][gaveUp' /\ ~gaveUp => misses >= MaxAttempts \/ recalled]_managerVars

(* get_submitted_count, get_dropped_count: in a session each DP the solver   *)
(* offered is counted in exactly one of the two, whatever the supervisor or  *)
(* a second connect() does to the client between the check and the           *)
(* hand-over, as long as that does not end the process.                      *)
EveryDPCounted == dpc = "idle" => submitted + dropped = offered

(* pool_manager.hpp: the reconnect supervisor. The manager keeps the promise *)
(* of PoolSession, and so restores a lost session or gives it up; after a    *)
(* connect() in a session that is down it promises nothing until disconnect. *)
phase == IF hpc = Dead THEN "dead"
         ELSE IF recalled THEN "void"
         ELSE IF is_connected THEN "up"
         ELSE IF ~on THEN "off"
         ELSE IF gaveUp THEN "gaveUp"
         ELSE "down"
Session == INSTANCE PoolSession WITH state <- phase
SessionSpec == Session!Spec

=============================================================================

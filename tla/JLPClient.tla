------------------------------ MODULE JLPClient ------------------------------
(***************************************************************************)
(* One JLPPoolClient object, src/pool/jlp_pool_client.cpp: the thread that *)
(* calls its interface, its receiver thread and its sender thread.         *)
(*                                                                         *)
(* The threads share the atomics connected_, running_ and auth_state_, the *)
(* assignment under work_mutex_, the queue under dp_mutex_ and the TLS     *)
(* object.  A step is what a thread does under one lock or with one atomic *)
(* variable; what it copied under a lock it may use after the others ran.  *)
(*                                                                         *)
(*   sock, tls     socket_ is open; ssl_ is allocated                      *)
(*   connected, running, auth       connected_, running_, auth_state_      *)
(*   work, received, seqNext        current_work_.work_id, work_received_, *)
(*                                  dp_sequence_next_                      *)
(*   queue         dp_queue_, as the numbers of the DPs accepted           *)
(*   solFound, solFired, workFired  solution_found_ and the keys by which  *)
(*                                  callbacks are not called twice         *)
(*   rpc, frame, gate   receiver: where it is, the frame it handles, and   *)
(*                      the auth_state_ it read for it                     *)
(*   spc, snap, batch   sender: where it is, the assignment it copied, and *)
(*                      the DPs it drained                                 *)
(*   mpc, req      caller: where it is, the frame it sends                 *)
(*   peer, inbox, asked, issued     the server's side of the connection:   *)
(*                 it is up, frames on their way, requests not answered,   *)
(*                 work ids handed out                                     *)
(*   made, drafts, sent, okSeen, broke, conns   history: DPs               *)
(*                 accepted, DPs tagged, DPs on the wire, AUTH_OK handled  *)
(*                 on this connection, some side ended a connection,       *)
(*                 connections made                                        *)
(*                                                                         *)
(* auto_reconnect_ is TRUE, as PoolManager sets it.  Statistics and the    *)
(* attempt counters are left out: nothing here depends on them.            *)
(***************************************************************************)
EXTENDS Integers, Sequences, FiniteSets

CONSTANTS
  MaxQueue,     \* MAX_DP_QUEUE_SIZE
  MaxBatch,     \* DPs of one DP_BATCH_V2 frame, 100 in the code
  Garbage,      \* values an uninitialized work_id may have
  MaxDPs,       \* bound: DPs accepted
  MaxWork,      \* bound: work ids the server hands out, 1 .. MaxWork
  MaxFrames,    \* bound: frames on their way, requests not answered
  Unasked,      \* whether the server also sends frames nobody asked for
  MaxConns      \* bound: connections made

ASSUME ClientAssumption ==
  /\ {MaxQueue, MaxBatch} \subseteq Nat \ {0}
  /\ {MaxDPs, MaxWork, MaxFrames, MaxConns} \subseteq Nat /\ Unasked \in BOOLEAN
  /\ Garbage \subseteq Nat /\ Garbage # {} /\ Garbage \cap (1 .. MaxWork) = {}

VARIABLES
  sock, tls, connected, running, auth, work, received, seqNext, queue,
  solFound, solFired, workFired, rpc, frame, gate, spc, snap, batch, mpc, req,
  peer, inbox, asked, issued, made, drafts, sent, okSeen, broke, conns

link      == <<sock, tls, connected, running>>
assigned  == <<work, received, seqNext>>
callbacks == <<solFound, solFired, workFired>>
receiver  == <<rpc, frame, gate>>
sender    == <<spc, snap, batch>>
caller    == <<mpc, req>>
server    == <<peer, inbox, asked, issued>>
dpHistory == <<made, drafts, sent>>
marks     == <<okSeen, broke, conns>>
vars == <<link, auth, assigned, queue, callbacks, receiver, sender, caller,
          server, dpHistory, marks>>

NoFrame == [type |-> "none", id |-> 0]
NoSnap  == [work |-> 0, seq |-> 0]
NoWork  == -1    \* last_work_id_fired_ before the first callback

-----------------------------------------------------------------------------
(* send_message, for the two threads that write. connected_ and socket_ are  *)
(* looked at first; ssl_write_mutex_ is taken later; then the frame goes to  *)
(* the TLS object. A write may fail at any time and clears connected_; one   *)
(* to a peer that is gone may still succeed. PING, STATS_REQ and PONG are    *)
(* frames that neither side's modelled state depends on.                     *)

Open    == connected /\ sock
Writing == spc = "writing" \/ mpc = "writing"

WriteOk == sock /\ (peer => Len(asked) < MaxFrames)

Deliver(type) == asked' = IF peer THEN Append(asked, type) ELSE asked

WriteFailed == connected' = FALSE /\ broke' = TRUE

-----------------------------------------------------------------------------
(* The caller: connect, authenticate, request_work, report_solution and      *)
(* disconnect.  connect on a connected client first runs disconnect; a lost  *)
(* client is connected again only after disconnect, as PoolManager does.     *)

Stopped(pc) == pc \in {"none", "done"}

Connect ==
  /\ mpc = "idle" /\ ~connected
  /\ rpc = "none" /\ spc = "none"
  /\ auth' = "CONNECTING" /\ mpc' = "connecting"
  /\ UNCHANGED <<link, assigned, queue, callbacks, receiver, sender, req,
                 server, dpHistory, marks>>

ConnectFailed ==
  /\ mpc = "connecting"
  /\ auth' = "DISCONNECTED" /\ mpc' = "idle"
  /\ UNCHANGED <<link, assigned, queue, callbacks, receiver, sender, req,
                 server, dpHistory, marks>>

ConnectOk ==
  /\ mpc = "connecting" /\ conns < MaxConns
  /\ sock' = TRUE /\ tls' = TRUE /\ connected' = TRUE /\ running' = TRUE
  /\ rpc' = "recv" /\ spc' = "wait" /\ mpc' = "fresh"
  /\ peer' = TRUE /\ inbox' = <<>> /\ asked' = <<>>
  /\ okSeen' = FALSE /\ conns' = conns + 1
  /\ UNCHANGED <<auth, assigned, queue, callbacks, frame, gate, snap, batch,
                 req, issued, dpHistory, broke>>

Authenticate ==
  /\ mpc = "fresh"
  /\ auth' = "AUTH_SENT" /\ req' = "AUTH" /\ mpc' = "send"
  /\ UNCHANGED <<link, assigned, queue, callbacks, receiver, sender, server,
                 dpHistory, marks>>

Ask(type) ==
  /\ mpc = "idle" /\ conns > 0
  /\ req' = type /\ mpc' = "send"
  /\ UNCHANGED <<link, auth, assigned, queue, callbacks, receiver, sender,
                 server, dpHistory, marks>>

RequestWork    == Ask("WORK_REQ")
ReportSolution == Ask("SOLUTION")

CallerChecks ==
  /\ mpc = "send" /\ Open
  /\ mpc' = "lock"
  /\ UNCHANGED <<link, auth, assigned, queue, callbacks, receiver, sender, req,
                 server, dpHistory, marks>>

CallerLocks ==
  /\ mpc = "lock" /\ ~Writing
  /\ mpc' = "writing"
  /\ UNCHANGED <<link, auth, assigned, queue, callbacks, receiver, sender, req,
                 server, dpHistory, marks>>

(* A failed AUTH resets the state to DISCONNECTED. *)
CallerFails ==
  /\ \/ mpc = "send" /\ ~Open /\ UNCHANGED <<connected, broke>>
     \/ mpc = "writing" /\ WriteFailed
  /\ auth' = IF req = "AUTH" THEN "DISCONNECTED" ELSE auth
  /\ mpc' = "idle"
  /\ UNCHANGED <<sock, tls, running, assigned, queue, callbacks, receiver,
                 sender, req, server, dpHistory, okSeen, conns>>

CallerWrote ==
  /\ mpc = "writing" /\ WriteOk
  /\ Deliver(req)
  /\ mpc' = IF req = "SOLUTION" THEN "idle" ELSE "answer"
  /\ UNCHANGED <<link, auth, assigned, queue, callbacks, receiver, sender, req,
                 peer, inbox, issued, dpHistory, marks>>

(* authenticate ends when the receiver has an answer, or after 10 s;         *)
(* request_work when there is an assignment, or after timeout_ms_.           *)
CallerReturns ==
  /\ mpc = "answer"
  /\ mpc' = "idle"
  /\ UNCHANGED <<link, auth, assigned, queue, callbacks, receiver, sender, req,
                 server, dpHistory, marks>>

(* mutant: running_ is left set *)
Disconnect_Running ==
  /\ mpc \in {"idle", "fresh"} /\ conns > 0 /\ rpc # "none"
  /\ connected' = FALSE /\ sock' = FALSE
  /\ auth' = "DISCONNECTED"
  /\ peer' = FALSE /\ broke' = TRUE
  /\ mpc' = "join"
  /\ UNCHANGED <<running, tls, assigned, queue, callbacks, receiver, sender,
                 req, inbox, asked, issued, dpHistory, okSeen, conns>>

Disconnect ==
  /\ mpc \in {"idle", "fresh"} /\ conns > 0 /\ rpc # "none"
  /\ running' = FALSE /\ connected' = FALSE /\ sock' = FALSE
  /\ auth' = "DISCONNECTED"
  /\ peer' = FALSE /\ broke' = TRUE
  /\ mpc' = "join"
  /\ UNCHANGED <<tls, assigned, queue, callbacks, receiver, sender, req, inbox,
                 asked, issued, dpHistory, okSeen, conns>>

(* Both threads are joined; only then the TLS object goes. *)
Joined ==
  /\ mpc = "join" /\ Stopped(rpc) /\ Stopped(spc)
  /\ rpc' = "none" /\ spc' = "none" /\ tls' = FALSE
  /\ mpc' = "idle"
  /\ UNCHANGED <<sock, connected, running, auth, assigned, queue, callbacks,
                 frame, gate, snap, batch, req, server, dpHistory, marks>>

(* mutant: a batch is let in whenever the queue is not full *)
Submit_Overfull(n) ==
  /\ connected /\ okSeen /\ made + n <= MaxDPs
  /\ Len(queue) < MaxQueue
  /\ queue' = queue \o [i \in 1 .. n |-> made + i]
  /\ made' = made + n
  /\ UNCHANGED <<link, auth, assigned, callbacks, receiver, sender, caller,
                 server, drafts, sent, marks>>

(* submit_dp and submit_dps, from the solver's thread, of n DPs; all are     *)
(* refused when they do not fit. PoolManager calls them on a client that is  *)
(* connected and has authenticated.                                          *)
Submit(n) ==
  /\ connected /\ okSeen /\ made + n <= MaxDPs
  /\ Len(queue) + n <= MaxQueue
  /\ queue' = queue \o [i \in 1 .. n |-> made + i]
  /\ made' = made + n
  /\ UNCHANGED <<link, auth, assigned, callbacks, receiver, sender, caller,
                 server, drafts, sent, marks>>

-----------------------------------------------------------------------------
(* The receiver thread. receive_message returns a frame, and auth_state_ is  *)
(* read for it before the frame is looked at; a timeout changes nothing.     *)

RecvFrame ==
  /\ rpc = "recv" /\ Open /\ inbox # <<>>
  /\ frame' = Head(inbox) /\ inbox' = Tail(inbox)
  /\ gate' = auth
  /\ rpc' = "handle"
  /\ UNCHANGED <<link, auth, assigned, queue, callbacks, sender, caller, peer,
                 asked, issued, dpHistory, marks>>

(* The peer is gone, a payload comes too late, or the magic is wrong. The    *)
(* TLS object is freed here, under no mutex; then the socket is closed.      *)
RecvLost ==
  /\ rpc = "recv" /\ connected
  /\ tls' = FALSE /\ broke' = TRUE
  /\ rpc' = "lost"
  /\ UNCHANGED <<sock, connected, running, auth, assigned, queue, callbacks,
                 frame, gate, sender, caller, server, dpHistory, okSeen,
                 conns>>

RecvCloses ==
  /\ rpc = "lost"
  /\ sock' = FALSE /\ connected' = FALSE /\ auth' = "DISCONNECTED"
  /\ peer' = FALSE
  /\ rpc' = "backoff"
  /\ UNCHANGED <<tls, running, assigned, queue, callbacks, frame, gate, sender,
                 caller, inbox, asked, issued, dpHistory, marks>>

(* After the backoff delay, or at once after MAX_AUTH_FAIL_ATTEMPTS. *)
RecvGivesUp ==
  /\ rpc = "backoff"
  /\ running' = FALSE
  /\ rpc' = "done"
  /\ UNCHANGED <<sock, tls, connected, auth, assigned, queue, callbacks, frame,
                 gate, sender, caller, server, dpHistory, marks>>

RecvExits ==
  /\ rpc = "recv" /\ ~(running /\ connected)
  /\ rpc' = "done"
  /\ UNCHANGED <<link, auth, assigned, queue, callbacks, frame, gate, sender,
                 caller, server, dpHistory, marks>>

Handling(types) == rpc = "handle" /\ frame.type \in types
Handled         == rpc' = "recv" /\ frame' = NoFrame /\ gate' = "DISCONNECTED"

Allowed == frame.type \in {"AUTH_OK", "AUTH_FAIL", "MSG_ERROR"} \/ gate = "AUTH_OK"

Ignore ==
  /\ rpc = "handle" /\ ~Allowed
  /\ Handled
  /\ UNCHANGED <<link, auth, assigned, queue, callbacks, sender, caller,
                 server, dpHistory, marks>>

WorkAsn ==
  /\ Handling({"WORK_ASN"}) /\ Allowed
  /\ work' = frame.id /\ received' = TRUE /\ seqNext' = 0
  /\ rpc' = "fire"
  /\ UNCHANGED <<link, auth, queue, callbacks, frame, gate, sender, caller,
                 server, dpHistory, marks>>

Solution ==
  /\ Handling({"SOLUTION"}) /\ Allowed
  /\ solFound' = TRUE
  /\ rpc' = "fire"
  /\ UNCHANGED <<link, auth, assigned, queue, solFired, workFired, frame,
                 gate, sender, caller, server, dpHistory, marks>>

FireWork ==
  /\ rpc = "fire" /\ frame.type = "WORK_ASN"
  /\ workFired' = frame.id
  /\ Handled
  /\ UNCHANGED <<link, auth, assigned, queue, solFound, solFired, sender,
                 caller, server, dpHistory, marks>>

(* The server knows one key, so every SOLUTION carries the same bytes. *)
FireSolution ==
  /\ rpc = "fire" /\ frame.type = "SOLUTION"
  /\ solFired' = TRUE
  /\ Handled
  /\ UNCHANGED <<link, auth, assigned, queue, solFound, workFired, sender,
                 caller, server, dpHistory, marks>>

AuthOk ==
  /\ Handling({"AUTH_OK"})
  /\ auth' = "AUTH_OK" /\ okSeen' = TRUE
  /\ Handled
  /\ UNCHANGED <<link, assigned, queue, callbacks, sender, caller, server,
                 dpHistory, broke, conns>>

AuthFail ==
  /\ Handling({"AUTH_FAIL"})
  /\ auth' = "AUTH_FAILED" /\ connected' = FALSE
  /\ broke' = TRUE
  /\ Handled
  /\ UNCHANGED <<sock, tls, running, assigned, queue, callbacks, sender,
                 caller, server, dpHistory, okSeen, conns>>

(* An error before the answer to AUTH counts as its answer. *)
MsgError ==
  /\ Handling({"MSG_ERROR"})
  /\ auth' = IF gate = "AUTH_SENT" THEN "AUTH_FAILED" ELSE auth
  /\ Handled
  /\ UNCHANGED <<link, assigned, queue, callbacks, sender, caller, server,
                 dpHistory, marks>>

-----------------------------------------------------------------------------
(* The sender thread: wait at most 100 ms for DPs, copy the assignment,      *)
(* drain and tag a batch, advance the sequence, then send the batch or drop  *)
(* it, and from time to time a STATS_REQ or a PING.                          *)

Snapshot ==
  /\ spc = "wait" /\ running
  /\ snap' = [work |-> work, seq |-> seqNext]
  /\ spc' = "drain"
  /\ UNCHANGED <<link, auth, assigned, queue, callbacks, receiver, batch,
                 caller, server, dpHistory, marks>>

SenderExits ==
  /\ spc = "wait" /\ ~running
  /\ spc' = "done"
  /\ UNCHANGED <<link, auth, assigned, queue, callbacks, receiver, snap, batch,
                 caller, server, dpHistory, marks>>

Drain ==
  /\ spc = "drain"
  /\ LET n == IF Len(queue) < MaxBatch THEN Len(queue) ELSE MaxBatch
     IN  /\ batch' = SubSeq(queue, 1, n)
         /\ queue' = SubSeq(queue, n + 1, Len(queue))
         /\ drafts' = drafts \o
              [i \in 1 .. n |-> [work |-> snap.work, seq |-> snap.seq + i - 1]]
         /\ IF n = 0 THEN spc' = "keepalive" /\ snap' = NoSnap
                     ELSE spc' = "advance" /\ UNCHANGED snap
  /\ UNCHANGED <<link, auth, assigned, callbacks, receiver, caller, server,
                 made, sent, marks>>

SameWork_Always == TRUE    \* mutant: the counter is advanced whatever came

(* Another assignment may have come since: its counter is left alone. *)
SameWork == work = snap.work

Advance ==
  /\ spc = "advance"
  /\ seqNext' = IF SameWork THEN snap.seq + Len(batch) ELSE seqNext
  /\ snap' = NoSnap
  /\ spc' = "post"
  /\ UNCHANGED <<link, auth, work, received, queue, callbacks, receiver, batch,
                 caller, server, dpHistory, marks>>

MayPost == Open /\ auth = "AUTH_OK"

PostBatch ==
  /\ spc = "post" /\ MayPost
  /\ spc' = "lock"
  /\ UNCHANGED <<link, auth, assigned, queue, callbacks, receiver, snap, batch,
                 caller, server, dpHistory, marks>>

(* mutant: a batch is dropped when the mutex is busy *)
DropBatch_Busy ==
  /\ spc = "post" /\ (~MayPost \/ Writing)
  /\ batch' = <<>>
  /\ spc' = "keepalive"
  /\ UNCHANGED <<link, auth, assigned, queue, callbacks, receiver, snap,
                 caller, server, dpHistory, marks>>

DropBatch ==
  /\ spc = "post" /\ ~MayPost
  /\ batch' = <<>>
  /\ spc' = "keepalive"
  /\ UNCHANGED <<link, auth, assigned, queue, callbacks, receiver, snap,
                 caller, server, dpHistory, marks>>

(* When 10 or 20 s have passed; this frame finds batch empty. *)
Keepalive ==
  /\ spc = "keepalive"
  /\ \/ MayPost /\ spc' = "lock"
     \/ spc' = "wait"
  /\ UNCHANGED <<link, auth, assigned, queue, callbacks, receiver, snap, batch,
                 caller, server, dpHistory, marks>>

SenderLocks ==
  /\ spc = "lock" /\ ~Writing
  /\ spc' = "writing"
  /\ UNCHANGED <<link, auth, assigned, queue, callbacks, receiver, snap, batch,
                 caller, server, dpHistory, marks>>

AfterWrite == IF batch = <<>> THEN "wait" ELSE "keepalive"

(* mutant: the batch of a failed write goes back into the queue *)
SenderFails_Requeues ==
  /\ spc = "writing" /\ WriteFailed
  /\ queue' = queue \o batch /\ batch' = <<>>
  /\ spc' = AfterWrite
  /\ UNCHANGED <<sock, tls, running, auth, assigned, callbacks, receiver, snap,
                 caller, server, dpHistory, okSeen, conns>>

(* The result of the write is not looked at: the batch is gone. *)
SenderFails ==
  /\ spc = "writing" /\ WriteFailed
  /\ batch' = <<>>
  /\ spc' = AfterWrite
  /\ UNCHANGED <<sock, tls, running, auth, assigned, queue, callbacks,
                 receiver, snap, caller, server, dpHistory, okSeen, conns>>

SenderWrote ==
  /\ spc = "writing" /\ WriteOk
  /\ IF batch = <<>> THEN UNCHANGED asked ELSE Deliver("DP_BATCH")
  /\ sent' = sent \o batch
  /\ batch' = <<>>
  /\ spc' = AfterWrite
  /\ UNCHANGED <<link, auth, assigned, queue, callbacks, receiver, snap,
                 caller, peer, inbox, issued, made, drafts, marks>>

-----------------------------------------------------------------------------
(* The server and the network, as server.py answers: one request after the   *)
(* other.  SOLUTION and DP_BATCH need no answer a client acts on, but a      *)
(* DP_BATCH may be answered with the solution, or with work.                 *)

Answers(request) ==
  CASE request = "AUTH"     -> {"AUTH_OK", "AUTH_FAIL"}
    [] request = "WORK_REQ" -> {"WORK_ASN", "SOLUTION", "MSG_ERROR"}
    [] request = "DP_BATCH" -> {"DP_ACK", "WORK_ASN", "SOLUTION"}
    [] request = "SOLUTION" -> {"DP_ACK"}

Post(type) ==
  /\ inbox' = IF type = "DP_ACK" THEN inbox
              ELSE Append(inbox, [type |-> type,
                                  id |-> IF type = "WORK_ASN" THEN issued + 1 ELSE 0])
  /\ type = "WORK_ASN" => issued < MaxWork
  /\ issued' = IF type = "WORK_ASN" THEN issued + 1 ELSE issued

Answer ==
  /\ peer /\ asked # <<>> /\ Len(inbox) < MaxFrames
  /\ asked' = Tail(asked)
  /\ \E type \in Answers(Head(asked)) : Post(type)
  /\ UNCHANGED <<link, auth, assigned, queue, callbacks, receiver, sender,
                 caller, peer, dpHistory, marks>>

(* A frame nobody asked for, in any state of the login. *)
Stray ==
  /\ peer /\ Unasked /\ Len(inbox) < MaxFrames
  /\ \E type \in {"WORK_ASN", "SOLUTION", "MSG_ERROR"} : Post(type)
  /\ UNCHANGED <<link, auth, assigned, queue, callbacks, receiver, sender,
                 caller, peer, asked, dpHistory, marks>>

PeerCloses ==
  /\ peer
  /\ peer' = FALSE /\ broke' = TRUE
  /\ UNCHANGED <<link, auth, assigned, queue, callbacks, receiver, sender,
                 caller, inbox, asked, issued, dpHistory, okSeen,
                 conns>>

-----------------------------------------------------------------------------
Init ==
  /\ sock = FALSE /\ tls = FALSE /\ connected = FALSE /\ running = FALSE
  /\ auth = "DISCONNECTED"
  /\ work \in Garbage /\ received = FALSE /\ seqNext = 0
  /\ queue = <<>>
  /\ solFound = FALSE /\ solFired = FALSE /\ workFired = NoWork
  /\ rpc = "none" /\ frame = NoFrame /\ gate = "DISCONNECTED"
  /\ spc = "none" /\ snap = NoSnap /\ batch = <<>>
  /\ mpc = "idle" /\ req = "AUTH"
  /\ peer = FALSE /\ inbox = <<>> /\ asked = <<>> /\ issued = 0
  /\ made = 0 /\ drafts = <<>> /\ sent = <<>>
  /\ okSeen = FALSE /\ broke = FALSE /\ conns = 0

Receiver ==
  \/ RecvFrame \/ RecvLost \/ RecvCloses \/ RecvGivesUp \/ RecvExits
  \/ Ignore \/ WorkAsn \/ Solution \/ FireWork \/ FireSolution
  \/ AuthOk \/ AuthFail \/ MsgError

Sender ==
  \/ Snapshot \/ SenderExits \/ Drain \/ Advance \/ PostBatch \/ DropBatch
  \/ Keepalive \/ SenderLocks \/ SenderFails \/ SenderWrote

(* What the caller starts, and what a call it has made does next. *)
Calls ==
  \/ Connect \/ Authenticate \/ RequestWork \/ ReportSolution \/ Disconnect
  \/ \E n \in 1 .. 2 : Submit(n)

InCall ==
  \/ ConnectFailed \/ ConnectOk \/ CallerChecks \/ CallerLocks
  \/ CallerFails \/ CallerWrote \/ CallerReturns \/ Joined

Network == Answer \/ Stray \/ PeerCloses

Next == Receiver \/ Sender \/ Calls \/ InCall \/ Network

Spec == Init /\ [][Next]_vars

(* Threads are scheduled and the server answers; a writer gets the mutex     *)
(* again and again and is not passed over for ever.  That the caller makes   *)
(* another call, or that a connection ends, is never assumed.                *)
FairSpec ==
  /\ Spec
  /\ WF_vars(Receiver) /\ WF_vars(Sender) /\ WF_vars(InCall) /\ WF_vars(Answer)
  /\ SF_vars(SenderLocks) /\ SF_vars(CallerLocks)

-----------------------------------------------------------------------------
(* Every variable has its type; a work id is only received when issued.      *)
Writer  == {"lock", "writing"}
TypeOK ==
  /\ {sock, tls, connected, running, received, solFound, solFired, peer, okSeen, broke}
       \subseteq BOOLEAN
  /\ {auth, gate} \subseteq {"DISCONNECTED", "CONNECTING", "AUTH_SENT", "AUTH_OK",
                             "AUTH_FAILED"}
  /\ IF received THEN work \in 1 .. issued ELSE work \in Garbage
  /\ {seqNext, snap.seq} \subseteq 0 .. MaxDPs
  /\ rpc \in {"none", "recv", "handle", "fire", "lost", "backoff", "done"}
  /\ spc \in {"none", "wait", "drain", "advance", "post", "keepalive", "done"} \cup Writer
  /\ mpc \in {"idle", "connecting", "fresh", "send", "answer", "join"}
               \cup Writer
  /\ req \in {"AUTH", "WORK_REQ", "SOLUTION"}
  /\ Len(queue) <= MaxQueue /\ Len(batch) <= MaxBatch
  /\ Len(inbox) <= MaxFrames /\ Len(asked) <= MaxFrames
  /\ {issued, made, conns} \subseteq Nat

(* dp_queue_, the batch and the wire: over any number of connections and     *)
(* failed writes a DP goes out at most once and in the order of submission,  *)
(* and while no connection ended none is anywhere else than in these three.  *)
InFlight == sent \o batch \o queue
EachDPOnce ==
  /\ \A i, j \in DOMAIN InFlight : i < j => InFlight[i] < InFlight[j]
  /\ ~broke => Len(InFlight) = made

(* jlp_pool_client.hpp: sequence is a monotonic counter per work id. What    *)
(* the sender tags under one work id is numbered 0, 1, 2, ... without a gap  *)
(* or a repetition, however WORK_ASN comes between snapshot, drain, advance. *)
SequencesCount ==
  \A i \in DOMAIN drafts :
    drafts[i].seq = Cardinality({j \in 1 .. i - 1 : drafts[j].work = drafts[i].work})

(* Every call into the client returns: a writer gets the mutex, and          *)
(* disconnect finds both threads gone.                                       *)
CallsReturn == mpc \notin {"idle", "fresh"} ~> mpc \in {"idle", "fresh"}

(* A DP that was accepted is written, unless a connection ends: the sender   *)
(* neither forgets it nor waits for the caller's frames for ever.            *)
Flushed == \A k \in 1 .. MaxDPs :
  made >= k ~> (broke \/ \E i \in DOMAIN sent : sent[i] = k)

=============================================================================

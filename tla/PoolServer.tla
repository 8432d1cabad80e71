----------------------------- MODULE PoolServer -----------------------------
(***************************************************************************)
(* The JLP pool server, pool/jlp_server/server.py.                         *)
(*                                                                         *)
(* Every TCP connection is one asyncio task running handle_connection; the *)
(* tasks share nothing but the SQLite database and the file of found keys. *)
(* A task yields to the others at every await, so each database            *)
(* transaction of a handler is a step of its own, and a handler that waits *)
(* for the next frame is "idle".  The tables survive a crash of the        *)
(* process; the tasks and their local variables do not.                    *)
(*                                                                         *)
(*   assignments  table assignments; work_id is the index of the row       *)
(*   dps          table dps; id is the index of the row                    *)
(*   total        workers.total_dps, for the names in known                *)
(*   known        the names in table workers                               *)
(*   silent       the names whose workers.last_seen is over 300 s old      *)
(*   solutions    table solutions;  foundFile  the text file FOUND_PATH    *)
(*   pc, who      where each task is, and the worker it authenticated      *)
(*   work         session.current_work_id (0 is None)                      *)
(*   chunk, batch, cur, key, seen   locals of assign_work, of the DP_BATCH *)
(*                handler, of check_collision and of get_stats             *)
(*   rsp          the last frame sent on the connection, "none" while a    *)
(*                request is being handled                                 *)
(*   lost         history: a task died between save_dps and the solution   *)
(*   faults       how many crashes and database errors happened so far     *)
(***************************************************************************)
EXTENDS Integers, Sequences, FiniteSets

CONSTANTS
  Conns,       \* connections (asyncio tasks)
  Workers,     \* worker names
  Login,       \* <<c, w>>: the rig behind connection c authenticates as w
  Chunks,      \* chunk indices, range(NUM_CHUNKS)
  N,           \* order of the group, _SECP256K1_ORDER
  Key,         \* the private key of PUBKEY
  DPs,         \* the distinguished points the workers compute
  Claims,      \* the keys a worker may report in a SOLUTION frame
  Requests,    \* the frames the clients send
  MaxBatch,    \* records of a DP_BATCH_V2 frame
  MaxRows,     \* bound: rows of the dps table
  Sleepers,    \* bound: workers that may go 300 s without a DP
  MaxWork,     \* bound: rows of the assignments table
  MaxReports,  \* bound: solutions before a worker stops reporting its key
  MaxFaults,   \* bound: crashes and database errors
  None         \* an unset worker name or chunk

Frames == {"PING", "WORK_REQ", "DP_BATCH", "DP_SUBMIT", "STATS_REQ", "SOLUTION", "UNKNOWN"}

(* A distinguished point is a kangaroo's type (0 tame, 1 wild, 2 wild on the *)
(* mirrored target), its distance, which includes the starting scalar, and   *)
(* the work_id its worker wrote into the record.                             *)
ASSUME ServerAssumption ==
  /\ N \in Nat \ {0} /\ Key \in 1 .. N-1
  /\ Login \subseteq Conns \X Workers
  /\ DPs \subseteq [type : 0 .. 2, d : 0 .. N-1, work : Nat]
  /\ Claims \subseteq 0 .. N-1
  /\ Requests \subseteq Frames
  /\ MaxBatch \in Nat \ {0}
  /\ {MaxRows, MaxWork, MaxReports, MaxFaults} \subseteq Nat
  /\ None \notin Workers /\ None \notin Chunks

VARIABLES assignments, dps, total, known, silent, solutions, foundFile,
          pc, who, work, chunk, batch, cur, key, seen, rsp, lost, faults

ledger  == <<dps, total>>
sols    == <<solutions, foundFile>>
people  == <<known, silent>>
locals  == <<chunk, batch, cur, key, seen>>
session == <<who, work>>
hist    == <<lost, faults>>
vars    == <<assignments, ledger, people, sols, pc, session, locals, rsp, hist>>

-----------------------------------------------------------------------------
(* The points of the curve, as their discrete logarithms. *)

Point(dp) == CASE dp.type = 0 -> dp.d
               [] dp.type = 1 -> (Key + dp.d) % N
               [] dp.type = 2 -> (dp.d - Key) % N

(* The x coordinate, which names a point up to its sign. *)
X(dp) == {Point(dp), (0 - Point(dp)) % N}

_compute_key(a, b) == (a - b) % N          \* 0 stands for None
_verify_privkey_Skip(k) == TRUE            \* mutant: candidates are trusted
_verify_privkey(k) == k = Key

(* Batches a client sends: DP_BATCH_V2 with 1 to MaxBatch records. *)
Batches == UNION {[1 .. n -> DPs] : n \in 1 .. MaxBatch}

Rows(w, b, how) ==
  [i \in DOMAIN b |-> [worker |-> w, dp |-> b[i], via |-> how]]

(* Task c goes to step p and leaves the other tasks where they are. *)
Goto(c, p) == pc' = [pc EXCEPT ![c] = p]
Step(c, from, to) == pc[c] = from /\ Goto(c, to)
Send(c, frame) == rsp' = [rsp EXCEPT ![c] = frame]
Receive(c, frame) == pc[c] = "idle" /\ frame \in Requests
NoStats == 0

(* The handler returns, and its local variables are gone. *)
Close(c) ==
  /\ Goto(c, "closed")
  /\ who' = [who EXCEPT ![c] = None]
  /\ work' = [work EXCEPT ![c] = 0]
  /\ seen' = [seen EXCEPT ![c] = NoStats]

Begin(c, frame, p) == Receive(c, frame) /\ Goto(c, p) /\ Send(c, "none")

-----------------------------------------------------------------------------
(* Authentication: lines 334-379.                                           *)

(* Mutant: an empty worker name is let in. *)
AuthOk_Anonymous(c, w) ==
  /\ Step(c, "closed", "idle")
  /\ who' = [who EXCEPT ![c] = None]
  /\ Send(c, "AUTH_OK")
  /\ UNCHANGED <<assignments, ledger, people, sols, work, locals, hist>>

AuthOk(c, w) ==
  /\ <<c, w>> \in Login
  /\ Step(c, "closed", "idle")
  /\ who' = [who EXCEPT ![c] = w]
  /\ known' = known \cup {w}
  /\ silent' = silent \ {w}
  /\ Send(c, "AUTH_OK")
  /\ UNCHANGED <<assignments, ledger, sols, work, locals, hist>>

(* The peer closes, or 90 s pass without a frame. *)
Disconnect(c) ==
  /\ pc[c] = "idle" /\ Close(c)
  /\ Send(c, "none")
  /\ UNCHANGED <<assignments, ledger, people, sols, chunk, batch, cur, key, hist>>

Ping(c) ==
  /\ Receive(c, "PING")
  /\ Send(c, "PONG")
  /\ UNCHANGED <<assignments, ledger, people, sols, pc, session, locals, hist>>

-----------------------------------------------------------------------------
(* WORK_REQ: lines 404-427 and assign_work, lines 153-200.                  *)

(* A handler that finds the puzzle solved says so and ends the connection. *)
TellSolved(c) ==
  /\ solutions # <<>>
  /\ Close(c)
  /\ Send(c, "SOLUTION")
  /\ UNCHANGED <<assignments, ledger, people, sols, chunk, batch, cur, key, hist>>

Assigning(c) == pc[c] \in {"expire", "expireOwn", "pick", "insert"}

WorkReqSolved(c) == Receive(c, "WORK_REQ") /\ TellSolved(c)

WorkReq(c) ==
  /\ Begin(c, "WORK_REQ", "expire")
  /\ Len(assignments) + Cardinality({e \in Conns : Assigning(e)}) < MaxWork
  /\ solutions = <<>>
  /\ UNCHANGED <<assignments, ledger, people, sols, session, locals, hist>>

Active == {i \in DOMAIN assignments : assignments[i].status = "active"}

(* Mutant: expired assignments are deleted. *)
Expire_Delete(S) ==
  assignments' = SelectSeq(assignments, LAMBDA a : a \notin {assignments[i] : i \in S})

Expire(S) ==
  assignments' = [i \in DOMAIN assignments |->
                    IF i \in S THEN [assignments[i] EXCEPT !.status = "expired"]
                               ELSE assignments[i]]

ExpireStale(c) ==
  /\ Step(c, "expire", "expireOwn")
  /\ Expire({i \in Active : \/ assignments[i].overdue
                            \/ assignments[i].worker \in silent})
  /\ UNCHANGED <<ledger, people, sols, session, locals, rsp, hist>>

(* Mutant: the worker's previous chunk stays active. *)
ExpireOwn_Skip(c) ==
  /\ Step(c, "expireOwn", "pick")
  /\ UNCHANGED <<assignments, ledger, people, sols, session, locals, rsp, hist>>

ExpireOwn(c) ==
  /\ Step(c, "expireOwn", "pick")
  /\ Expire({i \in Active : assignments[i].worker = who[c]})
  /\ UNCHANGED <<ledger, people, sols, session, locals, rsp, hist>>

Busy(k) == \E i \in Active : assignments[i].chunk = k

(* A random chunk that the SELECT does not report as taken. *)
PickChunk(c) ==
  /\ Step(c, "pick", "insert")
  /\ \E k \in Chunks : ~Busy(k) /\ chunk' = [chunk EXCEPT ![c] = k]
  /\ UNCHANGED <<assignments, ledger, people, sols, session, batch, cur, key,
                 seen, rsp, hist>>

(* Mutant: assign_work draws until it finds a free chunk. *)
NoFreeChunk_Never(c) == FALSE

(* All 300 draws were taken. *)
NoFreeChunk(c) ==
  /\ Step(c, "pick", "idle")
  /\ \E k \in Chunks : Busy(k)
  /\ Send(c, "MSG_ERROR")
  /\ UNCHANGED <<assignments, ledger, people, sols, session, locals, hist>>

InsertAssignment(c) ==
  /\ Step(c, "insert", "idle")
  /\ assignments' = Append(assignments,
                      [worker |-> who[c], chunk |-> chunk[c],
                       status |-> "active", overdue |-> FALSE])
  /\ work' = [work EXCEPT ![c] = Len(assignments) + 1]
  /\ chunk' = [chunk EXCEPT ![c] = None]
  /\ Send(c, "WORK_ASN")
  /\ UNCHANGED <<ledger, people, sols, who, batch, cur, key, seen, hist>>

(* Time passes: CHUNK_TIMEOUT for an assignment, 300 s for a worker that    *)
(* neither authenticates nor gets a DP accepted.                            *)
Overdue(i) ==
  /\ i \in Active /\ ~assignments[i].overdue
  /\ assignments' = [assignments EXCEPT ![i].overdue = TRUE]
  /\ UNCHANGED <<ledger, people, sols, pc, session, locals, rsp, hist>>

FallSilent(w) ==
  /\ w \in (known \cap Sleepers) \ silent
  /\ silent' = silent \cup {w}
  /\ UNCHANGED <<assignments, ledger, known, sols, pc, session, locals, rsp, hist>>

-----------------------------------------------------------------------------
(* DP_BATCH_V2 and DP_SUBMIT_V2: lines 429-529.                              *)

(* Mutant: the credit is added per record and once more per batch. *)
save_dps_Twice(c, b, how) ==
  /\ dps' = dps \o Rows(who[c], b, how)
  /\ total' = [total EXCEPT ![who[c]] = @ + 2 * Len(b)]
  /\ silent' = silent \ {who[c]}

(* save_dps: the rows, the credit and last_seen in one transaction.  No      *)
(* column of dps is UNIQUE, so INSERT OR IGNORE inserts every record.        *)
save_dps(c, b, how) ==
  /\ dps' = dps \o Rows(who[c], b, how)
  /\ total' = [total EXCEPT ![who[c]] = @ + Len(b)]
  /\ silent' = silent \ {who[c]}

(* The bound on the table leaves room for the batches under way. *)
RoomFor(n) == Len(dps) + n <=
                MaxRows - MaxBatch * Cardinality({e \in Conns : pc[e] = "save"})

BatchSolved(c) == Receive(c, "DP_BATCH") /\ TellSolved(c)

(* A frame whose count or length is wrong, or zero, is acknowledged. *)
BatchRefused(c) ==
  /\ Receive(c, "DP_BATCH")
  /\ Send(c, "DP_ACK")
  /\ UNCHANGED <<assignments, ledger, people, sols, pc, session, locals, hist>>

Batch(c, b) ==
  /\ Begin(c, "DP_BATCH", "save")
  /\ RoomFor(Len(b))
  /\ solutions = <<>>
  /\ batch' = [batch EXCEPT ![c] = b]
  /\ UNCHANGED <<assignments, ledger, people, sols, session, chunk, cur, key,
                 seen, hist>>

SaveBatch(c) ==
  /\ Step(c, "save", "check")
  /\ save_dps(c, batch[c], "batch")
  /\ cur' = [cur EXCEPT ![c] = 1]
  /\ UNCHANGED <<assignments, known, sols, session, chunk, batch, key, seen,
                 rsp, hist>>

(* The row SELECT ... LIMIT 1 returns: the first one, in index order, with   *)
(* the same x and another type; it may be one at the opposite point, which   *)
(* yields no key.                                                            *)
OtherType(dp) ==
  {i \in DOMAIN dps : X(dps[i].dp) = X(dp) /\ dps[i].dp.type # dp.type}
Hit(dp, i) == i \in OtherType(dp) /\ \A j \in OtherType(dp) : i <= j

(* Mutant: only new minus stored is tried. *)
KeyFrom_OneOrder(a, b) ==
  {k \in {_compute_key(a, b)} : k # 0 /\ _verify_privkey(k)}

KeyFrom(a, b) == {k \in {_compute_key(a, b), _compute_key(b, a)} :
                     k # 0 /\ _verify_privkey(k)}

(* The record is one side of a collision that yields the key. *)
CheckFound(c) ==
  /\ pc[c] = "check" /\ cur[c] <= Len(batch[c])
  /\ \E i \in DOMAIN dps :
       /\ Hit(batch[c][cur[c]], i)
       /\ \E k \in KeyFrom(batch[c][cur[c]].d, dps[i].dp.d) :
            key' = [key EXCEPT ![c] = k]
  /\ Goto(c, "record")
  /\ UNCHANGED <<assignments, ledger, people, sols, session, chunk, batch, cur,
                 seen, rsp, hist>>

(* No other row, or a false positive: the next record. *)
CheckNext(c) ==
  /\ pc[c] = "check" /\ cur[c] <= Len(batch[c])
  /\ \A i \in DOMAIN dps : Hit(batch[c][cur[c]], i) =>
                             KeyFrom(batch[c][cur[c]].d, dps[i].dp.d) = {}
  /\ cur' = [cur EXCEPT ![c] = @ + 1]
  /\ UNCHANGED <<assignments, ledger, people, sols, pc, session, chunk, batch,
                 key, seen, rsp, hist>>

AckBatch(c) ==
  /\ cur[c] > Len(batch[c])
  /\ Step(c, "check", "idle")
  /\ batch' = [batch EXCEPT ![c] = <<>>]
  /\ cur' = [cur EXCEPT ![c] = 0]
  /\ Send(c, "DP_ACK")
  /\ UNCHANGED <<assignments, ledger, people, sols, session, chunk, key, seen, hist>>

(* A single DP is stored and never compared with the others. *)
Submit(c, dp) ==
  /\ Receive(c, "DP_SUBMIT")
  /\ RoomFor(1)
  /\ save_dps(c, <<dp>>, "submit")
  /\ Send(c, "DP_ACK")
  /\ UNCHANGED <<assignments, known, sols, pc, session, locals, hist>>

(* Whatever goes wrong in DP_SUBMIT is logged, and acknowledged. *)
SubmitRefused(c) ==
  /\ Receive(c, "DP_SUBMIT")
  /\ Send(c, "DP_ACK")
  /\ UNCHANGED <<assignments, ledger, people, sols, pc, session, locals, hist>>

-----------------------------------------------------------------------------
(* A verified key: lines 491-506 after a collision (batch is not empty) and  *)
(* 545-575 after a SOLUTION frame (batch is empty).                          *)

Report(c, k) ==
  /\ Begin(c, "SOLUTION", "record")
  /\ Len(solutions) + Cardinality({e \in Conns : pc[e] = "record"}) < MaxReports
  /\ _verify_privkey(k)
  /\ key' = [key EXCEPT ![c] = k]
  /\ UNCHANGED <<assignments, ledger, people, sols, session, chunk, batch, cur,
                 seen, hist>>

(* A payload that is too short and a key that is wrong are logged; the       *)
(* worker gets no answer, and the handler goes on to the next frame.         *)
ReportRefused(c) ==
  /\ Receive(c, "SOLUTION")
  /\ UNCHANGED <<assignments, ledger, people, sols, pc, session, locals, rsp, hist>>

RecordSolution(c) ==
  /\ Step(c, "record", "file")
  /\ solutions' = Append(solutions, key[c])
  /\ UNCHANGED <<assignments, ledger, people, foundFile, session, locals, rsp, hist>>

WriteFound(c) ==
  /\ Step(c, "file", "notify")
  /\ foundFile' = Append(foundFile, key[c])
  /\ UNCHANGED <<assignments, ledger, people, solutions, session, locals, rsp, hist>>

(* The frame goes to this connection only; a collision also ends it. *)
NotifySolution(c) ==
  /\ pc[c] = "notify"
  /\ Send(c, "SOLUTION")
  /\ IF batch[c] # <<>> THEN Close(c)
                        ELSE Goto(c, "idle") /\ UNCHANGED <<session, seen>>
  /\ batch' = [batch EXCEPT ![c] = <<>>]
  /\ cur' = [cur EXCEPT ![c] = 0]
  /\ key' = [key EXCEPT ![c] = 0]
  /\ UNCHANGED <<assignments, ledger, people, sols, chunk, hist>>

-----------------------------------------------------------------------------
(* STATS_REQ: lines 531-543 and get_stats, lines 276-301.  The counts are    *)
(* read by separate statements, with an await between them, and sent.        *)

StatsTotal(c) ==
  /\ Begin(c, "STATS_REQ", "stats")
  /\ seen' = [seen EXCEPT ![c] = Len(dps)]
  /\ UNCHANGED <<assignments, ledger, people, sols, session, chunk, batch, cur,
                 key, hist>>

StatsYours(c) ==
  /\ Step(c, "stats", "idle")
  /\ seen' = [seen EXCEPT ![c] = NoStats]
  /\ Send(c, "STATS_RSP")
  /\ UNCHANGED <<assignments, ledger, people, sols, session, chunk, batch, cur,
                 key, hist>>

-----------------------------------------------------------------------------
(* A frame of another type is logged, and not answered either.               *)
Unknown(c) ==
  /\ Receive(c, "UNKNOWN")
  /\ UNCHANGED <<assignments, ledger, people, sols, pc, session, locals, rsp, hist>>

-----------------------------------------------------------------------------
(* Faults.                                                                   *)

Forget(S) ==
  /\ pc'    = [c \in Conns |-> IF c \in S THEN "closed" ELSE pc[c]]
  /\ who'   = [c \in Conns |-> IF c \in S THEN None ELSE who[c]]
  /\ work'  = [c \in Conns |-> IF c \in S THEN 0 ELSE work[c]]
  /\ seen'  = [c \in Conns |-> IF c \in S THEN NoStats ELSE seen[c]]
  /\ rsp'   = [c \in Conns |-> IF c \in S THEN "none" ELSE rsp[c]]
  /\ chunk' = [c \in Conns |-> IF c \in S THEN None ELSE chunk[c]]
  /\ batch' = [c \in Conns |-> IF c \in S THEN <<>> ELSE batch[c]]
  /\ cur'   = [c \in Conns |-> IF c \in S THEN 0 ELSE cur[c]]
  /\ key'   = [c \in Conns |-> IF c \in S THEN 0 ELSE key[c]]
  /\ lost'  = (lost \/ \E c \in S : pc[c] \in {"check", "record"})
  /\ faults < MaxFaults /\ faults' = faults + 1

(* "database is locked" or a full disk: the transaction is rolled back and   *)
(* handle_connection closes the connection.                                  *)
DbError(c) ==
  /\ pc[c] \in {"expire", "expireOwn", "insert", "save", "record"}
  /\ Forget({c})
  /\ UNCHANGED <<assignments, ledger, people, sols>>

(* The process dies; what was committed is found again at the next start. *)
Crash ==
  /\ Forget(Conns)
  /\ UNCHANGED <<assignments, ledger, people, sols>>

-----------------------------------------------------------------------------
Init ==
  /\ assignments = <<>> /\ dps = <<>> /\ solutions = <<>> /\ foundFile = <<>>
  /\ total = [w \in Workers |-> 0]
  /\ known = {} /\ silent = {}
  /\ pc = [c \in Conns |-> "closed"]
  /\ who = [c \in Conns |-> None]
  /\ work = [c \in Conns |-> 0]
  /\ chunk = [c \in Conns |-> None]
  /\ batch = [c \in Conns |-> <<>>]
  /\ cur = [c \in Conns |-> 0]
  /\ key = [c \in Conns |-> 0]
  /\ seen = [c \in Conns |-> NoStats]
  /\ rsp = [c \in Conns |-> "none"]
  /\ lost = FALSE /\ faults = 0

(* What task c does without waiting for its client. *)
Serve(c) ==
  \/ ExpireStale(c) \/ ExpireOwn(c) \/ PickChunk(c) \/ NoFreeChunk(c)
  \/ InsertAssignment(c)
  \/ SaveBatch(c) \/ CheckFound(c) \/ CheckNext(c) \/ AckBatch(c)
  \/ RecordSolution(c) \/ WriteFound(c) \/ NotifySolution(c)
  \/ StatsYours(c)

(* What the client of connection c makes happen. *)
Request(c) ==
  \/ (\E w \in Workers : AuthOk(c, w))
  \/ Disconnect(c) \/ Ping(c)
  \/ WorkReqSolved(c) \/ WorkReq(c)
  \/ BatchSolved(c) \/ BatchRefused(c) \/ (\E b \in Batches : Batch(c, b))
  \/ (\E dp \in DPs : Submit(c, dp)) \/ SubmitRefused(c)
  \/ (\E k \in Claims : Report(c, k)) \/ ReportRefused(c)
  \/ StatsTotal(c) \/ Unknown(c)

Time == (\E i \in Active : Overdue(i)) \/ (\E w \in known : FallSilent(w))

Next ==
  \/ \E c \in Conns : Serve(c) \/ Request(c) \/ DbError(c)
  \/ Time
  \/ Crash

Spec == Init /\ [][Next]_vars
FairSpec == Spec /\ \A c \in Conns : WF_vars(Serve(c))

-----------------------------------------------------------------------------
TablesOK ==
  /\ assignments \in Seq([worker : Workers, chunk : Chunks,
                          status : {"active", "expired"}, overdue : BOOLEAN])
  /\ dps \in Seq([worker : Workers, dp : DPs, via : {"batch", "submit"}])
  /\ total \in [Workers -> Nat]
  /\ known \subseteq Workers /\ silent \subseteq known
  /\ solutions \in Seq(1 .. N-1) /\ foundFile \in Seq(1 .. N-1)

Labels == {"closed", "idle", "expire", "expireOwn", "pick", "insert",
           "save", "check", "record", "file", "notify", "stats"}

TasksOK ==
  /\ pc \in [Conns -> Labels]
  /\ who \in [Conns -> Workers \cup {None}]
  /\ work \in [Conns -> Nat]
  /\ chunk \in [Conns -> Chunks \cup {None}]
  /\ batch \in [Conns -> Seq(DPs)]
  /\ cur \in [Conns -> Nat]
  /\ key \in [Conns -> 0 .. N-1]
  /\ seen \in [Conns -> Nat]
  /\ rsp \in [Conns -> {"none", "AUTH_OK", "PONG", "WORK_ASN", "MSG_ERROR",
                        "DP_ACK", "STATS_RSP", "SOLUTION"}]
  /\ lost \in BOOLEAN /\ faults \in Nat

TypeOK == TablesOK /\ TasksOK

(* A worker's credit is the number of rows stored under its name, whatever   *)
(* crashes and rolled back transactions lie in between: save_dps commits the *)
(* rows and total_dps together.                                              *)
RowsOf(w) == {i \in DOMAIN dps : dps[i].worker = w}
CreditMatchesRows == \A w \in Workers : total[w] = Cardinality(RowsOf(w))

(* A collision between two DPs that came in batches is caught, however the   *)
(* handlers of their two connections interleave: when no handler is between  *)
(* its save_dps and the end of its check_collision, a stored tame and a      *)
(* stored wild DP of one point mean a recorded solution, unless a fault      *)
(* killed a handler exactly there, or the later check was shown another row. *)
(* SELECT ... WHERE x=? ... LIMIT 1 (:255) shows the first row of the x, and *)
(* one at the opposite point hides the partner behind it: from the tame      *)
(* row's check, or, if the wild row came last, from either.                  *)
Colliding(i, j) ==
  /\ dps[i].dp.type = 0 /\ dps[j].dp.type # 0
  /\ Point(dps[i].dp) = Point(dps[j].dp)
Opposite(r, s) == X(r) = X(s) /\ Point(r) # Point(s)
HiddenFrom(j, i) ==    \* the check for row i is shown a row before j
  \E k \in DOMAIN dps :
    k < j /\ Opposite(dps[k].dp, dps[j].dp) /\ dps[k].dp.type # dps[i].dp.type
CollisionCaught ==
  (~lost /\ \A c \in Conns : pc[c] \notin {"check", "record"}) =>
    \A i, j \in DOMAIN dps :
      Colliding(i, j) /\ dps[i].via = "batch" /\ dps[j].via = "batch" =>
        \/ solutions # <<>>
        \/ HiddenFrom(j, i)
        \/ i < j /\ HiddenFrom(i, j)

(* Nothing but the key of PUBKEY is ever recorded or written to the file of  *)
(* found keys, and a worker is told of a solution only when it is durable:   *)
(* the row is committed before the file is written and the frame is sent.    *)
OnlyTheKey ==
  /\ \A i \in DOMAIN solutions : solutions[i] = Key
  /\ Len(foundFile) <= Len(solutions)
  /\ \A c \in Conns : rsp[c] = "SOLUTION" => solutions # <<>>

(* A worker whose rig is the only one under its name holds at most one       *)
(* active chunk, the one assigned last (JLP-PROTOCOL.md, 6.3).               *)
SoleRig(w) == \A c, e \in Conns : <<c, w>> \in Login /\ <<e, w>> \in Login => c = e
NewestOnly ==
  \A i \in Active : \A j \in DOMAIN assignments :
    j > i /\ assignments[j].worker = assignments[i].worker =>
      ~SoleRig(assignments[i].worker)

(* A work_id names one worker and one chunk forever, and a chunk once        *)
(* expired is not the worker's again, across crashes too.                    *)
WorkIdsAreForever ==
  [][\A i \in DOMAIN assignments :
       /\ i \in DOMAIN assignments'
       /\ assignments'[i].worker = assignments[i].worker
       /\ assignments'[i].chunk = assignments[i].chunk
       /\ i \in Active' => i \in Active]_vars

(* A request whose handler takes several steps gets an answer of its own     *)
(* kind: no handler waits for another, assign_work gives up with MSG_ERROR   *)
(* when it finds no free chunk (:413), a batch that solved the puzzle is     *)
(* answered with the solution and the end of the connection.  The frames     *)
(* without any answer, a refused SOLUTION (:549, :556) and one of an unknown *)
(* type (:578), leave the handler where it was.                              *)
Handling(c) ==
  CASE Assigning(c)                                   -> "WORK_REQ"
    [] pc[c] \in {"save", "check"}                    -> "DP_BATCH"
    [] pc[c] = "stats"                                -> "STATS_REQ"
    [] pc[c] \in {"record", "file", "notify"}         ->
         IF batch[c] # <<>> THEN "DP_BATCH" ELSE "SOLUTION"
    [] OTHER                                          -> "none"
Answers ==
  [WORK_REQ  |-> {<<"idle", "WORK_ASN">>, <<"idle", "MSG_ERROR">>},
   DP_BATCH  |-> {<<"idle", "DP_ACK">>, <<"closed", "SOLUTION">>},
   STATS_REQ |-> {<<"idle", "STATS_RSP">>},
   SOLUTION  |-> {<<"idle", "SOLUTION">>}]
Answered ==
  /\ [][\A c \in Conns :
          Handling(c) \notin {"none", Handling(c)'} =>
            \/ <<pc[c], rsp[c]>>' \in Answers[Handling(c)]
            \/ pc'[c] = "closed" /\ faults' > faults]_vars
  /\ \A c \in Conns : Handling(c) # "none" ~> Handling(c) = "none"

(* What the server does is what a pool promises: every step is a deposit     *)
(* credited as a whole, a discovery from two stored kangaroos of one x, a    *)
(* key brought by a worker, or nothing the workers can see; and a collision  *)
(* deposited in batches, with no row at the opposite point to hide it, is    *)
(* discovered, for the handlers keep running.                                *)
Store == INSTANCE SharedDPStore WITH
           Deposits <- Batches,
           Brought  <- Key \in Claims /\ "SOLUTION" \in Requests,
           store    <- {dps[i].dp : i \in DOMAIN dps},
           credit   <- total,
           solved   <- solutions # <<>>
StoreSpec == Store!Spec
StoreLiveSpec == Store!LiveSpec

=============================================================================

-------------------------- MODULE PoolServerProofs --------------------------
(***************************************************************************)
(* Proofs about PoolServer, for any number of connections, workers, chunks *)
(* and distinguished points, any group order and any bounds.               *)
(***************************************************************************)
EXTENDS PoolServer, FiniteSetTheorems, SequenceTheorems, WellFoundedInduction, TLAPS

Row == [worker : Workers, dp : DPs, via : {"batch", "submit"}]
Assignment == [worker : Workers, chunk : Chunks,
               status : {"active", "expired"}, overdue : BOOLEAN]

RowUnder(w) == {r \in Row : r.worker = w}

(* A task past the authentication has a worker; a task with an open          *)
(* assignment has drawn a chunk; only a verified key is kept.                *)
SessionOK ==
  \A c \in Conns :
    /\ pc[c] # "closed" => who[c] \in Workers
    /\ pc[c] = "insert" => chunk[c] \in Chunks
    /\ pc[c] \in {"record", "file"} => key[c] = Key

TypeInv == TypeOK /\ SessionOK

-----------------------------------------------------------------------------
(* Lemmas on the sequences the tables are built from. *)

LEMMA BatchSeq ==
  ASSUME NEW b \in Batches PROVE b \in Seq(DPs) /\ Len(b) \in Nat \ {0}
<1>1. PICK n \in 1 .. MaxBatch : b \in [1 .. n -> DPs]
  BY DEF Batches
<1>2. n \in Nat \ {0}
  BY ServerAssumption
<1>. QED
  BY <1>1, <1>2

LEMMA RowsSeq ==
  ASSUME NEW w \in Workers, NEW b \in Seq(DPs), NEW how \in {"batch", "submit"}
  PROVE  /\ Rows(w, b, how) \in Seq(Row)
         /\ Rows(w, b, how) \in Seq(RowUnder(w))
         /\ Len(Rows(w, b, how)) = Len(b)
<1>1. DOMAIN b = 1 .. Len(b) /\ Len(b) \in Nat /\ \A i \in 1 .. Len(b) : b[i] \in DPs
  OBVIOUS
<1>2. \A i \in 1 .. Len(b) : [worker |-> w, dp |-> b[i], via |-> how] \in RowUnder(w)
  BY <1>1 DEF Row, RowUnder
<1>3. Rows(w, b, how) \in [1 .. Len(b) -> RowUnder(w)]
  BY <1>1, <1>2 DEF Rows
<1>4. RowUnder(w) \subseteq Row
  BY DEF RowUnder
<1>. QED
  BY <1>1, <1>3, <1>4

LEMMA ExpireSeq ==
  ASSUME assignments \in Seq(Assignment), NEW S, Expire(S)
  PROVE  assignments' \in Seq(Assignment)
<1>1. /\ DOMAIN assignments = 1 .. Len(assignments) /\ Len(assignments) \in Nat
      /\ \A i \in 1 .. Len(assignments) : assignments[i] \in Assignment
  OBVIOUS
<1>2. \A a \in Assignment : [a EXCEPT !.status = "expired"] \in Assignment
  BY DEF Assignment
<1>3. assignments' \in [1 .. Len(assignments) -> Assignment]
  BY <1>1, <1>2 DEF Expire
<1>. QED
  BY <1>1, <1>3

LEMMA InitType == Init => TypeInv
<1>. SUFFICES ASSUME Init PROVE TypeInv
  OBVIOUS
<1>1. N \in Nat \ {0} /\ 0 \in 0 .. N-1
  BY ServerAssumption
<1>2. TablesOK
  BY DEF Init, TablesOK
<1>3. batch \in [Conns -> Seq(DPs)] /\ seen \in [Conns -> Nat]
  BY DEF Init, NoStats
<1>4. TasksOK
  BY <1>1, <1>3 DEF Init, TasksOK, Labels
<1>5. SessionOK
  BY DEF Init, SessionOK
<1>. QED
  BY <1>2, <1>4, <1>5 DEF TypeInv, TypeOK

(* The handler c returns or dies: its session is reset. *)
LEMMA CloseType ==
  ASSUME TypeInv, NEW c \in Conns, Close(c), Send(c, "SOLUTION") \/ Send(c, "none"),
         UNCHANGED <<assignments, ledger, people, sols, lost, faults, chunk>>,
         batch' \in [Conns -> Seq(DPs)], cur' \in [Conns -> Nat],
         key' \in [Conns -> 0 .. N-1],
         \A e \in Conns \ {c} : key'[e] = key[e]
  PROVE  TypeInv'
<1>1. TablesOK'
  BY DEF TypeInv, TypeOK, TablesOK, ledger, people, sols
<1>2. TasksOK'
  BY DEF TypeInv, TypeOK, TasksOK, Labels, Close, Goto, Send, NoStats
<1>3. SessionOK'
  BY DEF TypeInv, TypeOK, TasksOK, Labels, SessionOK, Close, Goto
<1>. QED
  BY <1>1, <1>2, <1>3 DEF TypeInv, TypeOK

LEMMA ForgetType ==
  ASSUME TypeInv, NEW S \in SUBSET Conns, Forget(S),
         UNCHANGED <<assignments, ledger, people, sols>>
  PROVE  TypeInv'
<1>1. TablesOK'
  BY DEF TypeInv, TypeOK, TablesOK, ledger, people, sols
<1>2. N \in Nat \ {0} /\ 0 \in 0 .. N-1 /\ <<>> \in Seq(DPs)
  BY ServerAssumption
<1>3. /\ batch' \in [Conns -> Seq(DPs)] /\ key' \in [Conns -> 0 .. N-1]
      /\ seen' \in [Conns -> Nat]
  BY <1>2 DEF Forget, TypeInv, TypeOK, TasksOK, Labels, NoStats
<1>4. /\ pc' \in [Conns -> Labels]
      /\ who' \in [Conns -> Workers \cup {None}]
      /\ work' \in [Conns -> Nat] /\ cur' \in [Conns -> Nat]
      /\ chunk' \in [Conns -> Chunks \cup {None}]
      /\ lost' \in BOOLEAN /\ faults' \in Nat
  BY DEF Forget, TypeInv, TypeOK, TasksOK, Labels
<1>5. rsp' \in [Conns -> {"none", "AUTH_OK", "PONG", "WORK_ASN", "MSG_ERROR",
                          "DP_ACK", "STATS_RSP", "SOLUTION"}]
  BY DEF Forget, TypeInv, TypeOK, TasksOK, Labels
<1>6. TasksOK'
  BY <1>3, <1>4, <1>5 DEF TasksOK, Labels
<1>7. SessionOK'
  BY DEF TypeInv, SessionOK, Forget
<1>. QED
  BY <1>1, <1>6, <1>7 DEF TypeInv, TypeOK

(* A step of task c that only changes its own locals and pc keeps the types. *)
LEMMA ServeType == ASSUME TypeInv, NEW c \in Conns, Serve(c) PROVE TypeInv'
<1>. USE DEF ledger, sols, people, locals, session, hist, Goto, Step, Send
<1>0. TablesOK /\ TasksOK /\ SessionOK
  BY DEF TypeInv, TypeOK
<1>1. CASE ExpireStale(c)
  <2>1. TablesOK'
    BY <1>0, <1>1, ExpireSeq DEF ExpireStale, TablesOK, Assignment
  <2>2. TasksOK' /\ SessionOK'
    BY <1>0, <1>1 DEF ExpireStale, TasksOK, Labels, SessionOK
  <2>. QED
    BY <2>1, <2>2 DEF TypeInv, TypeOK
<1>2. CASE ExpireOwn(c)
  <2>1. TablesOK'
    BY <1>0, <1>2, ExpireSeq DEF ExpireOwn, TablesOK, Assignment
  <2>2. TasksOK' /\ SessionOK'
    BY <1>0, <1>2 DEF ExpireOwn, TasksOK, Labels, SessionOK
  <2>. QED
    BY <2>1, <2>2 DEF TypeInv, TypeOK
<1>3. CASE PickChunk(c)
  <2>1. TablesOK'
    BY <1>0, <1>3 DEF PickChunk, TablesOK
  <2>2. TasksOK'
    BY <1>0, <1>3 DEF PickChunk, TasksOK, Labels
  <2>3. SessionOK'
    BY <1>0, <1>3 DEF PickChunk, TasksOK, Labels, SessionOK
  <2>. QED
    BY <2>1, <2>2, <2>3 DEF TypeInv, TypeOK
<1>4. CASE NoFreeChunk(c)
  <2>1. TablesOK'
    BY <1>0, <1>4 DEF NoFreeChunk, TablesOK
  <2>2. TasksOK'
    BY <1>0, <1>4 DEF NoFreeChunk, TasksOK, Labels
  <2>3. SessionOK'
    BY <1>0, <1>4 DEF NoFreeChunk, TasksOK, Labels, SessionOK
  <2>. QED
    BY <2>1, <2>2, <2>3 DEF TypeInv, TypeOK
<1>5. CASE InsertAssignment(c)
  <2>1. who[c] \in Workers /\ chunk[c] \in Chunks
    BY <1>0, <1>5 DEF InsertAssignment, SessionOK
  <2>2. [worker |-> who[c], chunk |-> chunk[c], status |-> "active",
         overdue |-> FALSE] \in Assignment
    BY <2>1 DEF Assignment
  <2>3. TablesOK'
    BY <1>0, <1>5, <2>2 DEF InsertAssignment, TablesOK, Assignment
  <2>4. TasksOK' /\ SessionOK'
    BY <1>0, <1>5 DEF InsertAssignment, TasksOK, Labels, TablesOK, SessionOK
  <2>. QED
    BY <2>3, <2>4 DEF TypeInv, TypeOK
<1>6. CASE SaveBatch(c)
  <2>1. who[c] \in Workers /\ batch[c] \in Seq(DPs)
    BY <1>0, <1>6 DEF SaveBatch, SessionOK, TasksOK, Labels
  <2>2. Rows(who[c], batch[c], "batch") \in Seq(Row)
    BY <2>1, RowsSeq
  <2>3. TablesOK'
    BY <1>0, <1>6, <2>1, <2>2 DEF SaveBatch, save_dps, TablesOK, Row
  <2>4. TasksOK' /\ SessionOK'
    BY <1>0, <1>6 DEF SaveBatch, TasksOK, Labels, SessionOK
  <2>. QED
    BY <2>3, <2>4 DEF TypeInv, TypeOK
<1>7. CASE CheckFound(c)
  <2>1. PICK k : k = Key /\ key' = [key EXCEPT ![c] = k]
    BY <1>7 DEF CheckFound, KeyFrom, _verify_privkey
  <2>2. Key \in 0 .. N-1
    BY ServerAssumption
  <2>3. TablesOK'
    BY <1>0, <1>7, <2>1, <2>2 DEF CheckFound, TablesOK
  <2>4. TasksOK'
    BY <1>0, <1>7, <2>1, <2>2 DEF CheckFound, TasksOK, Labels
  <2>5. SessionOK'
    BY <1>0, <1>7, <2>1, <2>2 DEF CheckFound, TasksOK, Labels, SessionOK
  <2>. QED
    BY <2>3, <2>4, <2>5 DEF TypeInv, TypeOK
<1>8. CASE CheckNext(c)
  <2>1. TablesOK'
    BY <1>0, <1>8 DEF CheckNext, TablesOK
  <2>2. TasksOK'
    BY <1>0, <1>8 DEF CheckNext, TasksOK, Labels
  <2>3. SessionOK'
    BY <1>0, <1>8 DEF CheckNext, TasksOK, Labels, SessionOK
  <2>. QED
    BY <2>1, <2>2, <2>3 DEF TypeInv, TypeOK
<1>9. CASE AckBatch(c)
  <2>1. TablesOK'
    BY <1>0, <1>9 DEF AckBatch, TablesOK
  <2>2. TasksOK'
    BY <1>0, <1>9 DEF AckBatch, TasksOK, Labels
  <2>3. SessionOK'
    BY <1>0, <1>9 DEF AckBatch, TasksOK, Labels, SessionOK
  <2>. QED
    BY <2>1, <2>2, <2>3 DEF TypeInv, TypeOK
<1>10. CASE RecordSolution(c)
  <2>1. key[c] \in 1 .. N-1
    BY <1>0, <1>10, ServerAssumption DEF RecordSolution, SessionOK
  <2>2. TablesOK'
    BY <1>0, <1>10, <2>1 DEF RecordSolution, TablesOK
  <2>3. TasksOK'
    BY <1>0, <1>10, <2>1 DEF RecordSolution, TasksOK, Labels
  <2>4. SessionOK'
    BY <1>0, <1>10, <2>1 DEF RecordSolution, TasksOK, Labels, SessionOK
  <2>. QED
    BY <2>2, <2>3, <2>4 DEF TypeInv, TypeOK
<1>11. CASE WriteFound(c)
  <2>1. key[c] \in 1 .. N-1
    BY <1>0, <1>11, ServerAssumption DEF WriteFound, SessionOK
  <2>2. TablesOK'
    BY <1>0, <1>11, <2>1 DEF WriteFound, TablesOK
  <2>3. TasksOK'
    BY <1>0, <1>11, <2>1 DEF WriteFound, TasksOK, Labels
  <2>4. SessionOK'
    BY <1>0, <1>11, <2>1 DEF WriteFound, TasksOK, Labels, SessionOK
  <2>. QED
    BY <2>2, <2>3, <2>4 DEF TypeInv, TypeOK
<1>12. CASE NotifySolution(c)
  <2>1. N \in Nat \ {0} /\ 0 \in 0 .. N-1 /\ <<>> \in Seq(DPs)
    BY ServerAssumption
  <2>2. /\ batch' \in [Conns -> Seq(DPs)] /\ cur' \in [Conns -> Nat]
        /\ key' \in [Conns -> 0 .. N-1]
        /\ \A e \in Conns \ {c} : key'[e] = key[e]
    BY <1>0, <1>12, <2>1 DEF NotifySolution, TasksOK, Labels
  <2>3. CASE batch[c] # <<>>
    BY <1>12, <2>2, <2>3, CloseType DEF NotifySolution
  <2>4. CASE batch[c] = <<>>
    <3>1. TablesOK' /\ SessionOK'
      BY <1>0, <1>12, <2>4 DEF NotifySolution, TablesOK, TasksOK, Labels, SessionOK
    <3>2. TasksOK'
      BY <1>0, <1>12, <2>2, <2>4 DEF NotifySolution, TasksOK, Labels
    <3>. QED
      BY <3>1, <3>2 DEF TypeInv, TypeOK
  <2>. QED
    BY <2>3, <2>4
<1>13. CASE StatsYours(c)
  <2>1. who[c] \in Workers /\ total[who[c]] \in Nat
    BY <1>0, <1>13 DEF StatsYours, SessionOK, TablesOK
  <2>2. TablesOK' /\ SessionOK'
    BY <1>0, <1>13 DEF StatsYours, TablesOK, TasksOK, Labels, SessionOK
  <2>3. TasksOK'
    BY <1>0, <1>13, <2>1 DEF StatsYours, NoStats, TasksOK, Labels
  <2>. QED
    BY <2>2, <2>3 DEF TypeInv, TypeOK
<1>. QED
  BY <1>1, <1>2, <1>3, <1>4, <1>5, <1>6, <1>7, <1>8, <1>9, <1>10, <1>11, <1>12,
     <1>13 DEF Serve

LEMMA RequestType == ASSUME TypeInv, NEW c \in Conns, Request(c) PROVE TypeInv'
<1>. USE DEF ledger, sols, people, locals, session, hist, Goto, Step, Send,
             Begin, Receive
<1>0. TablesOK /\ TasksOK /\ SessionOK
  BY DEF TypeInv, TypeOK
<1>1. ASSUME NEW w \in Workers, AuthOk(c, w) PROVE TypeInv'
  <2>1. TablesOK'
    BY <1>0, <1>1 DEF AuthOk, TablesOK
  <2>2. TasksOK'
    BY <1>0, <1>1 DEF AuthOk, TasksOK, Labels
  <2>3. SessionOK'
    BY <1>0, <1>1 DEF AuthOk, TasksOK, Labels, SessionOK
  <2>. QED
    BY <2>1, <2>2, <2>3 DEF TypeInv, TypeOK
<1>2. CASE Disconnect(c)
  BY <1>0, <1>2, CloseType DEF Disconnect, TasksOK, Labels
<1>3. CASE Ping(c)
  <2>1. TablesOK'
    BY <1>0, <1>3 DEF Ping, TablesOK
  <2>2. TasksOK'
    BY <1>0, <1>3 DEF Ping, TasksOK, Labels
  <2>3. SessionOK'
    BY <1>0, <1>3 DEF Ping, TasksOK, Labels, SessionOK
  <2>. QED
    BY <2>1, <2>2, <2>3 DEF TypeInv, TypeOK
<1>4. CASE WorkReqSolved(c) \/ BatchSolved(c)
  BY <1>0, <1>4, CloseType DEF WorkReqSolved, BatchSolved, TellSolved, TasksOK, Labels
<1>5. CASE WorkReq(c)
  <2>1. TablesOK'
    BY <1>0, <1>5 DEF WorkReq, TablesOK
  <2>2. TasksOK'
    BY <1>0, <1>5 DEF WorkReq, TasksOK, Labels
  <2>3. SessionOK'
    BY <1>0, <1>5 DEF WorkReq, TasksOK, Labels, SessionOK
  <2>. QED
    BY <2>1, <2>2, <2>3 DEF TypeInv, TypeOK
<1>6. CASE BatchRefused(c) \/ SubmitRefused(c) \/ ReportRefused(c) \/ Unknown(c)
  <2>1. TablesOK'
    BY <1>0, <1>6 DEF BatchRefused, SubmitRefused, ReportRefused, Unknown, TablesOK
  <2>2. TasksOK'
    BY <1>0, <1>6 DEF BatchRefused, SubmitRefused, ReportRefused, Unknown, TasksOK, Labels
  <2>3. SessionOK'
    BY <1>0, <1>6 DEF BatchRefused, SubmitRefused, ReportRefused, Unknown, TasksOK, Labels,
       SessionOK
  <2>. QED
    BY <2>1, <2>2, <2>3 DEF TypeInv, TypeOK
<1>7. ASSUME NEW b \in Batches, Batch(c, b) PROVE TypeInv'
  <2>1. TablesOK'
    BY <1>0, <1>7, BatchSeq DEF Batch, TablesOK
  <2>2. TasksOK'
    BY <1>0, <1>7, BatchSeq DEF Batch, TasksOK, Labels
  <2>3. SessionOK'
    BY <1>0, <1>7, BatchSeq DEF Batch, TasksOK, Labels, SessionOK
  <2>. QED
    BY <2>1, <2>2, <2>3 DEF TypeInv, TypeOK
<1>8. ASSUME NEW dp \in DPs, Submit(c, dp) PROVE TypeInv'
  <2>1. who[c] \in Workers /\ <<dp>> \in Seq(DPs)
    BY <1>0, <1>8 DEF Submit, SessionOK
  <2>2. Rows(who[c], <<dp>>, "submit") \in Seq(Row)
    BY <2>1, RowsSeq
  <2>3. TablesOK'
    BY <1>0, <1>8, <2>1, <2>2 DEF Submit, save_dps, TablesOK, Row
  <2>4. TasksOK' /\ SessionOK'
    BY <1>0, <1>8 DEF Submit, TasksOK, Labels, SessionOK
  <2>. QED
    BY <2>3, <2>4 DEF TypeInv, TypeOK
<1>9. ASSUME NEW k \in Claims, Report(c, k) PROVE TypeInv'
  <2>1. k = Key /\ Key \in 0 .. N-1
    BY <1>9, ServerAssumption DEF Report, _verify_privkey
  <2>2. TablesOK'
    BY <1>0, <1>9, <2>1 DEF Report, TablesOK
  <2>3. TasksOK'
    BY <1>0, <1>9, <2>1 DEF Report, TasksOK, Labels
  <2>4. SessionOK'
    BY <1>0, <1>9, <2>1 DEF Report, TasksOK, Labels, SessionOK
  <2>. QED
    BY <2>2, <2>3, <2>4 DEF TypeInv, TypeOK
<1>10. CASE StatsTotal(c)
  <2>1. Len(dps) \in Nat
    BY <1>0 DEF TablesOK
  <2>2. TablesOK'
    BY <1>0, <1>10, <2>1 DEF StatsTotal, TablesOK
  <2>3. TasksOK'
    BY <1>0, <1>10, <2>1 DEF StatsTotal, TasksOK, Labels
  <2>4. SessionOK'
    BY <1>0, <1>10, <2>1 DEF StatsTotal, TasksOK, Labels, SessionOK
  <2>. QED
    BY <2>2, <2>3, <2>4 DEF TypeInv, TypeOK
<1>. QED
  BY <1>1, <1>2, <1>3, <1>4, <1>5, <1>6, <1>7, <1>8, <1>9, <1>10 DEF Request

LEMMA NextType == TypeInv /\ [Next]_vars => TypeInv'
<1>. SUFFICES ASSUME TypeInv, [Next]_vars PROVE TypeInv'
  OBVIOUS
<1>0. TablesOK /\ TasksOK /\ SessionOK
  BY DEF TypeInv, TypeOK
<1>1. ASSUME NEW c \in Conns, Serve(c) PROVE TypeInv'
  BY <1>1, ServeType
<1>2. ASSUME NEW c \in Conns, Request(c) PROVE TypeInv'
  BY <1>2, RequestType
<1>3. ASSUME NEW c \in Conns, DbError(c) PROVE TypeInv'
  BY <1>3, ForgetType DEF DbError
<1>4. ASSUME NEW i \in Active, Overdue(i) PROVE TypeInv'
  <2>0. i \in DOMAIN assignments /\ assignments \in Seq(Assignment)
    BY <1>0 DEF Active, TablesOK, Assignment
  <2>1. assignments[i] \in Assignment
    BY <2>0
  <2>2. \A a \in Assignment : [a EXCEPT !.overdue = TRUE] \in Assignment
    BY DEF Assignment
  <2>3. assignments' \in Seq(Assignment)
    BY <1>4, <2>0, <2>1, <2>2 DEF Overdue
  <2>4. TablesOK' /\ TasksOK' /\ SessionOK'
    BY <1>0, <1>4, <2>3 DEF Overdue, TablesOK, TasksOK, Labels, SessionOK, Assignment,
       ledger, sols, people, locals, session, hist
  <2>. QED
    BY <2>4 DEF TypeInv, TypeOK
<1>5. ASSUME NEW w \in known, FallSilent(w) PROVE TypeInv'
  <2>1. TablesOK' /\ TasksOK' /\ SessionOK'
    BY <1>0, <1>5 DEF FallSilent, TablesOK, TasksOK, Labels, SessionOK,
       ledger, sols, people, locals, session, hist
  <2>. QED
    BY <2>1 DEF TypeInv, TypeOK
<1>6. CASE Crash
  BY <1>6, ForgetType DEF Crash
<1>7. CASE UNCHANGED vars
  BY <1>0, <1>7 DEF vars, ledger, sols, people, locals, session, hist,
     TypeInv, TypeOK, TablesOK, TasksOK, Labels, SessionOK
<1>. QED
  BY <1>1, <1>2, <1>3, <1>4, <1>5, <1>6, <1>7 DEF Next, Time

(* Every variable keeps its type, a handler past the authentication has a    *)
(* worker, and the key it carries to the solutions table is the key of       *)
(* PUBKEY: what handle_connection relies on between its awaits.              *)
LEMMA TypeInvariant == Spec => []TypeInv
<1>. QED
  BY InitType, NextType, PTL DEF Spec

THEOREM TypeCorrect == Spec => []TypeOK
<1>1. TypeInv => TypeOK
  BY DEF TypeInv
<1>. QED
  BY <1>1, TypeInvariant, PTL

-----------------------------------------------------------------------------
(* The ledger: save_dps is the only writer of dps and of total_dps.          *)

LEMMA ConcatRows ==
  ASSUME NEW s \in Seq(Row), NEW r \in Seq(Row)
  PROVE  /\ s \o r \in Seq(Row)
         /\ DOMAIN (s \o r) = 1 .. Len(s) + Len(r)
         /\ \A i \in 1 .. Len(s) : (s \o r)[i] = s[i]
         /\ \A i \in Len(s)+1 .. Len(s)+Len(r) :
              i - Len(s) \in 1 .. Len(r) /\ (s \o r)[i] = r[i - Len(s)]
<1>1. Len(s) \in Nat /\ Len(r) \in Nat /\ Len(s \o r) = Len(s) + Len(r)
  BY ConcatProperties
<1>2. \A i \in 1 .. Len(s) + Len(r) :
        (s \o r)[i] = IF i <= Len(s) THEN s[i] ELSE r[i - Len(s)]
  BY ConcatProperties
<1>3. \A i \in Len(s)+1 .. Len(s)+Len(r) : i \in 1 .. Len(s)+Len(r) /\ ~(i <= Len(s))
  BY <1>1
<1>. QED
  BY <1>1, <1>2, <1>3, ConcatProperties

(* The rows of table s that stand under the name v. *)
Count(s, v) == Cardinality({i \in DOMAIN s : s[i].worker = v})

(* Rows of one worker added at the end count for that worker only. *)
LEMMA CountRows ==
  ASSUME NEW s \in Seq(Row), NEW u, NEW v, NEW r \in Seq(RowUnder(u))
  PROVE  Count(s \o r, v) = Count(s, v) + IF u = v THEN Len(r) ELSE 0
<1>. DEFINE m == Len(s)
            n == Len(r)
            Old == {i \in DOMAIN s : s[i].worker = v}
            All == {i \in DOMAIN (s \o r) : (s \o r)[i].worker = v}
<1>0. r \in Seq(Row) /\ \A i \in 1 .. n : r[i] \in RowUnder(u)
  BY DEF RowUnder
<1>1. m \in Nat /\ n \in Nat /\ DOMAIN s = 1 .. m
  OBVIOUS
<1>2. \A i \in m+1 .. m+n : (s \o r)[i].worker = u
  BY <1>0, ConcatRows DEF RowUnder
<1>3. \A i \in 1 .. m : (s \o r)[i] = s[i]
  BY <1>0, ConcatRows
<1>4. DOMAIN (s \o r) = (1 .. m) \cup (m+1 .. m+n)
  BY <1>0, <1>1, ConcatRows
<1>5. IsFiniteSet(1 .. m) /\ IsFiniteSet(m+1 .. m+n)
  BY <1>1, FS_Interval
<1>6. Cardinality(m+1 .. m+n) = n
  <2>1. m+1 \in Int /\ m+n \in Int
    BY <1>1
  <2>2. Cardinality(m+1 .. m+n) = IF m+1 > m+n THEN 0 ELSE (m+n) - (m+1) + 1
    BY <2>1, FS_Interval
  <2>. QED
    BY <1>1, <2>2
<1>7. IsFiniteSet(Old) /\ Cardinality(Old) \in Nat
  BY <1>1, <1>5, FS_Subset, FS_CardinalityType
<1>8. CASE u # v
  <2>1. All = Old
    BY <1>1, <1>2, <1>3, <1>4, <1>8
  <2>. HIDE DEF Old, All
  <2>2. Cardinality(All) = Cardinality(Old) + IF u = v THEN n ELSE 0
    BY <1>7, <1>8, <2>1
  <2>. QED
    BY <2>2 DEF Old, All, Count
<1>9. CASE u = v
  <2>1. All = Old \cup (m+1 .. m+n)
    BY <1>1, <1>2, <1>3, <1>4, <1>9
  <2>2. Old \cap (m+1 .. m+n) = {}
    BY <1>1
  <2>3. Cardinality(All) = Cardinality(Old) + Cardinality(m+1 .. m+n) - Cardinality({})
    BY <2>1, <2>2, <1>5, <1>7, FS_Union
  <2>. HIDE DEF Old, All
  <2>4. Cardinality(All) = Cardinality(Old) + n
    BY <1>1, <1>6, <1>7, <2>3, FS_EmptySet
  <2>5. Cardinality(Old) + n = Cardinality(Old) + IF u = v THEN n ELSE 0
    BY <1>9
  <2>. QED
    BY <2>4, <2>5 DEF Old, All, Count
<1>. QED
  BY <1>8, <1>9

LEMMA SaveCredit ==
  ASSUME TypeInv, CreditMatchesRows, NEW c \in Conns, who[c] \in Workers,
         NEW b \in Seq(DPs), NEW how \in {"batch", "submit"}, save_dps(c, b, how)
  PROVE  CreditMatchesRows'
<1>. DEFINE R == Rows(who[c], b, how)
<1>1. dps \in Seq(Row) /\ total \in [Workers -> Nat] /\ Len(b) \in Nat
  BY DEF TypeInv, TypeOK, TablesOK, Row
<1>2. R \in Seq(RowUnder(who[c])) /\ Len(R) = Len(b)
  BY RowsSeq
<1>3. dps' = dps \o R /\ total' = [total EXCEPT ![who[c]] = @ + Len(b)]
  BY DEF save_dps
<1>. HIDE DEF R
<1>. SUFFICES ASSUME NEW w \in Workers PROVE total'[w] = Cardinality(RowsOf(w)')
  BY DEF CreditMatchesRows
<1>4. total[w] = Cardinality(RowsOf(w))
  BY DEF CreditMatchesRows
<1>5. Cardinality(RowsOf(w)') =
        Cardinality(RowsOf(w)) + IF who[c] = w THEN Len(R) ELSE 0
  <2>1. Cardinality(RowsOf(w)') = Count(dps \o R, w)
    BY <1>3 DEF RowsOf, Count
  <2>2. Cardinality(RowsOf(w)) = Count(dps, w)
    BY DEF RowsOf, Count
  <2>3. Count(dps \o R, w) = Count(dps, w) + IF who[c] = w THEN Len(R) ELSE 0
    BY <1>1, <1>2, CountRows
  <2>. QED
    BY <2>1, <2>2, <2>3
<1>. QED
  BY <1>1, <1>2, <1>3, <1>4, <1>5

LEMMA CreditNext == TypeInv /\ CreditMatchesRows /\ [Next]_vars => CreditMatchesRows'
<1>. SUFFICES ASSUME TypeInv, CreditMatchesRows, [Next]_vars PROVE CreditMatchesRows'
  OBVIOUS
<1>1. CASE UNCHANGED ledger
  BY <1>1 DEF ledger, CreditMatchesRows, RowsOf
<1>2. ASSUME NEW c \in Conns, SaveBatch(c) PROVE CreditMatchesRows'
  <2>1. who[c] \in Workers /\ batch[c] \in Seq(DPs)
    BY <1>2 DEF SaveBatch, Step, TypeInv, TypeOK, TasksOK, SessionOK
  <2>. QED
    BY <1>2, <2>1, SaveCredit DEF SaveBatch
<1>3. ASSUME NEW c \in Conns, NEW dp \in DPs, Submit(c, dp) PROVE CreditMatchesRows'
  <2>1. who[c] \in Workers /\ <<dp>> \in Seq(DPs)
    BY <1>3 DEF Submit, Receive, TypeInv, SessionOK
  <2>. QED
    BY <1>3, <2>1, SaveCredit DEF Submit
<1>4. ASSUME NEW c \in Conns, Serve(c), ~SaveBatch(c) PROVE UNCHANGED ledger
  BY <1>4 DEF Serve, ExpireStale, ExpireOwn, PickChunk, NoFreeChunk, InsertAssignment,
     CheckFound, CheckNext, AckBatch, RecordSolution, WriteFound, NotifySolution,
     StatsYours, sols
<1>5. ASSUME NEW c \in Conns, Request(c), ~\E dp \in DPs : Submit(c, dp)
      PROVE  UNCHANGED ledger
  BY <1>5 DEF Request, AuthOk, Disconnect, Ping, WorkReqSolved, WorkReq, BatchSolved,
     TellSolved, BatchRefused, Batch, SubmitRefused, ReportRefused, Unknown, Report, StatsTotal
<1>6. ASSUME \/ \E c \in Conns : DbError(c)
             \/ Time \/ Crash \/ UNCHANGED vars
      PROVE  UNCHANGED ledger
  BY <1>6 DEF DbError, Crash, Time, Overdue, FallSilent, vars
<1>. QED
  BY <1>1, <1>2, <1>3, <1>4, <1>5, <1>6 DEF Next

(* However handlers interleave, transactions are rolled back and the process *)
(* dies, a worker's total_dps is the number of rows of dps under its name:   *)
(* save_dps writes both in one transaction, and nothing else writes either.  *)
THEOREM CreditCorrect == Spec => []CreditMatchesRows
<1>1. Init => CreditMatchesRows
  <2>. SUFFICES ASSUME Init, NEW w \in Workers
                PROVE  total[w] = Cardinality(RowsOf(w))
    BY DEF CreditMatchesRows
  <2>1. RowsOf(w) = {} /\ total[w] = 0
    BY DEF Init, RowsOf
  <2>. QED
    BY <2>1, FS_EmptySet
<1>. QED
  BY <1>1, TypeInvariant, CreditNext, PTL DEF Spec

-----------------------------------------------------------------------------
(* The key: what is recorded, written and told of.                           *)

(* Handlers between the row and the file account for the difference.         *)
Filing == {c \in Conns : pc[c] = "file"}
Recorded ==
  /\ IsFiniteSet(Filing)
  /\ Len(foundFile) + Cardinality(Filing) <= Len(solutions)
  /\ \A c \in Conns : pc[c] \in {"file", "notify"} => solutions # <<>>

KeyInv == OnlyTheKey /\ Recorded

(* Steps that leave both tables alone and take no task to file or notify.    *)
LEMMA KeyQuiet ==
  ASSUME TypeInv, KeyInv, UNCHANGED sols,
         \A e \in Conns : pc'[e] \in {"file", "notify"} => pc'[e] = pc[e],
         \A e \in Conns : rsp'[e] = "SOLUTION" =>
                            rsp[e] = "SOLUTION" \/ solutions # <<>>
  PROVE  KeyInv'
<1>1. solutions' = solutions /\ foundFile' = foundFile
  BY DEF sols
<1>2. OnlyTheKey'
  BY <1>1 DEF KeyInv, OnlyTheKey
<1>3. Filing' \in SUBSET Filing
  BY DEF Filing
<1>4. /\ IsFiniteSet(Filing') /\ Cardinality(Filing') <= Cardinality(Filing)
      /\ Cardinality(Filing) \in Nat /\ Cardinality(Filing') \in Nat
  BY <1>3, FS_Subset, FS_CardinalityType DEF KeyInv, Recorded
<1>5. Len(foundFile) \in Nat /\ Len(solutions) \in Nat
  BY DEF TypeInv, TypeOK, TablesOK
<1>6. Len(foundFile') + Cardinality(Filing') <= Len(solutions')
  BY <1>1, <1>4, <1>5 DEF KeyInv, Recorded
<1>7. \A c \in Conns : pc'[c] \in {"file", "notify"} => solutions' # <<>>
  BY <1>1 DEF KeyInv, Recorded
<1>. QED
  BY <1>2, <1>4, <1>6, <1>7 DEF KeyInv, Recorded

LEMMA KeyRecord ==
  ASSUME TypeInv, KeyInv, NEW c \in Conns, RecordSolution(c) PROVE KeyInv'
<1>1. /\ solutions \in Seq(1 .. N-1) /\ foundFile \in Seq(1 .. N-1)
      /\ pc \in [Conns -> Labels] /\ key[c] = Key /\ Key \in 1 .. N-1
  BY ServerAssumption DEF TypeInv, TypeOK, TablesOK, TasksOK, SessionOK,
     RecordSolution, Step
<1>2. /\ solutions' = Append(solutions, Key) /\ foundFile' = foundFile
      /\ pc[c] = "record" /\ pc' = [pc EXCEPT ![c] = "file"] /\ rsp' = rsp
  BY <1>1 DEF RecordSolution, Step, Goto
<1>3. /\ solutions' # <<>> /\ Len(solutions') = Len(solutions) + 1
      /\ \A i \in DOMAIN solutions' : solutions'[i] = Key
  BY <1>1, <1>2 DEF KeyInv, OnlyTheKey
<1>4. Filing' = Filing \cup {c} /\ c \notin Filing
  BY <1>1, <1>2 DEF Filing
<1>5. IsFiniteSet(Filing') /\ Cardinality(Filing') = Cardinality(Filing) + 1
  BY <1>4, FS_AddElement DEF KeyInv, Recorded
<1>6. Len(foundFile) \in Nat /\ Len(solutions) \in Nat /\ Cardinality(Filing) \in Nat
  BY <1>1, FS_CardinalityType DEF KeyInv, Recorded
<1>7. Len(foundFile') + Cardinality(Filing') <= Len(solutions')
  BY <1>2, <1>3, <1>5, <1>6 DEF KeyInv, Recorded
<1>8. Len(foundFile') <= Len(solutions')
  BY <1>2, <1>3, <1>6 DEF KeyInv, OnlyTheKey
<1>. QED
  BY <1>3, <1>5, <1>7, <1>8 DEF KeyInv, OnlyTheKey, Recorded

LEMMA KeyWrite ==
  ASSUME TypeInv, KeyInv, NEW c \in Conns, WriteFound(c) PROVE KeyInv'
<1>1. /\ solutions \in Seq(1 .. N-1) /\ foundFile \in Seq(1 .. N-1)
      /\ pc \in [Conns -> Labels] /\ key[c] = Key /\ Key \in 1 .. N-1
  BY ServerAssumption DEF TypeInv, TypeOK, TablesOK, TasksOK, SessionOK,
     WriteFound, Step
<1>2. /\ foundFile' = Append(foundFile, Key) /\ solutions' = solutions
      /\ pc[c] = "file" /\ pc' = [pc EXCEPT ![c] = "notify"] /\ rsp' = rsp
  BY <1>1 DEF WriteFound, Step, Goto
<1>3. Len(foundFile') = Len(foundFile) + 1
  BY <1>1, <1>2
<1>4. Filing' = Filing \ {c} /\ c \in Filing
  BY <1>1, <1>2 DEF Filing
<1>5. IsFiniteSet(Filing') /\ Cardinality(Filing') = Cardinality(Filing) - 1
  BY <1>4, FS_RemoveElement DEF KeyInv, Recorded
<1>6. /\ Len(foundFile) \in Nat /\ Len(solutions) \in Nat
      /\ Cardinality(Filing) \in Nat /\ Cardinality(Filing') \in Nat
  BY <1>1, <1>5, FS_CardinalityType DEF KeyInv, Recorded
<1>7. Len(foundFile') + Cardinality(Filing') <= Len(solutions')
  BY <1>2, <1>3, <1>5, <1>6 DEF KeyInv, Recorded
<1>8. Len(foundFile') <= Len(solutions')
  BY <1>2, <1>3, <1>6, <1>7
<1>9. solutions # <<>>
  BY <1>2 DEF KeyInv, Recorded
<1>. QED
  BY <1>1, <1>2, <1>5, <1>7, <1>8, <1>9 DEF KeyInv, OnlyTheKey, Recorded

LEMMA KeyNext == TypeInv /\ KeyInv /\ [Next]_vars => KeyInv'
<1>. SUFFICES ASSUME TypeInv, KeyInv, [Next]_vars PROVE KeyInv'
  OBVIOUS
<1>. USE DEF Goto, Step, Send, Begin, Receive
<1>0. pc \in [Conns -> Labels] /\ DOMAIN rsp = Conns
  BY DEF TypeInv, TypeOK, TasksOK
<1>1. ASSUME NEW c \in Conns, Serve(c) PROVE KeyInv'
  <2>1. CASE RecordSolution(c)
    BY <2>1, KeyRecord
  <2>2. CASE WriteFound(c)
    BY <2>2, KeyWrite
  <2>3. CASE NotifySolution(c)
    <3>1. solutions # <<>>
      BY <2>3 DEF NotifySolution, KeyInv, Recorded
    <3>2. UNCHANGED sols
          /\ \A e \in Conns : pc'[e] \in {"file", "notify"} => pc'[e] = pc[e]
      BY <1>0, <2>3 DEF NotifySolution, Close
    <3>. QED
      BY <3>1, <3>2, KeyQuiet
  <2>4. ASSUME ~RecordSolution(c), ~WriteFound(c), ~NotifySolution(c)
        PROVE  KeyInv'
    <3>1. UNCHANGED sols
      BY <1>1, <2>4 DEF Serve, ExpireStale, ExpireOwn, PickChunk, NoFreeChunk,
         InsertAssignment, SaveBatch, CheckFound, CheckNext, AckBatch, StatsYours
    <3>2. \A e \in Conns : pc'[e] \in {"file", "notify"} => pc'[e] = pc[e]
      BY <1>0, <1>1, <2>4 DEF Serve, ExpireStale, ExpireOwn, PickChunk, NoFreeChunk,
         InsertAssignment, SaveBatch, CheckFound, CheckNext, AckBatch, StatsYours
    <3>3. \A e \in Conns : rsp'[e] = "SOLUTION" => rsp[e] = "SOLUTION"
      BY <1>0, <1>1, <2>4 DEF Serve, ExpireStale, ExpireOwn, PickChunk, NoFreeChunk,
         InsertAssignment, SaveBatch, CheckFound, CheckNext, AckBatch, StatsYours
    <3>. QED
      BY <3>1, <3>2, <3>3, KeyQuiet
  <2>. QED
    BY <2>1, <2>2, <2>3, <2>4
<1>2. ASSUME NEW c \in Conns, Request(c) PROVE KeyInv'
  <2>1. UNCHANGED sols
    BY <1>2 DEF Request, AuthOk, Disconnect, Ping, WorkReqSolved, WorkReq, BatchSolved,
       TellSolved, BatchRefused, Batch, Submit, SubmitRefused, ReportRefused, Unknown, Report, StatsTotal
  <2>2. \A e \in Conns : pc'[e] \in {"file", "notify"} => pc'[e] = pc[e]
    BY <1>0, <1>2 DEF Request, AuthOk, Disconnect, Ping, WorkReqSolved, WorkReq,
       BatchSolved, TellSolved, Close, BatchRefused, Batch, Submit, SubmitRefused, ReportRefused, Unknown,
       Report, StatsTotal, locals, session
  <2>3. \A e \in Conns : rsp'[e] = "SOLUTION" => rsp[e] = "SOLUTION" \/ solutions # <<>>
    BY <1>0, <1>2 DEF Request, AuthOk, Disconnect, Ping, WorkReqSolved, WorkReq,
       BatchSolved, TellSolved, BatchRefused, Batch, Submit, SubmitRefused, ReportRefused, Unknown, Report,
       StatsTotal
  <2>. QED
    BY <2>1, <2>2, <2>3, KeyQuiet
<1>3. ASSUME NEW S \in SUBSET Conns, Forget(S), UNCHANGED sols PROVE KeyInv'
  BY <1>3, KeyQuiet DEF Forget
<1>4. CASE Time \/ UNCHANGED vars
  BY <1>4, KeyQuiet DEF Time, Overdue, FallSilent, vars
<1>. QED
  BY <1>1, <1>2, <1>3, <1>4 DEF Next, DbError, Crash

(* Whatever the workers report and however their handlers interleave or die, *)
(* only the key of PUBKEY reaches the solutions table and the file, no key   *)
(* is in the file that is not in the table, and a worker is told of a        *)
(* solution only when one is committed.                                      *)
THEOREM KeyCorrect == Spec => []OnlyTheKey
<1>1. Init => KeyInv
  <2>. SUFFICES ASSUME Init PROVE KeyInv
    OBVIOUS
  <2>1. Filing = {}
    BY DEF Init, Filing
  <2>2. Len(foundFile) = 0 /\ Len(solutions) = 0 /\ DOMAIN solutions = {}
    BY DEF Init
  <2>3. Recorded
    BY <2>1, <2>2, FS_EmptySet DEF Init, Recorded
  <2>. QED
    BY <2>2, <2>3 DEF Init, KeyInv, OnlyTheKey
<1>2. KeyInv => OnlyTheKey
  BY DEF KeyInv
<1>. QED
  BY <1>1, <1>2, TypeInvariant, KeyNext, PTL DEF Spec

-----------------------------------------------------------------------------
(* The assignments.                                                          *)

(* What a step does with the table: a row is added at the end, some are      *)
(* marked expired or overdue, or nothing.                                    *)
Added ==
  \E c \in Conns : InsertAssignment(c)
Marked ==
  /\ DOMAIN assignments' = DOMAIN assignments
  /\ \A i \in DOMAIN assignments :
       /\ assignments'[i].worker = assignments[i].worker
       /\ assignments'[i].chunk = assignments[i].chunk
       /\ assignments'[i].status = "active" => assignments[i].status = "active"

LEMMA ExpireMarks ==
  ASSUME TypeInv, NEW S, Expire(S) PROVE Marked
<1>1. assignments \in Seq(Assignment)
  BY DEF TypeInv, TypeOK, TablesOK, Assignment
<1>2. DOMAIN assignments' = DOMAIN assignments
  BY DEF Expire
<1>3. ASSUME NEW i \in DOMAIN assignments
      PROVE  /\ assignments'[i].worker = assignments[i].worker
             /\ assignments'[i].chunk = assignments[i].chunk
             /\ assignments'[i].status = "active" => assignments[i].status = "active"
  <2>1. assignments[i] \in Assignment
    BY <1>1
  <2>2. assignments'[i] = IF i \in S THEN [assignments[i] EXCEPT !.status = "expired"]
                                     ELSE assignments[i]
    BY DEF Expire
  <2>. QED  BY <2>1, <2>2 DEF Assignment
<1>. QED  BY <1>2, <1>3 DEF Marked

LEMMA TableSteps == TypeInv /\ [Next]_vars => Added \/ Marked
<1> SUFFICES ASSUME TypeInv, [Next]_vars, ~Added PROVE Marked
  OBVIOUS
<1>1. CASE UNCHANGED assignments
  BY <1>1 DEF Marked
<1>2. ASSUME NEW c \in Conns, Serve(c) PROVE Marked
  <2>1. CASE ExpireStale(c) \/ ExpireOwn(c)
    BY <2>1, ExpireMarks DEF ExpireStale, ExpireOwn
  <2>2. CASE ~(ExpireStale(c) \/ ExpireOwn(c))
    BY <1>1, <1>2, <2>2 DEF Added, Serve, PickChunk, NoFreeChunk, SaveBatch, CheckFound,
       CheckNext, AckBatch, RecordSolution, WriteFound, NotifySolution, StatsYours
  <2>. QED  BY <2>1, <2>2
<1>3. ASSUME NEW i \in Active, Overdue(i) PROVE Marked
  <2>1. assignments \in Seq(Assignment) /\ i \in DOMAIN assignments
    BY DEF TypeInv, TypeOK, TablesOK, Assignment, Active
  <2>2. assignments' = [assignments EXCEPT ![i].overdue = TRUE]
    BY <1>3 DEF Overdue
  <2>3. \A j \in DOMAIN assignments : assignments[j] \in Assignment
    BY <2>1
  <2>. QED  BY <2>1, <2>2, <2>3 DEF Marked, Assignment
<1>4. ASSUME NEW c \in Conns, Request(c) \/ DbError(c) PROVE UNCHANGED assignments
  BY <1>4 DEF Request, DbError, AuthOk, Disconnect, Ping, WorkReqSolved, WorkReq,
     BatchSolved, TellSolved, BatchRefused, Batch, Submit, SubmitRefused, ReportRefused, Unknown, Report, StatsTotal
<1>5. (\E w \in known : FallSilent(w)) \/ Crash \/ UNCHANGED vars => UNCHANGED assignments
  BY DEF FallSilent, Crash, vars
<1>. QED  BY <1>1, <1>2, <1>3, <1>4, <1>5 DEF Next, Time

LEMMA AddedRow ==
  ASSUME TypeInv, NEW c \in Conns, InsertAssignment(c)
  PROVE  /\ DOMAIN assignments' = 1 .. Len(assignments) + 1
         /\ DOMAIN assignments = 1 .. Len(assignments) /\ Len(assignments) \in Nat
         /\ \A i \in 1 .. Len(assignments) : assignments'[i] = assignments[i]
         /\ assignments'[Len(assignments) + 1].worker = who[c]
<1>1. assignments \in Seq(Assignment)
  BY DEF TypeInv, TypeOK, TablesOK, Assignment
<1>2. who[c] \in Workers /\ chunk[c] \in Chunks
  BY DEF TypeInv, SessionOK, InsertAssignment, Step
<1>. DEFINE a == [worker |-> who[c], chunk |-> chunk[c], status |-> "active", overdue |-> FALSE]
<1>3. a \in Assignment /\ a.worker = who[c] /\ assignments' = Append(assignments, a)
  BY <1>2 DEF InsertAssignment, Assignment
<1>. HIDE DEF a
<1>4. /\ assignments' \in Seq(Assignment) /\ Len(assignments') = Len(assignments) + 1
      /\ \A i \in 1 .. Len(assignments) : assignments'[i] = assignments[i]
      /\ assignments'[Len(assignments) + 1] = a
  BY <1>1, <1>3, AppendProperties
<1>. QED  BY <1>1, <1>3, <1>4, LenProperties

(* A row of the table keeps its worker and its chunk for ever, and what has  *)
(* expired is not active again (server.py: assign_work).                     *)
THEOREM IdsCorrect == Spec => WorkIdsAreForever
<1>. DEFINE Lasting ==
       \A i \in DOMAIN assignments :
         /\ i \in DOMAIN assignments'
         /\ assignments'[i].worker = assignments[i].worker
         /\ assignments'[i].chunk = assignments[i].chunk
         /\ i \in Active' => i \in Active
<1>1. TypeInv /\ [Next]_vars => [Lasting]_vars
  <2> SUFFICES ASSUME TypeInv, [Next]_vars PROVE Lasting
    OBVIOUS
  <2>1. CASE Marked
    BY <2>1 DEF Marked, Active
  <2>2. CASE Added
    <3>1. PICK c \in Conns : InsertAssignment(c)
      BY <2>2 DEF Added
    <3>2. \A i \in DOMAIN assignments :
            i \in DOMAIN assignments' /\ assignments'[i] = assignments[i]
      BY <3>1, AddedRow
    <3>. QED  BY <3>2 DEF Active
  <2>. QED  BY <2>1, <2>2, TableSteps
<1>. HIDE DEF Lasting
<1>2. Spec => [][Lasting]_vars
  BY <1>1, TypeInvariant, PTL DEF Spec
<1>. QED  BY <1>2 DEF Lasting, WorkIdsAreForever

(* Who is logged in may be, and a task that goes to insert a row has found   *)
(* none of its worker active.                                                *)
WorkInv ==
  /\ NewestOnly
  /\ \A c \in Conns : pc[c] # "closed" => <<c, who[c]>> \in Login
  /\ \A c \in Conns : pc[c] \in {"pick", "insert"} /\ SoleRig(who[c]) =>
                        \A i \in Active : assignments[i].worker # who[c]

LEMMA WorkNext == TypeInv /\ WorkInv /\ [Next]_vars => WorkInv'
<1> SUFFICES ASSUME TypeInv, WorkInv, [Next]_vars PROVE WorkInv'
  OBVIOUS
<1>0. /\ pc \in [Conns -> Labels] /\ who \in [Conns -> Workers \cup {None}]
      /\ assignments \in Seq(Assignment)
  BY DEF TypeInv, TypeOK, TasksOK, TablesOK, Assignment
<1>1. ASSUME NEW c \in Conns, pc'[c] # "closed"
      PROVE  <<c, who'[c]>> \in Login
  <2>1. CASE pc[c] # "closed" /\ who'[c] = who[c]
    BY <2>1 DEF WorkInv
  <2>2. CASE pc[c] = "closed" \/ who'[c] # who[c]
    <3>1. \E w \in Workers : AuthOk(c, w)
      <4>1. ASSUME NEW e \in Conns, Serve(e) \/ Request(e), ~\E w \in Workers : AuthOk(e, w)
            PROVE  /\ pc[c] # "closed"
                   /\ who'[c] = who[c]
        BY <1>0, <1>1, <4>1 DEF Serve, Request, ExpireStale, ExpireOwn, PickChunk, NoFreeChunk,
           InsertAssignment, SaveBatch, CheckFound, CheckNext, AckBatch, RecordSolution,
           WriteFound, NotifySolution, StatsYours, Disconnect, Ping, WorkReqSolved, WorkReq,
           BatchSolved, TellSolved, Close, BatchRefused, Batch, Submit, SubmitRefused, ReportRefused, Unknown, Report,
           StatsTotal, Begin, Receive, Step, Goto, session
      <4>2. ASSUME NEW e \in Conns, NEW w \in Workers, AuthOk(e, w), e # c
            PROVE  pc[c] # "closed" /\ who'[c] = who[c]
        BY <1>0, <1>1, <4>2 DEF AuthOk, Step, Goto
      <4>3. ASSUME NEW S \in SUBSET Conns, Forget(S)
            PROVE  pc[c] # "closed" /\ who'[c] = who[c]
        BY <1>1, <4>3 DEF Forget
      <4>4. ASSUME Time \/ UNCHANGED vars
            PROVE  pc[c] # "closed" /\ who'[c] = who[c]
        BY <1>1, <4>4 DEF Time, Overdue, FallSilent, vars, session
      <4>5. ASSUME NEW e \in Conns, DbError(e)
            PROVE  pc[c] # "closed" /\ who'[c] = who[c]
        BY <4>3, <4>5 DEF DbError
      <4>6. Crash => pc[c] # "closed" /\ who'[c] = who[c]
        BY <4>3 DEF Crash
      <4>. QED  BY <2>2, <4>1, <4>2, <4>4, <4>5, <4>6 DEF Next
    <3>2. PICK w \in Workers : AuthOk(c, w)
      BY <3>1
    <3>. QED  BY <1>0, <3>2 DEF AuthOk
  <2>. QED  BY <2>1, <2>2
<1>2. ASSUME NEW c \in Conns, pc'[c] \in {"pick", "insert"}
      PROVE  who'[c] = who[c] /\ (pc[c] \in {"pick", "insert"} \/ ExpireOwn(c))
  <2>1. ASSUME NEW e \in Conns, Serve(e) \/ Request(e)
        PROVE  who'[c] = who[c] /\ (pc[c] \in {"pick", "insert"} \/ ExpireOwn(c))
    BY <1>0, <1>2, <2>1 DEF Serve, Request, ExpireStale, ExpireOwn, PickChunk, NoFreeChunk,
       InsertAssignment, SaveBatch, CheckFound, CheckNext, AckBatch, RecordSolution,
       WriteFound, NotifySolution, StatsYours, AuthOk, Disconnect, Ping, WorkReqSolved, WorkReq,
       BatchSolved, TellSolved, Close, BatchRefused, Batch, Submit, SubmitRefused, ReportRefused, Unknown, Report,
       StatsTotal, Begin, Receive, Step, Goto, session
  <2>2. ASSUME NEW S \in SUBSET Conns, Forget(S)
        PROVE  who'[c] = who[c] /\ pc[c] \in {"pick", "insert"}
    BY <1>2, <2>2 DEF Forget
  <2>3. ASSUME Time \/ UNCHANGED vars
        PROVE  who'[c] = who[c] /\ pc[c] \in {"pick", "insert"}
    BY <1>2, <2>3 DEF Time, Overdue, FallSilent, vars, session
  <2>. QED  BY <2>1, <2>2, <2>3 DEF Next, DbError, Crash
<1>3. CASE Marked
  <2>1. Active' \subseteq Active /\ DOMAIN assignments' = DOMAIN assignments
        /\ \A i \in DOMAIN assignments : assignments'[i].worker = assignments[i].worker
    BY <1>3 DEF Marked, Active
  <2>2. NewestOnly'
    BY <2>1 DEF WorkInv, NewestOnly, Active, SoleRig
  <2>3. ASSUME NEW c \in Conns, pc'[c] \in {"pick", "insert"}, SoleRig(who'[c]),
               NEW i \in Active'
        PROVE  assignments'[i].worker # who'[c]
    <3>1. i \in Active /\ i \in DOMAIN assignments
          /\ assignments'[i].worker = assignments[i].worker
      BY <2>1, <2>3 DEF Active
    <3>2. CASE pc[c] \in {"pick", "insert"}
      BY <1>2, <2>3, <3>1, <3>2 DEF WorkInv
    <3>3. CASE ExpireOwn(c)
      <4>1. assignments'[i] =
              IF i \in Active /\ assignments[i].worker = who[c]
              THEN [assignments[i] EXCEPT !.status = "expired"] ELSE assignments[i]
        BY <3>1, <3>3 DEF ExpireOwn, Expire
      <4>2. assignments'[i].status = "active"
        BY <2>3 DEF Active
      <4>3. [assignments[i] EXCEPT !.status = "expired"].status # "active"
        BY <1>0, <3>1 DEF Assignment
      <4>. QED  BY <1>2, <2>3, <3>1, <4>1, <4>2, <4>3
    <3>. QED  BY <1>2, <2>3, <3>2, <3>3
  <2>. QED  BY <1>1, <2>2, <2>3 DEF WorkInv, SoleRig
<1>4. CASE Added
  <2>1. PICK c \in Conns : InsertAssignment(c)
    BY <1>4 DEF Added
  <2>. DEFINE n == Len(assignments)
  <2>2. /\ DOMAIN assignments' = 1 .. n + 1 /\ DOMAIN assignments = 1 .. n /\ n \in Nat
        /\ \A i \in 1 .. n : assignments'[i] = assignments[i]
        /\ assignments'[n + 1].worker = who[c]
    BY <2>1, AddedRow
  <2>3. pc[c] = "insert" /\ who' = who /\ pc' = [pc EXCEPT ![c] = "idle"]
    BY <2>1 DEF InsertAssignment, Step, Goto
  <2>4. \A i \in Active' : i \in Active \/ i = n + 1
    BY <2>2 DEF Active
  <2>5. \A i \in Active : i \in 1 .. n /\ (SoleRig(who[c]) => assignments[i].worker # who[c])
    BY <2>2, <2>3 DEF WorkInv, Active
  <2>6. NewestOnly'
    <3> SUFFICES ASSUME NEW i \in Active', NEW j \in 1 .. n + 1, j > i,
                        assignments'[j].worker = assignments'[i].worker
                 PROVE  ~SoleRig(assignments'[i].worker)
      BY <2>2 DEF NewestOnly, SoleRig
    <3>1. i \in Active /\ i \in 1 .. n
      BY <2>2, <2>4, <2>5
    <3>2. CASE j \in 1 .. n
      BY <2>2, <3>1, <3>2 DEF WorkInv, NewestOnly
    <3>3. CASE j = n + 1
      BY <2>2, <2>5, <3>1, <3>3
    <3>. QED  BY <2>2, <3>2, <3>3
  <2>7. ASSUME NEW e \in Conns, pc'[e] \in {"pick", "insert"}, SoleRig(who'[e]),
               NEW i \in Active'
        PROVE  assignments'[i].worker # who'[e]
    <3>1. e # c /\ pc[e] \in {"pick", "insert"} /\ who'[e] = who[e]
      BY <1>0, <2>3, <2>7
    <3>2. who[c] # who[e]
      BY <2>3, <2>7, <3>1 DEF WorkInv, SoleRig
    <3>3. CASE i \in Active
      BY <2>2, <2>5, <2>7, <3>1, <3>3 DEF WorkInv
    <3>4. CASE i = n + 1
      BY <2>2, <3>1, <3>2, <3>4
    <3>. QED  BY <2>4, <3>3, <3>4
  <2>. QED  BY <1>1, <2>6, <2>7 DEF WorkInv, SoleRig
<1>. QED  BY <1>3, <1>4, TableSteps

(* A worker with one rig holds at most one active chunk, its newest row,     *)
(* whatever handlers, timeouts and crashes come between the four             *)
(* transactions of assign_work.                                              *)
THEOREM NewestCorrect == Spec => []NewestOnly
<1>1. Init => WorkInv
  BY DEF Init, WorkInv, NewestOnly, Active
<1>2. WorkInv => NewestOnly
  BY DEF WorkInv
<1>. QED  BY <1>1, <1>2, TypeInvariant, WorkNext, PTL DEF Spec

-----------------------------------------------------------------------------
(* Collisions.                                                               *)

LEMMA LeastIndex ==
  ASSUME NEW S \in SUBSET Nat, S # {}
  PROVE  \E i \in S : \A j \in S : i <= j
<1>. DEFINE Less == {ss \in Nat \X Nat : ss[1] < ss[2]}
<1>1. IsWellFoundedOn(Less, Nat)
  BY NatLessThanWellFounded DEF OpToRel
<1>2. PICK i \in S : \A j \in S : <<j, i>> \notin Less
  <2>. HIDE DEF Less
  <2>. QED  BY <1>1, WFMin
<1>3. \A j \in S : ~(j < i)
  BY <1>2
<1>. QED  BY <1>3

(* A tame and a wild kangaroo at one point give the key, in one of the two   *)
(* orders of the subtraction.                                                *)
LEMMA MeetingGivesKey ==
  ASSUME NEW s \in DPs, NEW t \in DPs, s.type = 0, t.type # 0, Point(s) = Point(t)
  PROVE  KeyFrom(s.d, t.d) # {} /\ KeyFrom(t.d, s.d) # {}
<1>1. /\ N \in Nat \ {0} /\ Key \in 1 .. N-1 /\ Key # 0
      /\ s.d \in 0 .. N-1 /\ t.d \in 0 .. N-1 /\ t.type \in {1, 2}
  BY ServerAssumption
<1>2. \A a \in Nat : a < N => (a + N) % N = a /\ (a - N) % N = a /\ a % N = a
  BY <1>1
<1>3. CASE t.type = 1
  <2>1. s.d = (Key + t.d) % N
    BY <1>3 DEF Point
  <2>2. (s.d - t.d) % N = Key
    <3>1. CASE Key + t.d < N
      <4>1. s.d - t.d = Key
        BY <1>1, <1>2, <2>1, <3>1
      <4>. QED  BY <1>1, <1>2, <4>1
    <3>2. CASE ~(Key + t.d < N)
      <4>1. Key + t.d - N \in Nat /\ Key + t.d - N < N /\ (Key + t.d - N) + N = Key + t.d
        BY <1>1, <3>2
      <4>2. s.d = Key + t.d - N
        BY <1>2, <2>1, <4>1
      <4>3. s.d - t.d = Key - N
        BY <1>1, <4>2
      <4>. QED  BY <1>1, <1>2, <4>3
    <3>. QED  BY <3>1, <3>2
  <2>. QED  BY <1>1, <2>2 DEF KeyFrom, _compute_key, _verify_privkey
<1>4. CASE t.type = 2
  <2>1. s.d = (t.d - Key) % N
    BY <1>4 DEF Point
  <2>2. (t.d - s.d) % N = Key
    <3>1. CASE t.d >= Key
      <4>1. s.d = t.d - Key
        BY <1>1, <1>2, <2>1, <3>1
      <4>2. t.d - s.d = Key
        BY <1>1, <4>1
      <4>. QED  BY <1>1, <1>2, <4>2
    <3>2. CASE ~(t.d >= Key)
      <4>1. t.d - Key + N \in Nat /\ t.d - Key + N < N /\ (t.d - Key + N) - N = t.d - Key
        BY <1>1, <3>2
      <4>2. s.d = t.d - Key + N
        BY <1>2, <2>1, <4>1
      <4>3. t.d - s.d = Key - N
        BY <1>1, <4>2
      <4>. QED  BY <1>1, <1>2, <4>3
    <3>. QED  BY <3>1, <3>2
  <2>. QED  BY <1>1, <2>2 DEF KeyFrom, _compute_key, _verify_privkey
<1>. QED  BY <1>1, <1>3, <1>4

(* A record that some handler has saved and not yet compared.                *)
Unchecked(c) == {batch[c][k] : k \in {k \in DOMAIN batch[c] : k >= cur[c]}}
Pending(dp)  == \E c \in Conns : pc[c] = "check" /\ dp \in Unchecked(c)
Settled ==
  \/ lost \/ solutions # <<>>
  \/ \E c \in Conns : pc[c] = "record"

(* The tame side of a collision finds every wild row that was there before;  *)
(* the wild side finds the tame one, or a wild row before it that the tame   *)
(* one has found; or a row at the opposite point stands before the partner.  *)
TameFirst(i, j) ==
  Colliding(i, j) /\ dps[i].via = "batch" =>
    /\ j < i => Pending(dps[i].dp) \/ HiddenFrom(j, i)
    /\ dps[j].via = "batch" =>
         Pending(dps[i].dp) \/ Pending(dps[j].dp) \/ HiddenFrom(j, i)
           \/ (i < j /\ HiddenFrom(i, j))
PairInv == Settled \/ \A i, j \in DOMAIN dps : TameFirst(i, j)

(* A comparison that fails leaves the claims of the other records standing.  *)
LEMMA NextKeepsPairs ==
  ASSUME TypeInv, NEW c \in Conns, CheckNext(c), \A i, j \in DOMAIN dps : TameFirst(i, j)
  PROVE  \A i, j \in DOMAIN dps : TameFirst(i, j)'
<1>. DEFINE r == batch[c][cur[c]]
<1>1. /\ pc[c] = "check" /\ cur[c] <= Len(batch[c]) /\ cur' = [cur EXCEPT ![c] = @ + 1]
      /\ UNCHANGED <<dps, pc, batch>>
      /\ \A i \in DOMAIN dps : Hit(r, i) => KeyFrom(r.d, dps[i].dp.d) = {}
  BY DEF CheckNext, ledger
<1>2. dps \in Seq(Row) /\ cur \in [Conns -> Nat] /\ batch \in [Conns -> Seq(DPs)]
  BY DEF TypeInv, TypeOK, TablesOK, TasksOK, Row
<1>3. DOMAIN dps \subseteq Nat /\ \A i \in DOMAIN dps : dps[i].dp \in DPs
  <2>1. DOMAIN dps = 1 .. Len(dps) /\ Len(dps) \in Nat /\ \A i \in DOMAIN dps : dps[i] \in Row
    BY <1>2
  <2>. QED  BY <2>1 DEF Row
<1>. HIDE DEF r
<1>4. ASSUME NEW dp, Pending(dp), dp # r
      PROVE  Pending(dp)'
  <2>1. PICK e \in Conns : pc[e] = "check" /\ dp \in Unchecked(e)
    BY <1>4 DEF Pending
  <2>2. PICK k \in DOMAIN batch[e] : k >= cur[e] /\ dp = batch[e][k]
    BY <2>1 DEF Unchecked
  <2>3. k \in Nat /\ cur[e] \in Nat
    BY <1>2, <2>2
  <2>4. k >= cur'[e]
    BY <1>1, <1>2, <1>4, <2>2, <2>3 DEF r
  <2>5. dp \in Unchecked(e)'
    BY <1>1, <2>2, <2>4 DEF Unchecked
  <2>. QED  BY <1>1, <2>1, <2>5 DEF Pending
<1>5. ASSUME NEW S \in SUBSET DOMAIN dps, S = OtherType(r), S # {}
      PROVE  \E h \in S : Hit(r, h)
  BY <1>3, <1>5, LeastIndex DEF Hit
<1>6. ASSUME NEW i \in DOMAIN dps, NEW j \in DOMAIN dps, Colliding(i, j), dps[i].dp = r
      PROVE  HiddenFrom(j, i)
  <2>1. j \in OtherType(r) /\ OtherType(r) \subseteq DOMAIN dps
    BY <1>6 DEF OtherType, Colliding, X
  <2>2. PICK h \in OtherType(r) : Hit(r, h)
    BY <1>5, <2>1
  <2>3. h \in DOMAIN dps /\ h <= j /\ X(dps[h].dp) = X(r) /\ dps[h].dp.type # r.type
    BY <2>1, <2>2 DEF OtherType, Hit
  <2>4. r.type = 0 /\ r \in DPs /\ Point(dps[j].dp) = Point(r) /\ X(dps[j].dp) = X(r)
    BY <1>3, <1>6 DEF Colliding, X
  <2>5. Point(dps[h].dp) # Point(r)
    <3>1. Point(dps[h].dp) = Point(r) => KeyFrom(r.d, dps[h].dp.d) # {}
      BY <1>3, <2>3, <2>4, MeetingGivesKey
    <3>. QED  BY <1>1, <2>2, <2>3, <3>1
  <2>6. h < j
    BY <1>3, <2>3, <2>4, <2>5
  <2>. QED  BY <1>6, <2>3, <2>4, <2>5, <2>6 DEF HiddenFrom, Opposite
<1>7. ASSUME NEW i \in DOMAIN dps, NEW j \in DOMAIN dps, Colliding(i, j),
             dps[i].via = "batch", dps[j].dp = r
      PROVE  Pending(dps[i].dp) \/ HiddenFrom(j, i) \/ (i < j /\ HiddenFrom(i, j))
  <2>1. i \in OtherType(r) /\ OtherType(r) \subseteq DOMAIN dps
    BY <1>7 DEF OtherType, Colliding, X
  <2>2. PICK h \in OtherType(r) : Hit(r, h)
    BY <1>5, <2>1
  <2>3. h \in DOMAIN dps /\ h <= i /\ X(dps[h].dp) = X(r) /\ dps[h].dp.type # r.type
    BY <2>1, <2>2 DEF OtherType, Hit
  <2>4. KeyFrom(r.d, dps[h].dp.d) = {}
    BY <1>1, <2>2, <2>3
  <2>5. r.type # 0 /\ dps[i].dp.type = 0 /\ Point(dps[i].dp) = Point(r) /\ X(dps[i].dp) = X(r)
    BY <1>7 DEF Colliding, X
  <2>6. CASE j < i
    BY <1>7, <2>6 DEF TameFirst
  <2>7. CASE ~(j < i) /\ Point(dps[h].dp) # Point(r)
    <3>1. h # i
      BY <2>5, <2>7
    <3>2. h < i /\ i < j
      <4>1. i # j
        BY <1>7, <2>5
      <4>. QED  BY <1>3, <2>3, <2>7, <3>1, <4>1
    <3>. QED  BY <1>7, <2>3, <2>5, <2>7, <3>2 DEF HiddenFrom, Opposite
  <2>8. CASE ~(j < i) /\ Point(dps[h].dp) = Point(r)
    <3>1. dps[h].dp.type # 0
      <4>1. dps[h].dp.type = 0 => KeyFrom(r.d, dps[h].dp.d) # {}
        <5>1. r \in DPs /\ dps[h].dp \in DPs
          BY <1>3, <1>7, <2>3
        <5>. QED  BY <2>5, <2>8, <5>1, MeetingGivesKey
      <4>. QED  BY <2>4, <4>1
    <3>2. Colliding(i, h) /\ h < i
      BY <1>3, <2>3, <2>5, <2>8, <3>1 DEF Colliding
    <3>3. Pending(dps[i].dp) \/ HiddenFrom(h, i)
      BY <1>7, <2>3, <3>2 DEF TameFirst
    <3>4. HiddenFrom(h, i) => HiddenFrom(j, i)
      <4>1. h < j /\ X(dps[j].dp) = X(dps[h].dp) /\ Point(dps[j].dp) = Point(dps[h].dp)
        BY <1>3, <1>7, <2>3, <2>8, <3>2
      <4>2. ASSUME NEW k \in DOMAIN dps, k < h  PROVE k < j
        BY <1>3, <2>3, <4>1, <4>2
      <4>. QED  BY <4>1, <4>2 DEF HiddenFrom, Opposite
    <3>. QED  BY <3>3, <3>4
  <2>. QED  BY <2>6, <2>7, <2>8
<1>8. ASSUME NEW i \in DOMAIN dps, NEW j \in DOMAIN dps, Colliding(i, j),
             dps[i].via = "batch"
      PROVE  /\ j < i => Pending(dps[i].dp)' \/ HiddenFrom(j, i)
             /\ dps[j].via = "batch" =>
                  Pending(dps[i].dp)' \/ Pending(dps[j].dp)' \/ HiddenFrom(j, i)
                    \/ (i < j /\ HiddenFrom(i, j))
  <2>1. Pending(dps[i].dp) => Pending(dps[i].dp)' \/ HiddenFrom(j, i)
    BY <1>1, <1>4, <1>6, <1>8
  <2>2. dps[j].dp # r /\ Pending(dps[j].dp) => Pending(dps[j].dp)'
    BY <1>1, <1>4
  <2>3. dps[j].dp = r =>
          Pending(dps[i].dp) \/ HiddenFrom(j, i) \/ (i < j /\ HiddenFrom(i, j))
    BY <1>7, <1>8
  <2>4. TameFirst(i, j)
    OBVIOUS
  <2>. QED  BY <1>8, <2>1, <2>2, <2>3, <2>4 DEF TameFirst
<1>9. dps' = dps
  BY <1>1
<1>10. \A i, j : (HiddenFrom(i, j) <=> HiddenFrom(i, j)') /\ (Colliding(i, j) <=> Colliding(i, j)')
  BY <1>9 DEF HiddenFrom, Opposite, Colliding, X, Point
<1>. QED  BY <1>8, <1>9, <1>10 DEF TameFirst

LEMMA SettledStays == TypeInv /\ Settled /\ [Next]_vars => Settled'
<1> SUFFICES ASSUME TypeInv, Settled, [Next]_vars PROVE Settled'
  OBVIOUS
<1>0. pc \in [Conns -> Labels] /\ solutions \in Seq(1 .. N-1) /\ key \in [Conns -> 0 .. N-1]
  BY DEF TypeInv, TypeOK, TablesOK, TasksOK
<1>1. ASSUME NEW c \in Conns, RecordSolution(c) PROVE Settled'
  <2>1. solutions' = Append(solutions, key[c]) /\ key[c] \in 1 .. N-1
    BY <1>0, <1>1, ServerAssumption DEF RecordSolution, TypeInv, SessionOK, Step
  <2>2. solutions' # <<>>
    BY <1>0, <2>1, AppendProperties
  <2>. QED  BY <2>2 DEF Settled
<1>2. ASSUME NEW S \in SUBSET Conns, Forget(S), UNCHANGED solutions PROVE Settled'
  <2>1. CASE lost \/ solutions # <<>>
    BY <1>2, <2>1 DEF Settled, Forget
  <2>2. ASSUME NEW c \in Conns, pc[c] = "record" PROVE Settled'
    BY <1>2, <2>2 DEF Settled, Forget
  <2>. QED  BY <2>1, <2>2 DEF Settled
<1>3. ASSUME lost' = lost, solutions' = solutions,
             \A c \in Conns : pc[c] = "record" => pc'[c] = "record"
      PROVE  Settled'
  BY <1>3 DEF Settled
<1>4. ASSUME NEW c \in Conns, Serve(c), ~RecordSolution(c) PROVE Settled'
  <2>1. lost' = lost /\ solutions' = solutions
    BY <1>4 DEF Serve, ExpireStale, ExpireOwn, PickChunk, NoFreeChunk, InsertAssignment,
       SaveBatch, CheckFound, CheckNext, AckBatch, WriteFound, NotifySolution, StatsYours,
       hist, sols
  <2>2. \A e \in Conns : pc[e] = "record" => pc'[e] = "record"
    BY <1>0, <1>4 DEF Serve, ExpireStale, ExpireOwn, PickChunk, NoFreeChunk,
       InsertAssignment, SaveBatch, CheckFound, CheckNext, AckBatch, WriteFound,
       NotifySolution, StatsYours, Step, Goto, Close
  <2>. QED  BY <1>3, <2>1, <2>2
<1>5. ASSUME NEW c \in Conns, Request(c) PROVE Settled'
  <2>1. lost' = lost /\ solutions' = solutions
    BY <1>5 DEF Request, AuthOk, Disconnect, Ping, WorkReqSolved, WorkReq, BatchSolved,
       TellSolved, BatchRefused, Batch, Submit, SubmitRefused, ReportRefused, Unknown, Report, StatsTotal, hist, sols
  <2>2. \A e \in Conns : pc[e] = "record" => pc'[e] = "record"
    BY <1>0, <1>5 DEF Request, AuthOk, Disconnect, Ping, WorkReqSolved, WorkReq, BatchSolved,
       TellSolved, BatchRefused, Batch, Submit, SubmitRefused, ReportRefused, Unknown, Report, StatsTotal, Begin,
       Receive, Step, Goto, Close
  <2>. QED  BY <1>3, <2>1, <2>2
<1>6. CASE Time \/ UNCHANGED vars
  BY <1>3, <1>6 DEF Time, Overdue, FallSilent, vars, hist, sols
<1>. QED  BY <1>1, <1>2, <1>4, <1>5, <1>6 DEF Next, DbError, Crash, sols

(* A comparison under way is under way after any step of another task.       *)
LEMMA PendingStays ==
  ASSUME NEW S \in SUBSET Conns, \A e \in S : pc[e] = "check" => Unchecked(e) = {},
         \A e \in Conns \ S : pc'[e] = pc[e] /\ cur'[e] = cur[e] /\ batch'[e] = batch[e],
         NEW dp, Pending(dp)
  PROVE  Pending(dp)'
<1>1. PICK e \in Conns : pc[e] = "check" /\ dp \in Unchecked(e)
  BY DEF Pending
<1>2. e \in Conns \ S
  BY <1>1
<1>3. Unchecked(e)' = Unchecked(e)
  BY <1>2 DEF Unchecked
<1>. QED  BY <1>1, <1>2, <1>3 DEF Pending

(* Rows keep their places, and so what hides a row goes on hiding it.        *)
LEMMA HiddenStays ==
  ASSUME DOMAIN dps \subseteq DOMAIN dps', \A k \in DOMAIN dps : dps'[k] = dps[k],
         DOMAIN dps \subseteq Nat, NEW i \in DOMAIN dps, NEW j \in DOMAIN dps,
         HiddenFrom(i, j)
  PROVE  HiddenFrom(i, j)'
<1>1. PICK k \in DOMAIN dps :
        k < i /\ Opposite(dps[k].dp, dps[i].dp) /\ dps[k].dp.type # dps[j].dp.type
  BY DEF HiddenFrom
<1>2. dps'[k] = dps[k] /\ dps'[i] = dps[i] /\ dps'[j] = dps[j] /\ k \in DOMAIN dps'
  OBVIOUS
<1>3. Opposite(dps[k].dp, dps[i].dp)'
  BY <1>1, <1>2 DEF Opposite, X, Point
<1>. QED  BY <1>1, <1>2, <1>3 DEF HiddenFrom

LEMMA PairQuiet ==
  ASSUME PairInv, ~Settled, dps' = dps,
         NEW S \in SUBSET Conns, \A e \in S : pc[e] = "check" => Unchecked(e) = {},
         \A e \in Conns \ S : pc'[e] = pc[e] /\ cur'[e] = cur[e] /\ batch'[e] = batch[e]
  PROVE  PairInv'
<1>1. \A dp : Pending(dp) => Pending(dp)'
  BY PendingStays
<1>2. \A i, j \in DOMAIN dps : TameFirst(i, j)
  BY DEF PairInv
<1>3. \A i, j : HiddenFrom(i, j)' <=> HiddenFrom(i, j)
  BY DEF HiddenFrom, Opposite, X, Point
<1>4. ASSUME NEW i \in DOMAIN dps, NEW j \in DOMAIN dps PROVE TameFirst(i, j)'
  BY <1>1, <1>2, <1>3 DEF TameFirst, Colliding
<1>. QED  BY <1>4 DEF PairInv

(* New rows follow the old ones.                                             *)
LEMMA SavedRows ==
  ASSUME TypeInv, NEW w \in Workers, NEW b \in Seq(DPs), NEW how \in {"batch", "submit"},
         dps' = dps \o Rows(w, b, how)
  PROVE  /\ DOMAIN dps = 1 .. Len(dps) /\ Len(dps) \in Nat /\ Len(b) \in Nat
         /\ DOMAIN dps' = 1 .. Len(dps) + Len(b)
         /\ \A i \in 1 .. Len(dps) : dps'[i] = dps[i]
         /\ \A i \in DOMAIN dps' : i > Len(dps) =>
              /\ i - Len(dps) \in DOMAIN b
              /\ dps'[i].dp = b[i - Len(dps)] /\ dps'[i].via = how /\ dps'[i].worker = w
<1>1. dps \in Seq(Row) /\ Rows(w, b, how) \in Seq(Row) /\ Len(Rows(w, b, how)) = Len(b)
  BY RowsSeq DEF TypeInv, TypeOK, TablesOK, Row
<1>2. /\ dps' \in Seq(Row) /\ Len(dps') = Len(dps) + Len(b)
      /\ \A i \in 1 .. Len(dps) + Len(b) :
           dps'[i] = IF i <= Len(dps) THEN dps[i] ELSE Rows(w, b, how)[i - Len(dps)]
  <2>1. ASSUME NEW s \in Seq(Row), NEW t \in Seq(Row)
        PROVE  /\ s \o t \in Seq(Row) /\ Len(s \o t) = Len(s) + Len(t)
               /\ \A i \in 1 .. Len(s) + Len(t) :
                    (s \o t)[i] = IF i <= Len(s) THEN s[i] ELSE t[i - Len(s)]
    BY <2>1, ConcatProperties
  <2>. QED  BY <1>1, <2>1
<1>3. DOMAIN b = 1 .. Len(b) /\ Len(b) \in Nat /\ Len(dps) \in Nat
  BY <1>1
<1>4. \A k \in DOMAIN b : Rows(w, b, how)[k] = [worker |-> w, dp |-> b[k], via |-> how]
  BY DEF Rows
<1>5. DOMAIN dps' = 1 .. Len(dps) + Len(b) /\ DOMAIN dps = 1 .. Len(dps)
  BY <1>1, <1>2, LenProperties
<1>6. ASSUME NEW i \in DOMAIN dps', i > Len(dps)
      PROVE  /\ i - Len(dps) \in DOMAIN b
             /\ dps'[i].dp = b[i - Len(dps)] /\ dps'[i].via = how /\ dps'[i].worker = w
  <2>1. i \in Nat /\ i - Len(dps) \in 1 .. Len(b) /\ ~(i <= Len(dps))
    BY <1>3, <1>5, <1>6
  <2>2. dps'[i] = Rows(w, b, how)[i - Len(dps)]
    BY <1>2, <1>5, <1>6, <2>1
  <2>3. i - Len(dps) \in DOMAIN b
    BY <1>3, <2>1
  <2>4. dps'[i] = [worker |-> w, dp |-> b[i - Len(dps)], via |-> how]
    BY <1>4, <2>2, <2>3
  <2>. QED  BY <2>3, <2>4
<1>7. \A i \in 1 .. Len(dps) : dps'[i] = dps[i]
  BY <1>2, <1>3
<1>. QED  BY <1>3, <1>5, <1>6, <1>7

LEMMA SubmitKeepsPairs ==
  ASSUME TypeInv, PairInv, ~Settled, NEW c \in Conns, NEW dp \in DPs, Submit(c, dp)
  PROVE  PairInv'
<1>. DEFINE n == Len(dps)
<1>1. who[c] \in Workers /\ <<dp>> \in Seq(DPs)
  BY DEF Submit, Receive, TypeInv, SessionOK
<1>2. /\ dps' = dps \o Rows(who[c], <<dp>>, "submit")
      /\ UNCHANGED <<pc, cur, batch>>
  BY DEF Submit, save_dps, locals
<1>3. /\ DOMAIN dps = 1 .. n /\ n \in Nat
      /\ DOMAIN dps' = 1 .. n + Len(<<dp>>)
      /\ \A i \in 1 .. n : dps'[i] = dps[i]
      /\ \A i \in DOMAIN dps' : i > n => dps'[i].via = "submit"
  BY <1>1, <1>2, SavedRows
<1>4. \A r : Pending(r) => Pending(r)'
  BY <1>2 DEF Pending, Unchecked
<1>5. \A i, j \in 1 .. n : TameFirst(i, j)
  BY <1>3 DEF PairInv
<1>. HIDE DEF n
<1>6. ASSUME NEW i \in DOMAIN dps', NEW j \in DOMAIN dps' PROVE TameFirst(i, j)'
  <2>1. CASE i > n
    <3>1. dps'[i].via # "batch"
      BY <1>3, <2>1
    <3>. QED  BY <3>1 DEF TameFirst
  <2>2. CASE ~(i > n) /\ j > n
    <3>1. dps'[j].via # "batch" /\ ~(j < i)
      BY <1>3, <2>2
    <3>. QED  BY <3>1 DEF TameFirst
  <2>3. CASE ~(i > n) /\ ~(j > n)
    <3>1. i \in 1 .. n /\ j \in 1 .. n /\ dps'[i] = dps[i] /\ dps'[j] = dps[j]
      BY <1>3, <2>3
    <3>2. /\ HiddenFrom(i, j) => HiddenFrom(i, j)'
          /\ HiddenFrom(j, i) => HiddenFrom(j, i)'
      <4>1. /\ DOMAIN dps \subseteq DOMAIN dps' /\ DOMAIN dps \subseteq Nat
            /\ \A k \in DOMAIN dps : dps'[k] = dps[k]
        BY <1>3
      <4>. QED  BY <1>3, <3>1, <4>1, HiddenStays
    <3>3. /\ Pending(dps[i].dp) => Pending(dps[i].dp)'
          /\ Pending(dps[j].dp) => Pending(dps[j].dp)'
      BY <1>4, <3>1
    <3>4. TameFirst(i, j) /\ (Colliding(i, j)' => Colliding(i, j))
      BY <1>5, <3>1 DEF Colliding, Point
    <3>. QED  BY <3>1, <3>2, <3>3, <3>4 DEF TameFirst
  <2>. QED  BY <2>1, <2>2, <2>3
<1>. QED  BY <1>6 DEF PairInv

LEMMA SaveKeepsPairs ==
  ASSUME TypeInv, PairInv, ~Settled, NEW c \in Conns, SaveBatch(c)
  PROVE  PairInv'
<1>. DEFINE n == Len(dps)
<1>0. pc \in [Conns -> Labels] /\ cur \in [Conns -> Nat] /\ batch \in [Conns -> Seq(DPs)]
  BY DEF TypeInv, TypeOK, TasksOK
<1>1. who[c] \in Workers /\ batch[c] \in Seq(DPs)
  BY <1>0 DEF SaveBatch, Step, TypeInv, SessionOK
<1>2. /\ dps' = dps \o Rows(who[c], batch[c], "batch")
      /\ pc[c] = "save" /\ pc' = [pc EXCEPT ![c] = "check"] /\ cur' = [cur EXCEPT ![c] = 1]
      /\ batch' = batch
  BY DEF SaveBatch, Step, Goto, save_dps
<1>3. /\ DOMAIN dps = 1 .. n /\ n \in Nat
      /\ DOMAIN dps' = 1 .. n + Len(batch[c])
      /\ \A i \in 1 .. n : dps'[i] = dps[i]
      /\ \A i \in DOMAIN dps' : i > n => i - n \in DOMAIN batch[c] /\ dps'[i].dp = batch[c][i - n]
  BY <1>1, <1>2, SavedRows
<1>4. ASSUME NEW r, Pending(r) PROVE Pending(r)'
  <2>1. \A e \in Conns \ {c} : pc'[e] = pc[e] /\ cur'[e] = cur[e] /\ batch'[e] = batch[e]
    BY <1>0, <1>2
  <2>2. \A e \in {c} : pc[e] = "check" => Unchecked(e) = {}
    BY <1>2
  <2>. QED  BY <1>4, <2>1, <2>2, PendingStays
<1>5. \A i, j \in 1 .. n : TameFirst(i, j)
  BY <1>3 DEF PairInv
<1>. HIDE DEF n
<1>6. ASSUME NEW i \in DOMAIN dps', i > n PROVE Pending(dps[i].dp)'
  <2>1. i - n \in DOMAIN batch[c] /\ dps'[i].dp = batch[c][i - n]
    BY <1>3, <1>6
  <2>2. pc'[c] = "check" /\ cur'[c] = 1 /\ batch'[c] = batch[c]
    BY <1>0, <1>2
  <2>3. DOMAIN batch[c] = 1 .. Len(batch[c])
    BY <1>1
  <2>4. dps'[i].dp \in Unchecked(c)'
    BY <2>1, <2>2, <2>3 DEF Unchecked
  <2>. QED  BY <2>2, <2>4 DEF Pending
<1>7. ASSUME NEW i \in DOMAIN dps', NEW j \in DOMAIN dps' PROVE TameFirst(i, j)'
  <2>1. CASE i > n
    BY <1>6, <2>1 DEF TameFirst
  <2>2. CASE ~(i > n) /\ j > n
    <3>1. ~(j < i)
      BY <1>3, <2>2
    <3>. QED  BY <1>6, <2>2, <3>1 DEF TameFirst
  <2>3. CASE ~(i > n) /\ ~(j > n)
    <3>1. i \in 1 .. n /\ j \in 1 .. n /\ dps'[i] = dps[i] /\ dps'[j] = dps[j]
      BY <1>3, <2>3
    <3>2. /\ HiddenFrom(i, j) => HiddenFrom(i, j)'
          /\ HiddenFrom(j, i) => HiddenFrom(j, i)'
      <4>1. /\ DOMAIN dps \subseteq DOMAIN dps' /\ DOMAIN dps \subseteq Nat
            /\ \A k \in DOMAIN dps : dps'[k] = dps[k]
        BY <1>3
      <4>. QED  BY <1>3, <3>1, <4>1, HiddenStays
    <3>3. /\ Pending(dps[i].dp) => Pending(dps[i].dp)'
          /\ Pending(dps[j].dp) => Pending(dps[j].dp)'
      BY <1>4, <3>1
    <3>4. TameFirst(i, j) /\ (Colliding(i, j)' => Colliding(i, j))
      BY <1>5, <3>1 DEF Colliding, Point
    <3>. QED  BY <3>1, <3>2, <3>3, <3>4 DEF TameFirst
  <2>. QED  BY <2>1, <2>2, <2>3
<1>. QED  BY <1>7 DEF PairInv

LEMMA PairNext == TypeInv /\ PairInv /\ [Next]_vars => PairInv'
<1> SUFFICES ASSUME TypeInv, PairInv, [Next]_vars, ~Settled PROVE PairInv'
  BY SettledStays DEF PairInv
<1>0. /\ pc \in [Conns -> Labels] /\ cur \in [Conns -> Nat] /\ batch \in [Conns -> Seq(DPs)]
      /\ key \in [Conns -> 0 .. N-1] /\ who \in [Conns -> Workers \cup {None}]
  BY DEF TypeInv, TypeOK, TasksOK
<1>1. ASSUME NEW c \in Conns, dps' = dps, pc[c] # "check",
             \A e \in Conns \ {c} : pc'[e] = pc[e] /\ cur'[e] = cur[e] /\ batch'[e] = batch[e]
      PROVE  PairInv'
  <2>1. \A e \in {c} : pc[e] = "check" => Unchecked(e) = {}
    BY <1>1
  <2>2. {c} \in SUBSET Conns
    OBVIOUS
  <2>. QED  BY <1>1, <2>1, <2>2, PairQuiet
<1>2. ASSUME NEW c \in Conns, CheckFound(c) PROVE PairInv'
  <2>1. pc'[c] = "record"
    BY <1>0, <1>2 DEF CheckFound, Goto
  <2>. QED  BY <2>1 DEF PairInv, Settled
<1>3. ASSUME NEW c \in Conns, CheckNext(c) PROVE PairInv'
  <2>1. \A i, j \in DOMAIN dps : TameFirst(i, j)'
    BY <1>3, NextKeepsPairs DEF PairInv
  <2>2. dps' = dps
    BY <1>3 DEF CheckNext, ledger
  <2>. QED  BY <2>1, <2>2 DEF PairInv
<1>4. ASSUME NEW c \in Conns, AckBatch(c) PROVE PairInv'
  <2>1. Unchecked(c) = {}
    <3>1. batch[c] \in Seq(DPs) /\ cur[c] > Len(batch[c]) /\ cur[c] \in Nat
      BY <1>0, <1>4 DEF AckBatch
    <3>2. DOMAIN batch[c] = 1 .. Len(batch[c]) /\ Len(batch[c]) \in Nat
      BY <3>1
    <3>3. \A k \in DOMAIN batch[c] : ~(k >= cur[c])
      BY <3>1, <3>2
    <3>. QED  BY <3>3 DEF Unchecked
  <2>2. dps' = dps
    BY <1>4 DEF AckBatch, ledger
  <2>3. \A e \in Conns \ {c} : pc'[e] = pc[e] /\ cur'[e] = cur[e] /\ batch'[e] = batch[e]
    BY <1>0, <1>4 DEF AckBatch, Step, Goto
  <2>. QED  BY <2>1, <2>2, <2>3, PairQuiet
<1>5. ASSUME NEW c \in Conns, Serve(c), ~CheckFound(c), ~CheckNext(c), ~AckBatch(c), ~SaveBatch(c)
      PROVE  PairInv'
  <2>1. pc[c] # "check" /\ dps' = dps
    BY <1>5 DEF Serve, ExpireStale, ExpireOwn, PickChunk, NoFreeChunk, InsertAssignment,
       RecordSolution, WriteFound, NotifySolution, StatsYours, Step, ledger
  <2>2. \A e \in Conns \ {c} : pc'[e] = pc[e] /\ cur'[e] = cur[e] /\ batch'[e] = batch[e]
    BY <1>0, <1>5 DEF Serve, ExpireStale, ExpireOwn, PickChunk, NoFreeChunk,
       InsertAssignment, RecordSolution, WriteFound, NotifySolution, StatsYours, Step, Goto,
       Close, locals
  <2>. QED  BY <1>1, <2>1, <2>2
<1>6. ASSUME NEW c \in Conns, Request(c), ~\E dp \in DPs : Submit(c, dp) PROVE PairInv'
  <2>1. pc[c] # "check" /\ dps' = dps
    BY <1>6 DEF Request, AuthOk, Disconnect, Ping, WorkReqSolved, WorkReq, BatchSolved,
       TellSolved, BatchRefused, Batch, SubmitRefused, ReportRefused, Unknown, Report, StatsTotal, Begin, Receive,
       Step, ledger
  <2>2. \A e \in Conns \ {c} : pc'[e] = pc[e] /\ cur'[e] = cur[e] /\ batch'[e] = batch[e]
    BY <1>0, <1>6 DEF Request, AuthOk, Disconnect, Ping, WorkReqSolved, WorkReq, BatchSolved,
       TellSolved, BatchRefused, Batch, SubmitRefused, ReportRefused, Unknown, Report, StatsTotal, Begin, Receive,
       Step, Goto, Close, locals
  <2>. QED  BY <1>1, <2>1, <2>2
<1>7. ASSUME NEW S \in SUBSET Conns, Forget(S), dps' = dps PROVE PairInv'
  <2>1. CASE \E c \in S : pc[c] \in {"check", "record"}
    BY <1>7, <2>1 DEF Forget, PairInv, Settled
  <2>2. CASE ~\E c \in S : pc[c] \in {"check", "record"}
    <3>1. \A e \in S : pc[e] = "check" => Unchecked(e) = {}
      BY <2>2
    <3>2. \A e \in Conns \ S : pc'[e] = pc[e] /\ cur'[e] = cur[e] /\ batch'[e] = batch[e]
      BY <1>7 DEF Forget
    <3>. QED  BY <1>7, <3>1, <3>2, PairQuiet
  <2>. QED  BY <2>1, <2>2
<1>8. CASE Time \/ UNCHANGED vars
  <2>1. dps' = dps /\ pc' = pc /\ cur' = cur /\ batch' = batch
    BY <1>8 DEF Time, Overdue, FallSilent, vars, ledger, locals
  <2>2. \A e \in {} : pc[e] = "check" => Unchecked(e) = {}
    OBVIOUS
  <2>3. {} \in SUBSET Conns
    OBVIOUS
  <2>4. \A e \in Conns \ {} : pc'[e] = pc[e] /\ cur'[e] = cur[e] /\ batch'[e] = batch[e]
    BY <2>1
  <2>. QED  BY <2>1, <2>2, <2>3, <2>4, PairQuiet
<1>. QED  BY <1>2, <1>3, <1>4, <1>5, <1>6, <1>7, <1>8, SubmitKeepsPairs, SaveKeepsPairs
     DEF Next, DbError, Crash, ledger

(* When no handler is comparing, a tame and a wild DP at one point that came *)
(* in batches have solved the puzzle, however their handlers interleaved:    *)
(* each saves all its rows before it looks for the rows of the others.  The  *)
(* one exception is a row at the opposite point that hides the partner.      *)
THEOREM CollisionCorrect == Spec => []CollisionCaught
<1>1. Init => PairInv
  BY DEF Init, PairInv
<1>2. PairInv => CollisionCaught
  <2> SUFFICES ASSUME PairInv, ~lost, \A c \in Conns : pc[c] \notin {"check", "record"},
                      NEW i \in DOMAIN dps, NEW j \in DOMAIN dps, Colliding(i, j),
                      dps[i].via = "batch", dps[j].via = "batch", solutions = <<>>
               PROVE  HiddenFrom(j, i) \/ (i < j /\ HiddenFrom(i, j))
    BY DEF CollisionCaught
  <2>1. ~Settled
    BY DEF Settled
  <2>2. \/ Pending(dps[i].dp) \/ Pending(dps[j].dp)
        \/ HiddenFrom(j, i) \/ (i < j /\ HiddenFrom(i, j))
    BY <2>1 DEF PairInv, TameFirst
  <2>. QED  BY <2>2 DEF Pending
<1>. QED  BY <1>1, <1>2, TypeInvariant, PairNext, PTL DEF Spec

-----------------------------------------------------------------------------
(* The server implements the pool of SharedDPStore.                          *)

Stored == {dps[i].dp : i \in DOMAIN dps}
Bringable == Key \in Claims /\ "SOLUTION" \in Requests

(* What a task will deposit is a batch; what it compares is stored; and what *)
(* it records comes from two kangaroos that met, or from a worker.           *)
Founded(c) ==
  /\ pc[c] = "save" => batch[c] \in Batches
  /\ pc[c] = "check" => /\ cur[c] \in Nat \ {0}
                        /\ \A k \in DOMAIN batch[c] : batch[c][k] \in Stored
  /\ pc[c] = "record" => Store!Meeting \/ Bringable
StoreInv == \A c \in Conns : Founded(c)

LEMMA MeetingLasts == Stored \subseteq Stored' /\ Store!Meeting => Store!Meeting'
  BY DEF Store!Meeting, Stored

LEMMA FoundedStays ==
  ASSUME NEW c \in Conns, Founded(c), Stored \subseteq Stored',
         pc'[c] \in {"save", "check", "record"} =>
           pc'[c] = pc[c] /\ batch'[c] = batch[c] /\ cur'[c] \in {cur[c], cur[c] + 1}
  PROVE  Founded(c)'
<1>1. pc'[c] = "save" => batch'[c] \in Batches
  BY DEF Founded
<1>2. pc'[c] = "check" => cur'[c] \in Nat \ {0} /\ \A k \in DOMAIN batch'[c] : batch'[c][k] \in Stored'
  BY DEF Founded
<1>3. pc'[c] = "record" => Store!Meeting' \/ Bringable
  BY MeetingLasts DEF Founded
<1>. QED  BY <1>1, <1>2, <1>3 DEF Founded, Batches, Bringable

(* A transaction of save_dps is a deposit. *)
LEMMA SavedDeposit ==
  ASSUME TypeInv, NEW c \in Conns, who[c] \in Workers, NEW b \in Batches,
         NEW how \in {"batch", "submit"}, save_dps(c, b, how), UNCHANGED sols
  PROVE  /\ Store!Next
         /\ Stored' = Stored \cup {b[k] : k \in DOMAIN b}
<1>1. b \in Seq(DPs) /\ dps' = dps \o Rows(who[c], b, how)
  BY BatchSeq DEF save_dps
<1>. DEFINE n == Len(dps)
<1>2. /\ DOMAIN dps = 1 .. n /\ n \in Nat /\ Len(b) \in Nat
      /\ DOMAIN dps' = 1 .. n + Len(b)
      /\ \A i \in 1 .. n : dps'[i] = dps[i]
      /\ \A i \in DOMAIN dps' : i > n => i - n \in DOMAIN b /\ dps'[i].dp = b[i - n]
  <2>1. ASSUME NEW w \in Workers, NEW s \in Seq(DPs), dps' = dps \o Rows(w, s, how)
        PROVE  /\ DOMAIN dps = 1 .. n /\ n \in Nat /\ Len(s) \in Nat
               /\ DOMAIN dps' = 1 .. n + Len(s)
               /\ \A i \in 1 .. n : dps'[i] = dps[i]
               /\ \A i \in DOMAIN dps' : i > n => i - n \in DOMAIN s /\ dps'[i].dp = s[i - n]
    <3>1. DOMAIN dps = 1 .. Len(dps) /\ Len(dps) \in Nat /\ Len(s) \in Nat
      BY DEF TypeInv, TypeOK, TablesOK
    <3>2. DOMAIN dps' = 1 .. Len(dps) + Len(s)
      BY <2>1, SavedRows, Zenon
    <3>3. \A i \in 1 .. Len(dps) : dps'[i] = dps[i]
      BY <2>1, SavedRows, Zenon
    <3>4. \A i \in DOMAIN dps' : i > Len(dps) =>
            /\ i - Len(dps) \in DOMAIN s
            /\ dps'[i].dp = s[i - Len(dps)] /\ dps'[i].via = how /\ dps'[i].worker = w
      BY <2>1, SavedRows, Zenon
    <3>. QED  BY <3>1, <3>2, <3>3, <3>4
  <2>. HIDE DEF n
  <2>. QED  BY <1>1, <2>1
<1>3. DOMAIN b = 1 .. Len(b)
  BY <1>1
<1>. HIDE DEF n
<1>4. ASSUME NEW s \in Stored' PROVE s \in Stored \cup {b[k] : k \in DOMAIN b}
  <2>1. PICK i \in DOMAIN dps' : s = dps'[i].dp
    BY DEF Stored
  <2>2. CASE i > n
    BY <1>2, <2>1, <2>2
  <2>3. CASE ~(i > n)
    <3>1. i \in 1 .. n
      BY <1>2, <2>3
    <3>. QED  BY <1>2, <2>1, <3>1 DEF Stored
  <2>. QED  BY <2>2, <2>3
<1>5. Stored \subseteq Stored'
  <2>1. \A i \in 1 .. n : i \in 1 .. n + Len(b)
    BY <1>2
  <2>. QED  BY <1>2, <2>1 DEF Stored
<1>6. ASSUME NEW k \in DOMAIN b PROVE b[k] \in Stored'
  <2>1. n + k \in DOMAIN dps' /\ n + k > n /\ (n + k) - n = k
    BY <1>2, <1>3
  <2>2. dps'[n + k].dp = b[k]
    BY <1>2, <2>1
  <2>. QED  BY <2>1, <2>2 DEF Stored
<1>7. Stored' = Stored \cup {b[k] : k \in DOMAIN b}
  BY <1>4, <1>5, <1>6
<1>8. Store!Deposit(who[c], b)
  BY <1>7 DEF Store!Deposit, Stored, save_dps, sols
<1>. QED  BY <1>7, <1>8 DEF Store!Next

LEMMA SingleBatch == ASSUME NEW dp \in DPs PROVE <<dp>> \in Batches
<1>1. 1 \in 1 .. MaxBatch /\ <<dp>> \in [1 .. 1 -> DPs]
  BY ServerAssumption
<1>. QED  BY <1>1 DEF Batches

(* A step that neither saves nor records is nothing the workers can see.     *)
LEMMA UnseenStep ==
  UNCHANGED <<dps, total, solutions>> =>
    Stored' = Stored /\ UNCHANGED Store!storeVars
BY DEF Stored, Store!storeVars

LEMMA StoreNext ==
  ASSUME TypeInv, StoreInv, [Next]_vars
  PROVE  StoreInv' /\ [Store!Next]_(Store!storeVars)
<1>0. /\ pc \in [Conns -> Labels] /\ cur \in [Conns -> Nat] /\ batch \in [Conns -> Seq(DPs)]
      /\ key \in [Conns -> 0 .. N-1] /\ who \in [Conns -> Workers \cup {None}]
      /\ dps \in Seq(Row) /\ solutions \in Seq(1 .. N-1)
      /\ SessionOK
  BY DEF TypeInv, TypeOK, TasksOK, TablesOK, Row
<1>1. ASSUME NEW c \in Conns, Stored \subseteq Stored', Founded(c)',
             \A e \in Conns \ {c} : pc'[e] = pc[e] /\ batch'[e] = batch[e] /\ cur'[e] \in {cur[e], cur[e] + 1}
      PROVE  StoreInv'
  BY <1>1, FoundedStays DEF StoreInv
<1>2. ASSUME Stored \subseteq Stored',
             \A e \in Conns : pc'[e] \in {"save", "check", "record"} =>
                                pc'[e] = pc[e] /\ batch'[e] = batch[e] /\ cur'[e] \in {cur[e], cur[e] + 1}
      PROVE  StoreInv'
  BY <1>2, FoundedStays DEF StoreInv
<1>3. ASSUME NEW c \in Conns, SaveBatch(c)
      PROVE  StoreInv' /\ Store!Next
  <2>1. who[c] \in Workers /\ batch[c] \in Batches
    BY <1>0, <1>3 DEF SaveBatch, Step, SessionOK, StoreInv, Founded
  <2>2. Store!Next /\ Stored' = Stored \cup {batch[c][k] : k \in DOMAIN batch[c]}
    BY <1>3, <2>1, SavedDeposit DEF SaveBatch
  <2>3. /\ pc'[c] = "check" /\ batch' = batch /\ cur'[c] = 1
        /\ \A e \in Conns \ {c} : pc'[e] = pc[e] /\ cur'[e] = cur[e]
    BY <1>0, <1>3 DEF SaveBatch, Step, Goto
  <2>4. Founded(c)'
    BY <2>2, <2>3 DEF Founded
  <2>. QED  BY <1>1, <2>2, <2>3, <2>4
<1>4. ASSUME NEW c \in Conns, NEW dp \in DPs, Submit(c, dp)
      PROVE  StoreInv' /\ Store!Next
  <2>1. who[c] \in Workers /\ <<dp>> \in Batches
    BY <1>0, <1>4, SingleBatch DEF Submit, Receive, SessionOK
  <2>2. Store!Next /\ Stored' = Stored \cup {<<dp>>[k] : k \in DOMAIN <<dp>>}
    BY <1>4, <2>1, SavedDeposit DEF Submit
  <2>3. pc' = pc /\ batch' = batch /\ cur' = cur
    BY <1>4 DEF Submit, locals
  <2>. QED  BY <1>2, <2>2, <2>3
<1>5. ASSUME NEW c \in Conns, RecordSolution(c)
      PROVE  StoreInv' /\ [Store!Next]_(Store!storeVars)
  <2>1. /\ solutions' = Append(solutions, key[c]) /\ key[c] \in 1 .. N-1
        /\ pc[c] = "record" /\ pc' = [pc EXCEPT ![c] = "file"]
        /\ UNCHANGED <<dps, total, batch, cur>>
    BY <1>0, <1>5, ServerAssumption DEF RecordSolution, Step, Goto, SessionOK, ledger, locals
  <2>2. solutions' # <<>> /\ Stored' = Stored
    BY <1>0, <2>1, AppendProperties DEF Stored
  <2>3. StoreInv'
    <3>1. \A e \in Conns : pc'[e] \in {"save", "check", "record"} =>
                             pc'[e] = pc[e] /\ batch'[e] = batch[e] /\ cur'[e] \in {cur[e], cur[e] + 1}
      BY <1>0, <2>1
    <3>. QED  BY <1>2, <2>2, <3>1
  <2>4. CASE solutions = <<>>
    <3>1. Store!Meeting \/ Bringable
      BY <2>1 DEF StoreInv, Founded
    <3>2. Store!Discover \/ Store!Bring
      BY <2>1, <2>2, <2>4, <3>1 DEF Store!Discover, Store!Bring, Bringable, Stored
    <3>. QED  BY <2>3, <3>2 DEF Store!Next
  <2>5. CASE solutions # <<>>
    BY <2>1, <2>2, <2>3, <2>5 DEF Store!storeVars, Stored
  <2>. QED  BY <2>4, <2>5
<1>6. ASSUME NEW c \in Conns, CheckFound(c)
      PROVE  StoreInv' /\ UNCHANGED Store!storeVars
  <2>. DEFINE r == batch[c][cur[c]]
  <2>1. /\ pc[c] = "check" /\ pc'[c] = "record" /\ batch' = batch
        /\ \A e \in Conns \ {c} : pc'[e] = pc[e] /\ cur'[e] = cur[e]
        /\ UNCHANGED <<dps, total, solutions>>
    BY <1>0, <1>6 DEF CheckFound, Goto, ledger, sols
  <2>2. PICK i \in DOMAIN dps : Hit(r, i) /\ KeyFrom(r.d, dps[i].dp.d) # {}
    BY <1>6 DEF CheckFound
  <2>3. batch[c] \in Seq(DPs) /\ cur[c] \in Nat \ {0} /\ cur[c] <= Len(batch[c])
    BY <1>0, <1>6, <2>1 DEF CheckFound, StoreInv, Founded
  <2>4. r \in Stored
    <3>1. cur[c] \in DOMAIN batch[c]
      BY <2>3
    <3>. QED  BY <2>1, <3>1 DEF StoreInv, Founded
  <2>5. dps[i].dp \in Stored /\ X(dps[i].dp) = X(r) /\ dps[i].dp.type # r.type
    BY <2>2 DEF Hit, OtherType, Stored
  <2>6. Store!Meeting
    BY <2>4, <2>5 DEF Store!Meeting, Stored
  <2>7. Stored' = Stored /\ UNCHANGED Store!storeVars
    BY <2>1, UnseenStep
  <2>8. Founded(c)'
    BY <2>1, <2>6, <2>7, MeetingLasts DEF Founded
  <2>. QED  BY <1>1, <2>1, <2>7, <2>8
<1>7. ASSUME NEW c \in Conns, NEW b \in Batches, Batch(c, b)
      PROVE  StoreInv' /\ UNCHANGED Store!storeVars
  <2>1. /\ pc'[c] = "save" /\ batch'[c] = b
        /\ \A e \in Conns \ {c} : pc'[e] = pc[e] /\ batch'[e] = batch[e] /\ cur'[e] \in {cur[e], cur[e] + 1}
        /\ UNCHANGED <<dps, total, solutions>>
    BY <1>0, <1>7 DEF Batch, Begin, Receive, Goto, ledger, sols
  <2>2. Founded(c)'
    BY <2>1 DEF Founded, Batches
  <2>. QED  BY <1>1, <2>1, <2>2, UnseenStep
<1>8. ASSUME NEW c \in Conns, NEW k \in Claims, Report(c, k)
      PROVE  StoreInv' /\ UNCHANGED Store!storeVars
  <2>1. /\ pc'[c] = "record" /\ batch' = batch
        /\ \A e \in Conns \ {c} : pc'[e] = pc[e] /\ cur'[e] = cur[e]
        /\ UNCHANGED <<dps, total, solutions>>
        /\ Bringable
    BY <1>0, <1>8 DEF Report, Begin, Receive, Goto, ledger, sols, Bringable, _verify_privkey
  <2>2. Founded(c)'
    BY <2>1 DEF Founded, Bringable
  <2>. QED  BY <1>1, <2>1, <2>2, UnseenStep
<1>9. ASSUME UNCHANGED <<dps, total, solutions>>,
             \A e \in Conns : pc'[e] \in {"save", "check", "record"} =>
                                pc'[e] = pc[e] /\ batch'[e] = batch[e] /\ cur'[e] \in {cur[e], cur[e] + 1}
      PROVE  StoreInv' /\ UNCHANGED Store!storeVars
  BY <1>2, <1>9, UnseenStep
<1>10. ASSUME NEW c \in Conns, Serve(c), ~SaveBatch(c), ~RecordSolution(c), ~CheckFound(c)
       PROVE  StoreInv' /\ UNCHANGED Store!storeVars
  <2>1. UNCHANGED <<dps, total, solutions>>
    BY <1>10 DEF Serve, ExpireStale, ExpireOwn, PickChunk, NoFreeChunk, InsertAssignment,
       CheckNext, AckBatch, WriteFound, NotifySolution, StatsYours, ledger, sols
  <2>2. \A e \in Conns : pc'[e] \in {"save", "check", "record"} =>
                           pc'[e] = pc[e] /\ batch'[e] = batch[e] /\ cur'[e] \in {cur[e], cur[e] + 1}
    BY <1>0, <1>10 DEF Serve, ExpireStale, ExpireOwn, PickChunk, NoFreeChunk,
       InsertAssignment, CheckNext, AckBatch, WriteFound, NotifySolution, StatsYours, Step,
       Goto, Close, locals
  <2>. QED  BY <1>9, <2>1, <2>2
<1>11. ASSUME NEW c \in Conns, Request(c), ~\E b \in Batches : Batch(c, b),
              ~\E dp \in DPs : Submit(c, dp), ~\E k \in Claims : Report(c, k)
       PROVE  StoreInv' /\ UNCHANGED Store!storeVars
  <2>1. UNCHANGED <<dps, total, solutions>>
    BY <1>11 DEF Request, AuthOk, Disconnect, Ping, WorkReqSolved, WorkReq, BatchSolved,
       TellSolved, BatchRefused, SubmitRefused, ReportRefused, Unknown, StatsTotal, ledger, sols
  <2>2. \A e \in Conns : pc'[e] \in {"save", "check", "record"} =>
                           pc'[e] = pc[e] /\ batch'[e] = batch[e] /\ cur'[e] \in {cur[e], cur[e] + 1}
    BY <1>0, <1>11 DEF Request, AuthOk, Disconnect, Ping, WorkReqSolved, WorkReq, BatchSolved,
       TellSolved, BatchRefused, SubmitRefused, ReportRefused, Unknown, StatsTotal, Begin, Receive, Step, Goto, Close,
       locals
  <2>. QED  BY <1>9, <2>1, <2>2
<1>12. ASSUME NEW S \in SUBSET Conns, Forget(S), UNCHANGED <<dps, total, solutions>>
       PROVE  StoreInv' /\ UNCHANGED Store!storeVars
  BY <1>9, <1>12 DEF Forget
<1>13. CASE Time \/ UNCHANGED vars
  <2>1. UNCHANGED <<dps, total, solutions, pc, batch, cur>>
    BY <1>13 DEF Time, Overdue, FallSilent, vars, ledger, sols, locals
  <2>. QED  BY <1>9, <2>1
<1>. QED  BY <1>3, <1>4, <1>5, <1>6, <1>7, <1>8, <1>10, <1>11, <1>12, <1>13
     DEF Next, DbError, Crash, ledger, sols

(* Every transaction, answer and crash of the server is a deposit credited   *)
(* as a whole, the discovery of the key from two kangaroos of one x, a key a *)
(* worker brought, or nothing the workers can see.                           *)
THEOREM StoreCorrect == Spec => StoreSpec
<1>1. Init => StoreInv /\ Store!Init
  BY DEF Init, StoreInv, Founded, Store!Init
<1>2. Spec => [](TypeInv /\ StoreInv)
  BY <1>1, TypeInvariant, StoreNext, PTL DEF Spec
<1>3. TypeInv /\ StoreInv /\ [Next]_vars => [Store!Next]_(Store!storeVars)
  BY StoreNext
<1>. QED  BY <1>1, <1>2, <1>3, PTL DEF Spec, StoreSpec, Store!Spec
=============================================================================

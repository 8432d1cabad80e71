--------------------------- MODULE JLPClientProofs ---------------------------
(***************************************************************************)
(* Proofs about JLPClient, for a queue, batches and connections of any     *)
(* number and a server that answers as it likes: its types, that a DP goes *)
(* out once and in order, and that tags count without a gap.               *)
(***************************************************************************)
EXTENDS JLPClient, FiniteSetTheorems, SequenceTheorems, TLAPS

USE DEF link, assigned, callbacks, receiver, sender, caller, server, dpHistory, marks

-----------------------------------------------------------------------------
(* The inductive invariant.                                                  *)

States == {"DISCONNECTED", "CONNECTING", "AUTH_SENT", "AUTH_OK", "AUTH_FAILED"}
Flags ==
  /\ sock \in BOOLEAN /\ tls \in BOOLEAN /\ connected \in BOOLEAN /\ running \in BOOLEAN
  /\ received \in BOOLEAN /\ solFound \in BOOLEAN /\ solFired \in BOOLEAN
  /\ peer \in BOOLEAN /\ okSeen \in BOOLEAN /\ broke \in BOOLEAN
Control ==
  /\ Flags
  /\ auth \in States /\ gate \in States
  /\ rpc \in {"none", "recv", "handle", "fire", "lost", "backoff", "done"}
  /\ spc \in {"none", "wait", "drain", "advance", "post", "keepalive", "done"} \cup Writer
  /\ mpc \in {"idle", "connecting", "fresh", "send", "answer", "join"} \cup Writer
  /\ req \in {"AUTH", "WORK_REQ", "SOLUTION"}

FrameTypes == {"none", "AUTH_OK", "AUTH_FAIL", "WORK_ASN", "SOLUTION", "MSG_ERROR"}
Frames     == [type : FrameTypes, id : Nat]
Tags       == [work : Nat, seq : Nat]
Asked      == {"AUTH", "WORK_REQ", "SOLUTION", "DP_BATCH"}

Shapes ==
  /\ queue \in Seq(Nat) /\ batch \in Seq(Nat) /\ sent \in Seq(Nat)
  /\ drafts \in Seq(Tags)
  /\ inbox \in Seq(Frames) /\ asked \in Seq(Asked)
  /\ frame \in Frames /\ snap \in Tags
  /\ work \in Nat /\ seqNext \in Nat
  /\ made \in 0 .. MaxDPs /\ issued \in 0 .. MaxWork /\ conns \in Nat

Limits ==
  /\ seqNext <= MaxDPs /\ snap.seq <= MaxDPs
  /\ Len(queue) <= MaxQueue /\ Len(batch) <= MaxBatch
  /\ Len(inbox) <= MaxFrames /\ Len(asked) <= MaxFrames

(* Assignments: the receiver takes them in the order of their numbers, and   *)
(* the sender has tagged nothing with one that the receiver has not.         *)
Last     == IF received THEN work ELSE 0
Newer(f) == f.type = "WORK_ASN" => Last < f.id /\ f.id <= issued
Known    == Garbage \cup 1 .. Last
InOrder ==
  \A i \in DOMAIN inbox :
    /\ Newer(inbox[i])
    /\ inbox[i].type = "WORK_ASN" =>
         /\ rpc = "handle" /\ frame.type = "WORK_ASN" => frame.id < inbox[i].id
         /\ \A j \in 1 .. i - 1 : inbox[j].type = "WORK_ASN" => inbox[j].id < inbox[i].id
Assignments ==
  /\ IF received THEN work \in 1 .. issued ELSE work \in Garbage
  /\ rpc \notin {"handle", "fire"} => frame = NoFrame
  /\ rpc = "handle" => Newer(frame)
  /\ InOrder
  /\ \A i \in DOMAIN drafts : drafts[i].work \in Known
  /\ spc \in {"drain", "advance"} => snap.work \in Known

(* The counter: between snapshot and write-back it may be behind the tags    *)
(* of the assignment the sender copied, and only of that one.                *)
Tagged(w) == {i \in DOMAIN drafts : drafts[i].work = w}
Count(w)  == Cardinality(Tagged(w))
Counters ==
  /\ SequencesCount
  /\ spc = "drain" => snap.seq = Count(snap.work)
  /\ spc = "advance" => snap.seq + Len(batch) = Count(snap.work)
  /\ ~(spc = "advance" /\ work = snap.work) => seqNext = Count(work)

(* DPs: they are numbered as they were made, and a batch lies with the       *)
(* sender only from the drain to the write.                                  *)
Holding  == {"advance", "post", "lock", "writing"}
Rising(s) == \A i, j \in DOMAIN s : i < j => s[i] < s[j]
Conveyed ==
  /\ Rising(InFlight)
  /\ \A i \in DOMAIN InFlight : InFlight[i] <= made
  /\ ~broke => Len(InFlight) = made
  /\ spc \notin Holding => batch = <<>>
  /\ Len(drafts) + Len(queue) <= made

(* A client that nothing happened to is connected and stays logged in, and   *)
(* it is not answered before it has asked.                                   *)
Fresh ==
  ~broke /\ mpc = "fresh" =>
    /\ ~okSeen
    /\ \A i \in DOMAIN asked : asked[i] # "AUTH"
    /\ \A i \in DOMAIN inbox : inbox[i].type # "AUTH_OK"
    /\ frame.type # "AUTH_OK"
Unbroken ==
  /\ mpc = "connecting" => rpc = "none" /\ spc = "none"
  /\ ~broke =>
       /\ IF conns = 0
          THEN rpc = "none" /\ spc = "none" /\ mpc \in {"idle", "connecting"}
               /\ made = 0 /\ ~okSeen /\ ~connected
          ELSE rpc \in {"recv", "handle", "fire"} /\ spc \notin {"none", "done"}
               /\ mpc \notin {"connecting", "join"}
               /\ connected /\ sock /\ running
       /\ made > 0 => okSeen
       /\ okSeen => auth = "AUTH_OK" /\ (rpc = "handle" => gate # "AUTH_SENT")

ClientInv ==
  /\ Control /\ Shapes /\ Limits
  /\ Assignments /\ Counters /\ Conveyed /\ Unbroken /\ Fresh

LEMMA InvGivesTypes == ClientInv => TypeOK /\ EachDPOnce /\ SequencesCount
<1> SUFFICES ASSUME ClientInv PROVE TypeOK /\ EachDPOnce /\ SequencesCount
  OBVIOUS
<1>1. TypeOK
  BY DEF ClientInv, Control, Flags, States, Shapes, Limits, Assignments, TypeOK, Tags
<1>. QED  BY <1>1 DEF ClientInv, Counters, Conveyed, Rising, EachDPOnce

-----------------------------------------------------------------------------
(* Sequences and counts.                                                     *)

LEMMA Halves ==
  ASSUME NEW S, NEW s \in Seq(S), NEW n \in 0 .. Len(s)
  PROVE  /\ SubSeq(s, 1, n) \in Seq(S) /\ Len(SubSeq(s, 1, n)) = n
         /\ SubSeq(s, n + 1, Len(s)) \in Seq(S) /\ Len(SubSeq(s, n + 1, Len(s))) = Len(s) - n
         /\ SubSeq(s, 1, n) \o SubSeq(s, n + 1, Len(s)) = s
<1>1. Len(s) \in Nat
  BY LenProperties
<1>2. \A i \in 1 .. Len(s) : s[i] \in S
  BY ElementOfSeq
<1>3. SubSeq(s, 1, n) \in Seq(S) /\ Len(SubSeq(s, 1, n)) = n
  BY <1>1, <1>2, SubSeqProperties
<1>4. SubSeq(s, n + 1, Len(s)) \in Seq(S) /\ Len(SubSeq(s, n + 1, Len(s))) = Len(s) - n
  BY <1>1, <1>2, SubSeqProperties
<1>5. SubSeq(s, 1, n) \o SubSeq(s, n + 1, Len(s)) = SubSeq(s, 1, Len(s))
  <2>1. 1 \in 1 .. Len(s) + 1 /\ n \in 1 - 1 .. Len(s) /\ Len(s) \in n .. Len(s)
    BY <1>1
  <2>. QED  BY <2>1, ConcatAdjacentSubSeq
<1>. QED  BY <1>3, <1>4, <1>5, SubSeqFull

LEMMA Stretch ==
  ASSUME NEW a \in Nat, NEW n \in Nat
  PROVE  IsFiniteSet(a + 1 .. a + n) /\ Cardinality(a + 1 .. a + n) = n
<1>1. a + 1 \in Int /\ a + n \in Int
  OBVIOUS
<1>2. /\ IsFiniteSet(a + 1 .. a + n)
      /\ Cardinality(a + 1 .. a + n) = IF a + 1 > a + n THEN 0 ELSE (a + n) - (a + 1) + 1
  BY <1>1, FS_Interval
<1>. QED  BY <1>2

(* A count over the tags is at most their number.                            *)
LEMMA CountBounds ==
  ASSUME Shapes, NEW w
  PROVE  Count(w) \in Nat /\ Count(w) <= Len(drafts) /\ IsFiniteSet(Tagged(w))
<1>1. DOMAIN drafts = 1 .. Len(drafts) /\ Len(drafts) \in Nat
  BY LenProperties DEF Shapes
<1>2. IsFiniteSet(1 .. Len(drafts)) /\ Cardinality(1 .. Len(drafts)) = Len(drafts)
  <2>1. 0 + 1 = 1 /\ 0 + Len(drafts) = Len(drafts)
    BY <1>1
  <2>. QED  BY <1>1, <2>1, Stretch
<1>3. Tagged(w) \subseteq 1 .. Len(drafts)
  BY <1>1 DEF Tagged
<1>. QED  BY <1>2, <1>3, FS_Subset, FS_CardinalityType DEF Count

-----------------------------------------------------------------------------
(* Flags and places, action by action.                                       *)
LEMMA ControlStep == Control /\ [Next]_vars => Control'
<1> SUFFICES ASSUME Control, [Next]_vars
             PROVE  Control'
  OBVIOUS
<1>. USE DEF Control, Flags, States, Writer
<1>1. CASE RecvFrame
  BY <1>1 DEF RecvFrame
<1>2. CASE RecvLost
  <2>1. Flags'
    BY <1>2, Zenon DEF RecvLost
  <2>. QED  BY <2>1, <1>2 DEF RecvLost
<1>3. CASE RecvCloses
  <2>1. Flags'
    BY <1>3, Zenon DEF RecvCloses
  <2>. QED  BY <2>1, <1>3 DEF RecvCloses
<1>4. CASE RecvGivesUp
  <2>1. Flags'
    BY <1>4, Zenon DEF RecvGivesUp
  <2>. QED  BY <2>1, <1>4 DEF RecvGivesUp
<1>5. CASE RecvExits
  BY <1>5 DEF RecvExits
<1>6. CASE Ignore
  BY <1>6 DEF Ignore, Handled
<1>7. CASE WorkAsn
  BY <1>7 DEF WorkAsn
<1>8. CASE Solution
  BY <1>8 DEF Solution
<1>9. CASE FireWork
  BY <1>9 DEF FireWork, Handled
<1>10. CASE FireSolution
  BY <1>10 DEF FireSolution, Handled
<1>11. CASE AuthOk
  BY <1>11 DEF AuthOk, Handled
<1>12. CASE AuthFail
  <2>1. Flags'
    BY <1>12, Zenon DEF AuthFail, Handled
  <2>. QED  BY <2>1, <1>12 DEF AuthFail, Handled
<1>13. CASE MsgError
  BY <1>13 DEF MsgError, Handled
<1>14. CASE Snapshot
  BY <1>14 DEF Snapshot
<1>15. CASE SenderExits
  BY <1>15 DEF SenderExits
<1>16. CASE Drain
  BY <1>16 DEF Drain
<1>17. CASE Advance
  BY <1>17 DEF Advance
<1>18. CASE PostBatch
  BY <1>18 DEF PostBatch
<1>19. CASE DropBatch
  BY <1>19 DEF DropBatch
<1>20. CASE Keepalive
  BY <1>20 DEF Keepalive
<1>21. CASE SenderLocks
  BY <1>21 DEF SenderLocks
<1>22. CASE SenderFails
  <2>1. Flags'
    BY <1>22, Zenon DEF SenderFails, WriteFailed, AfterWrite
  <2>. QED  BY <2>1, <1>22 DEF SenderFails, WriteFailed, AfterWrite
<1>23. CASE SenderWrote
  BY <1>23 DEF SenderWrote, AfterWrite
<1>24. CASE Connect
  BY <1>24 DEF Connect
<1>25. CASE Authenticate
  BY <1>25 DEF Authenticate
<1>26. CASE RequestWork
  BY <1>26 DEF RequestWork, Ask
<1>27. CASE ReportSolution
  BY <1>27 DEF ReportSolution, Ask
<1>28. CASE Disconnect
  <2>1. Flags'
    BY <1>28, Zenon DEF Disconnect
  <2>. QED  BY <2>1, <1>28 DEF Disconnect
<1>29. CASE ConnectFailed
  BY <1>29 DEF ConnectFailed
<1>30. CASE ConnectOk
  BY <1>30 DEF ConnectOk
<1>31. CASE CallerChecks
  BY <1>31 DEF CallerChecks
<1>32. CASE CallerLocks
  BY <1>32 DEF CallerLocks
<1>33. CASE CallerFails
  <2>1. Flags'
    BY <1>33, Zenon DEF CallerFails, WriteFailed
  <2>. QED  BY <2>1, <1>33 DEF CallerFails, WriteFailed
<1>34. CASE CallerWrote
  BY <1>34 DEF CallerWrote, Deliver
<1>35. CASE CallerReturns
  BY <1>35 DEF CallerReturns
<1>36. CASE Joined
  <2>1. Flags'
    BY <1>36, Zenon DEF Joined
  <2>. QED  BY <2>1, <1>36 DEF Joined
<1>37. CASE Answer
  BY <1>37 DEF Answer, Post
<1>38. CASE Stray
  BY <1>38 DEF Stray, Post
<1>39. CASE PeerCloses
  <2>1. Flags'
    BY <1>39, Zenon DEF PeerCloses
  <2>. QED  BY <2>1, <1>39 DEF PeerCloses
<1>40. CASE \E n \in 1 .. 2 : Submit(n)
  BY <1>40 DEF Submit
<1>41. CASE UNCHANGED vars
  BY <1>41 DEF vars
<1>. QED  BY <1>1, <1>2, <1>3, <1>4, <1>5, <1>6, <1>7, <1>8, <1>9, <1>10, <1>11, <1>12, <1>13, <1>14, <1>15, <1>16, <1>17, <1>18, <1>19, <1>20, <1>21, <1>22, <1>23, <1>24, <1>25, <1>26, <1>27, <1>28, <1>29, <1>30, <1>31, <1>32, <1>33, <1>34, <1>35, <1>36, <1>37, <1>38, <1>39, <1>40, <1>41
     DEF Next, Receiver, Sender, Calls, InCall, Network

-----------------------------------------------------------------------------
(* What the variables hold.                                                  *)

holds == <<queue, batch, sent, drafts, inbox, asked, frame, snap, work, seqNext, made,
           issued, conns>>

Ended == Ignore \/ FireWork \/ FireSolution \/ AuthOk \/ AuthFail \/ MsgError

(* The actions that change them.                                             *)
LEMMA Holders ==
  ASSUME [Next]_vars
  PROVE  \/ UNCHANGED holds
         \/ RecvFrame \/ Ended \/ WorkAsn
         \/ Snapshot \/ Drain \/ Advance \/ DropBatch \/ SenderFails \/ SenderWrote
         \/ (\E n \in 1 .. 2 : Submit(n))
         \/ ConnectOk \/ CallerWrote \/ Answer \/ Stray
BY DEF Next, vars, holds, Receiver, Sender, Calls, InCall, Network, Ended,
     RecvLost, RecvCloses, RecvGivesUp, RecvExits, Solution, SenderExits, PostBatch,
     Keepalive, SenderLocks, Connect, Authenticate, RequestWork, ReportSolution, Ask,
     Disconnect, ConnectFailed, CallerChecks, CallerLocks, CallerFails, CallerReturns,
     Joined, PeerCloses

(* The sender takes the front of the queue and tags it with its copy.        *)
LEMMA DrainFacts ==
  ASSUME Shapes, Drain
  PROVE  \E n \in Nat :
           /\ n <= MaxBatch /\ n <= Len(queue)
           /\ batch' \in Seq(Nat) /\ Len(batch') = n
           /\ queue' \in Seq(Nat) /\ Len(queue') = Len(queue) - n
           /\ batch' \o queue' = queue
           /\ drafts' \in Seq(Tags) /\ Len(drafts') = Len(drafts) + n
           /\ \A i \in 1 .. Len(drafts) : drafts'[i] = drafts[i]
           /\ \A k \in 1 .. n :
                drafts'[Len(drafts) + k] = [work |-> snap.work, seq |-> snap.seq + k - 1]
           /\ IF n = 0 THEN spc' = "keepalive" /\ snap' = NoSnap
                       ELSE spc' = "advance" /\ snap' = snap
<1>. DEFINE n == IF Len(queue) < MaxBatch THEN Len(queue) ELSE MaxBatch
            more == [i \in 1 .. n |-> [work |-> snap.work, seq |-> snap.seq + i - 1]]
<1>1. Len(queue) \in Nat /\ Len(drafts) \in Nat
  BY LenProperties DEF Shapes
<1>2. n \in Nat /\ n <= MaxBatch /\ n <= Len(queue)
  BY <1>1, ClientAssumption
<1>3. /\ batch' = SubSeq(queue, 1, n)
      /\ queue' = SubSeq(queue, n + 1, Len(queue))
      /\ drafts' = drafts \o more
      /\ IF n = 0 THEN spc' = "keepalive" /\ snap' = NoSnap
                  ELSE spc' = "advance" /\ snap' = snap
  BY DEF Drain
<1>. HIDE DEF n
<1>4. /\ batch' \in Seq(Nat) /\ Len(batch') = n
      /\ queue' \in Seq(Nat) /\ Len(queue') = Len(queue) - n
      /\ batch' \o queue' = queue
  <2>1. n \in 0 .. Len(queue)
    BY <1>1, <1>2
  <2>. QED  BY <1>3, <2>1, Halves DEF Shapes
<1>5. more \in Seq(Tags) /\ Len(more) = n
  <2>1. snap.work \in Nat /\ snap.seq \in Nat
    BY DEF Shapes, Tags
  <2>2. \A i \in 1 .. n : [work |-> snap.work, seq |-> snap.seq + i - 1] \in Tags
    BY <1>2, <2>1 DEF Tags
  <2>. QED  BY <1>2, <2>2
<1>6. \A k \in 1 .. n : more[k] = [work |-> snap.work, seq |-> snap.seq + k - 1]
  OBVIOUS
<1>. HIDE DEF more
<1>7. /\ drafts' \in Seq(Tags) /\ Len(drafts') = Len(drafts) + n
      /\ \A i \in 1 .. Len(drafts) + n :
           drafts'[i] = IF i <= Len(drafts) THEN drafts[i] ELSE more[i - Len(drafts)]
  BY <1>3, <1>5, ConcatProperties DEF Shapes
<1>8. \A i \in 1 .. Len(drafts) : drafts'[i] = drafts[i]
  BY <1>1, <1>2, <1>7
<1>9. \A k \in 1 .. n :
        drafts'[Len(drafts) + k] = [work |-> snap.work, seq |-> snap.seq + k - 1]
  <2>1. ASSUME NEW k \in 1 .. n PROVE drafts'[Len(drafts) + k] = more[k]
    <3>1. /\ Len(drafts) + k \in 1 .. Len(drafts) + n /\ ~(Len(drafts) + k <= Len(drafts))
          /\ (Len(drafts) + k) - Len(drafts) = k
      BY <1>1, <1>2
    <3>. QED  BY <1>7, <3>1
  <2>. QED  BY <1>6, <2>1
<1>. QED  BY <1>2, <1>3, <1>4, <1>7, <1>8, <1>9

(* DPs that are submitted get the next numbers.                              *)
LEMMA SubmitFacts ==
  ASSUME Shapes, NEW n \in 1 .. 2, Submit(n)
  PROVE  \E new \in Seq(Nat) :
           /\ Len(new) = n /\ \A i \in 1 .. n : new[i] = made + i
           /\ queue' = queue \o new /\ queue' \in Seq(Nat)
           /\ Len(queue') = Len(queue) + n /\ Len(queue') <= MaxQueue
           /\ made' = made + n /\ made' \in 0 .. MaxDPs
<1>. DEFINE new == [i \in 1 .. n |-> made + i]
<1>1. made \in Nat /\ n \in Nat /\ queue \in Seq(Nat)
  BY DEF Shapes
<1>2. new \in Seq(Nat) /\ Len(new) = n /\ \A i \in 1 .. n : new[i] = made + i
  BY <1>1
<1>3. queue' = queue \o new /\ Len(queue) + n <= MaxQueue /\ made' = made + n /\ made + n <= MaxDPs
  BY DEF Submit
<1>. HIDE DEF new
<1>4. queue \o new \in Seq(Nat) /\ Len(queue \o new) = Len(queue) + Len(new)
  BY <1>1, <1>2, ConcatProperties
<1>5. made + n \in 0 .. MaxDPs
  BY <1>1, <1>3, ClientAssumption
<1>. QED  BY <1>2, <1>3, <1>4, <1>5

(* The server adds a frame with a number it has not given before.            *)
LEMMA PostFacts ==
  ASSUME Shapes, NEW type \in FrameTypes \cup {"DP_ACK"}, Post(type), Len(inbox) < MaxFrames
  PROVE  /\ inbox' \in Seq(Frames) /\ Len(inbox') <= MaxFrames
         /\ issued' \in 0 .. MaxWork /\ issued <= issued'
         /\ \/ inbox' = inbox
            \/ \E f \in Frames :
                 /\ inbox' = Append(inbox, f) /\ f.type = type
                 /\ type = "WORK_ASN" => f.id = issued' /\ issued < issued'
<1>. DEFINE f == [type |-> type, id |-> IF type = "WORK_ASN" THEN issued + 1 ELSE 0]
<1>1. issued \in 0 .. MaxWork /\ MaxWork \in Nat /\ Len(inbox) \in Nat /\ MaxFrames \in Nat
  BY ClientAssumption, LenProperties DEF Shapes
<1>2. issued' \in 0 .. MaxWork /\ issued <= issued'
  BY <1>1 DEF Post
<1>3. CASE type = "DP_ACK"
  BY <1>1, <1>2, <1>3 DEF Post, Shapes
<1>4. CASE type # "DP_ACK"
  <2>1. f \in Frames /\ f.type = type
    BY <1>1, <1>4 DEF Frames
  <2>2. inbox' = Append(inbox, f)
    BY <1>4 DEF Post
  <2>3. type = "WORK_ASN" => f.id = issued' /\ issued < issued'
    BY <1>1 DEF Post
  <2>. HIDE DEF f
  <2>4. inbox' \in Seq(Frames) /\ Len(inbox') = Len(inbox) + 1
    BY <2>1, <2>2, AppendProperties DEF Shapes
  <2>. QED  BY <1>1, <1>2, <2>1, <2>2, <2>3, <2>4
<1>. QED  BY <1>3, <1>4

LEMMA AnswersAreFrames ==
  \A r \in Asked : Answers(r) \subseteq FrameTypes \cup {"DP_ACK"}
BY DEF Asked, Answers, FrameTypes

(* A request that was written is one more for the server, if it still hears. *)
LEMMA DeliverFacts ==
  ASSUME asked \in Seq(Asked), Len(asked) <= MaxFrames, NEW r \in Asked, WriteOk, Deliver(r)
  PROVE  /\ asked' = asked \/ asked' = Append(asked, r)
         /\ asked' \in Seq(Asked) /\ Len(asked') <= MaxFrames
<1>1. Len(asked) \in Nat /\ MaxFrames \in Nat
  BY LenProperties, ClientAssumption
<1>2. Append(asked, r) \in Seq(Asked) /\ Len(Append(asked, r)) = Len(asked) + 1
  BY AppendProperties
<1>3. CASE peer
  <2>1. asked' = Append(asked, r) /\ Len(asked) < MaxFrames
    BY <1>3 DEF Deliver, WriteOk
  <2>2. Len(asked) + 1 <= MaxFrames
    BY <1>1, <2>1
  <2>3. asked' \in Seq(Asked) /\ Len(asked') = Len(asked) + 1
    BY ONLY <1>2, <2>1
  <2>. QED  BY <2>1, <2>2, <2>3
<1>4. CASE ~peer
  BY <1>4 DEF Deliver
<1>. QED  BY <1>3, <1>4

LEMMA ShapesStep == ClientInv /\ [Next]_vars => Shapes' /\ Limits'
<1> SUFFICES ASSUME ClientInv, [Next]_vars
             PROVE  Shapes' /\ Limits'
  OBVIOUS
<1>0. Shapes /\ Limits /\ Control /\ Counters /\ Conveyed
  BY DEF ClientInv
<1>1. CASE UNCHANGED holds
  BY <1>0, <1>1 DEF holds, Shapes, Limits
<1>2. CASE RecvFrame
  <2>1. Head(inbox) \in Frames /\ Tail(inbox) \in Seq(Frames)
        /\ Len(Tail(inbox)) = Len(inbox) - 1 /\ Len(inbox) \in Nat
    BY <1>0, <1>2, HeadTailProperties, LenProperties DEF RecvFrame, Shapes
  <2>2. Len(inbox') <= MaxFrames
    BY <1>0, <1>2, <2>1, ClientAssumption DEF RecvFrame, Limits
  <2>. QED  BY <1>0, <1>2, <2>1, <2>2 DEF RecvFrame, Shapes, Limits
<1>3. CASE Ended
  <2>1. NoFrame \in Frames
    BY DEF NoFrame, Frames, FrameTypes
  <2>2. /\ frame' = NoFrame
        /\ UNCHANGED <<queue, batch, sent, drafts, inbox, asked, snap, work, seqNext, made,
                       issued, conns>>
    BY <1>3 DEF Ended, Ignore, FireWork, FireSolution, AuthOk, AuthFail, MsgError, Handled
  <2>. QED  BY <1>0, <2>1, <2>2 DEF Shapes, Limits
<1>4. CASE WorkAsn
  <2>1. frame.id \in Nat
    BY <1>0 DEF Shapes, Frames
  <2>2. work' = frame.id /\ seqNext' = 0
    BY <1>4 DEF WorkAsn
  <2>. QED  BY <1>0, <1>4, <2>1, <2>2, ClientAssumption DEF WorkAsn, Shapes, Limits
<1>5. CASE Snapshot
  <2>1. snap' \in Tags /\ snap'.seq <= MaxDPs
    BY <1>0, <1>5 DEF Snapshot, Shapes, Limits, Tags
  <2>. QED  BY <1>0, <1>5, <2>1 DEF Snapshot, Shapes, Limits
<1>6. CASE Drain
  <2>1. PICK n \in Nat :
          /\ n <= MaxBatch /\ n <= Len(queue)
          /\ batch' \in Seq(Nat) /\ Len(batch') = n
          /\ queue' \in Seq(Nat) /\ Len(queue') = Len(queue) - n
          /\ drafts' \in Seq(Tags)
          /\ snap' = NoSnap \/ snap' = snap
    BY <1>0, <1>6, DrainFacts
  <2>2. snap' \in Tags /\ snap'.seq <= MaxDPs
    <3>1. NoSnap \in Tags /\ NoSnap.seq = 0 /\ 0 <= MaxDPs
      BY ClientAssumption DEF NoSnap, Tags
    <3>. QED  BY <1>0, <2>1, <3>1 DEF Shapes, Limits
  <2>3. Len(queue') <= MaxQueue
    <3>1. Len(queue) \in Nat /\ MaxQueue \in Nat
      BY <1>0, LenProperties, ClientAssumption DEF Shapes
    <3>. QED  BY <1>0, <2>1, <3>1 DEF Limits
  <2>. QED  BY <1>0, <1>6, <2>1, <2>2, <2>3 DEF Drain, Shapes, Limits
<1>7. CASE Advance
  <2>1. seqNext' \in Nat /\ seqNext' <= MaxDPs
    <3>1. CASE SameWork
      <4>1. seqNext' = Count(snap.work)
        BY <1>0, <1>7, <3>1 DEF Advance, Counters
      <4>2. Count(snap.work) \in Nat /\ Count(snap.work) <= Len(drafts)
        BY <1>0, CountBounds
      <4>3. Len(drafts) <= made /\ Len(drafts) \in Nat /\ made <= MaxDPs /\ made \in Nat
        <5>1. Len(drafts) \in Nat /\ Len(queue) \in Nat
          BY <1>0, LenProperties DEF Shapes
        <5>. QED  BY <1>0, <5>1 DEF Conveyed, Shapes
      <4>. QED  BY <4>1, <4>2, <4>3, ClientAssumption
    <3>2. CASE ~SameWork
      BY <1>0, <1>7, <3>2 DEF Advance, Shapes, Limits
    <3>. QED  BY <3>1, <3>2
  <2>2. snap' \in Tags /\ snap'.seq <= MaxDPs
    BY <1>7, ClientAssumption DEF Advance, NoSnap, Tags
  <2>. QED  BY <1>0, <1>7, <2>1, <2>2 DEF Advance, Shapes, Limits
<1>8. CASE DropBatch \/ SenderFails \/ SenderWrote
  <2>1. batch' = <<>> /\ <<>> \in Seq(Nat) /\ Len(<<>>) = 0
    BY <1>8, EmptySeq DEF DropBatch, SenderFails, SenderWrote
  <2>2. sent \o batch \in Seq(Nat)
    BY <1>0, ConcatProperties DEF Shapes
  <2>4. asked' \in Seq(Asked) /\ Len(asked') <= MaxFrames
    <3>1. CASE asked' = asked
      BY <1>0, <3>1 DEF Shapes, Limits
    <3>2. CASE asked' # asked
      <4>1. WriteOk /\ Deliver("DP_BATCH")
        BY <1>8, <3>2 DEF DropBatch, SenderFails, SenderWrote
      <4>2. "DP_BATCH" \in Asked /\ asked \in Seq(Asked) /\ Len(asked) <= MaxFrames
        BY <1>0 DEF Shapes, Limits, Asked
      <4>. QED  BY <4>1, <4>2, DeliverFacts
    <3>. QED  BY <3>1, <3>2
  <2>5. sent' = sent \/ sent' = sent \o batch
    BY <1>8 DEF DropBatch, SenderFails, SenderWrote
  <2>6. UNCHANGED <<queue, drafts, inbox, frame, snap, work, seqNext, made, issued, conns>>
    BY <1>8 DEF DropBatch, SenderFails, SenderWrote
  <2>7. Shapes'
    BY <1>0, <2>1, <2>2, <2>4, <2>5, <2>6 DEF Shapes
  <2>8. Limits'
    <3>1. Len(batch') <= MaxBatch
      BY <2>1, ClientAssumption
    <3>. QED  BY <1>0, <2>4, <2>6, <3>1 DEF Limits
  <2>. QED  BY <2>7, <2>8
<1>9. CASE \E n \in 1 .. 2 : Submit(n)
  <2>1. PICK n \in 1 .. 2 : Submit(n)
    BY <1>9
  <2>2. queue' \in Seq(Nat) /\ Len(queue') <= MaxQueue /\ made' \in 0 .. MaxDPs
    BY <1>0, <2>1, SubmitFacts
  <2>. QED  BY <1>0, <2>1, <2>2 DEF Submit, Shapes, Limits
<1>10. CASE ConnectOk
  <2>1. /\ inbox' = <<>> /\ asked' = <<>> /\ conns' = conns + 1
        /\ UNCHANGED <<queue, batch, sent, drafts, frame, snap, work, seqNext, made, issued>>
    BY <1>10 DEF ConnectOk
  <2>2. <<>> \in Seq(Frames) /\ <<>> \in Seq(Asked) /\ Len(<<>>) = 0
    BY EmptySeq
  <2>. QED  BY <1>0, <2>1, <2>2, ClientAssumption DEF Shapes, Limits
<1>11. CASE CallerWrote
  <2>1. req \in Asked /\ asked \in Seq(Asked) /\ Len(asked) <= MaxFrames
    BY <1>0 DEF Shapes, Limits, Asked, Control
  <2>2. asked' \in Seq(Asked) /\ Len(asked') <= MaxFrames
    BY <1>11, <2>1, DeliverFacts DEF CallerWrote
  <2>. QED  BY <1>0, <1>11, <2>2 DEF CallerWrote, Shapes, Limits
<1>12. CASE Answer
  <2>1. /\ Head(asked) \in Asked /\ Tail(asked) \in Seq(Asked)
        /\ Len(Tail(asked)) = Len(asked) - 1 /\ Len(asked) \in Nat
    BY <1>0, <1>12, HeadTailProperties, LenProperties DEF Answer, Shapes
  <2>2. PICK type \in Answers(Head(asked)) : Post(type)
    BY <1>12 DEF Answer
  <2>3. inbox' \in Seq(Frames) /\ Len(inbox') <= MaxFrames /\ issued' \in 0 .. MaxWork
    <3>1. type \in FrameTypes \cup {"DP_ACK"} /\ Len(inbox) < MaxFrames
      BY <1>12, <2>1, <2>2, AnswersAreFrames DEF Answer
    <3>. QED  BY <1>0, <2>2, <3>1, PostFacts
  <2>4. Len(asked') <= MaxFrames
    BY <1>0, <1>12, <2>1, ClientAssumption DEF Answer, Limits
  <2>. QED  BY <1>0, <1>12, <2>1, <2>3, <2>4 DEF Answer, Shapes, Limits
<1>13. CASE Stray
  <2>1. PICK type \in {"WORK_ASN", "SOLUTION", "MSG_ERROR"} : Post(type)
    BY <1>13 DEF Stray
  <2>2. inbox' \in Seq(Frames) /\ Len(inbox') <= MaxFrames /\ issued' \in 0 .. MaxWork
    <3>1. type \in FrameTypes \cup {"DP_ACK"} /\ Len(inbox) < MaxFrames
      BY <1>13 DEF Stray, FrameTypes
    <3>. QED  BY <1>0, <2>1, <3>1, PostFacts
  <2>. QED  BY <1>0, <1>13, <2>2 DEF Stray, Shapes, Limits
<1>. QED  BY <1>1, <1>2, <1>3, <1>4, <1>5, <1>6, <1>7, <1>8, <1>9, <1>10, <1>11, <1>12, <1>13,
           Holders

-----------------------------------------------------------------------------
(* Assignments.                                                              *)

Aside ==
  /\ UNCHANGED <<work, received, issued, frame, inbox, drafts, snap>>
  /\ rpc' = "handle" => rpc = "handle"
  /\ rpc' \notin {"handle", "fire"} => rpc \notin {"handle", "fire"}
  /\ spc' \in {"drain", "advance"} => spc' = spc

(* The actions that have to do with them.                                    *)
LEMMA Movers ==
  ASSUME [Next]_vars
  PROVE  \/ Aside
         \/ RecvFrame \/ Ended \/ WorkAsn \/ Snapshot \/ Drain \/ Advance
         \/ ConnectOk \/ Answer \/ Stray
<1>1. CASE Receiver
  BY <1>1 DEF Receiver, Aside, Ended, RecvLost, RecvCloses, RecvGivesUp, RecvExits,
       Solution, Handling
<1>2. CASE Sender
  BY <1>2 DEF Sender, Aside, SenderExits, PostBatch, DropBatch, Keepalive, SenderLocks,
       SenderFails, SenderWrote, AfterWrite
<1>3. CASE Calls
  BY <1>3 DEF Calls, Aside, Connect, Authenticate, RequestWork, ReportSolution, Ask,
       Disconnect, Submit
<1>4. CASE InCall
  BY <1>4 DEF InCall, Aside, ConnectFailed, CallerChecks, CallerLocks, CallerFails,
       CallerWrote, CallerReturns, Joined, Stopped
<1>5. CASE Network \/ UNCHANGED vars
  BY <1>5 DEF Network, Aside, PeerCloses, vars
<1>. QED  BY <1>1, <1>2, <1>3, <1>4, <1>5 DEF Next

(* A frame goes to the end of what is on its way, with a number of its own.  *)
LEMMA PostKeeps ==
  ASSUME Shapes, Limits, Assignments, NEW type \in FrameTypes \cup {"DP_ACK"}, Post(type),
         Len(inbox) < MaxFrames,
         UNCHANGED <<work, received, frame, drafts, snap, rpc, spc>>
  PROVE  Assignments'
<1>1. /\ issued' \in 0 .. MaxWork /\ issued <= issued' /\ issued \in Nat
      /\ \/ inbox' = inbox
         \/ \E f \in Frames :
              /\ inbox' = Append(inbox, f) /\ f.type = type
              /\ type = "WORK_ASN" => f.id = issued' /\ issued < issued'
  BY PostFacts, ClientAssumption DEF Shapes
<1>2. Last' = Last /\ Last \in Nat /\ Last <= issued /\ Known' = Known
  BY <1>1, ClientAssumption DEF Last, Known, Assignments, Shapes
<1>3. frame.id \in Nat /\ issued' \in Nat
  BY <1>1 DEF Shapes, Frames
<1>4. IF received' THEN work' \in 1 .. issued' ELSE work' \in Garbage
  BY <1>1 DEF Assignments
<1>5. rpc' = "handle" => Newer(frame)'
  BY <1>1, <1>2, <1>3 DEF Assignments, Newer
<1>6. InOrder'
  <2>1. DOMAIN inbox = 1 .. Len(inbox) /\ Len(inbox) \in Nat
        /\ \A i \in DOMAIN inbox : inbox[i].id \in Nat
    <3>1. inbox \in Seq(Frames) /\ DOMAIN inbox = 1 .. Len(inbox) /\ Len(inbox) \in Nat
      BY LenProperties DEF Shapes
    <3>2. \A i \in 1 .. Len(inbox) : inbox[i] \in Frames
      BY <3>1, ElementOfSeq
    <3>. QED  BY <3>1, <3>2 DEF Frames
  <2>2. CASE inbox' = inbox
    BY <1>1, <1>2, <1>3, <2>1, <2>2 DEF Assignments, InOrder, Newer
  <2>3. ASSUME NEW f \in Frames, NEW n \in Nat, n = Len(inbox), inbox' = Append(inbox, f), f.type = type,
               type = "WORK_ASN" => f.id = issued' /\ issued < issued'
        PROVE  InOrder'
    <3>1. /\ inbox' \in Seq(Frames) /\ Len(inbox') = n + 1
          /\ \A i \in 1 .. n : inbox'[i] = inbox[i]
          /\ inbox'[n + 1] = f
      BY <2>3, AppendProperties DEF Shapes
    <3>2. DOMAIN inbox' = 1 .. n + 1
      BY <3>1, LenProperties
    <3>3. f.id \in Nat
      BY DEF Frames
    <3>4. \A i \in 1 .. n : Newer(inbox[i])
      BY <2>1, <2>3 DEF Assignments, InOrder
    <3>5. ASSUME NEW i \in 1 .. n
          PROVE  /\ Newer(inbox[i])'
                 /\ inbox'[i].type = "WORK_ASN" =>
                      /\ rpc' = "handle" /\ frame'.type = "WORK_ASN" => frame'.id < inbox'[i].id
                      /\ \A j \in 1 .. i - 1 :
                           inbox'[j].type = "WORK_ASN" => inbox'[j].id < inbox'[i].id
      <4>1. inbox'[i] = inbox[i] /\ i \in DOMAIN inbox /\ inbox[i].id \in Nat
            /\ \A j \in 1 .. i - 1 : inbox'[j] = inbox[j]
        BY <2>1, <2>3, <3>1
      <4>2. Newer(inbox[i])'
        BY <1>1, <1>2, <1>3, <3>4, <4>1 DEF Newer
      <4>. QED  BY <4>1, <4>2 DEF Assignments, InOrder
    <3>6. ASSUME type = "WORK_ASN"
          PROVE  /\ Newer(inbox[n + 1])'
                 /\ rpc' = "handle" /\ frame'.type = "WORK_ASN" => frame'.id < f.id
                 /\ \A j \in 1 .. n : inbox'[j].type = "WORK_ASN" => inbox'[j].id < f.id
      <4>1. f.id = issued' /\ issued < issued'
        BY <2>3, <3>6
      <4>2. Last < f.id
        BY <1>1, <1>2, <1>3, <4>1
      <4>3. frame.type = "WORK_ASN" /\ rpc = "handle" => frame.id < f.id
        BY <1>1, <1>3, <4>1 DEF Assignments, Newer
      <4>4. \A j \in 1 .. n : inbox'[j].type = "WORK_ASN" => inbox'[j].id < f.id
        <5> SUFFICES ASSUME NEW j \in 1 .. n, inbox'[j].type = "WORK_ASN"
                     PROVE  inbox'[j].id < f.id
          OBVIOUS
        <5>1. inbox'[j] = inbox[j] /\ inbox[j].id \in Nat
          BY <2>1, <2>3, <3>1
        <5>2. inbox[j].id <= issued
          BY <3>4, <5>1 DEF Newer
        <5>. QED  BY <1>1, <1>3, <4>1, <5>1, <5>2
      <4>. QED  BY <1>2, <1>3, <3>1, <4>1, <4>2, <4>3, <4>4 DEF Newer
    <3>7. type # "WORK_ASN" => inbox'[n + 1].type # "WORK_ASN"
      BY <2>3, <3>1
    <3>8. type # "WORK_ASN" => Newer(inbox[n + 1])'
      BY <3>7 DEF Newer
    <3>9. \A i \in 1 .. n + 1 : i \in 1 .. n \/ (i = n + 1 /\ i - 1 = n)
      BY <2>3
    <3> SUFFICES ASSUME NEW i \in DOMAIN inbox'
                 PROVE  /\ Newer(inbox[i])'
                        /\ inbox'[i].type = "WORK_ASN" =>
                             /\ rpc' = "handle" /\ frame'.type = "WORK_ASN" =>
                                  frame'.id < inbox'[i].id
                             /\ \A j \in 1 .. i - 1 :
                                  inbox'[j].type = "WORK_ASN" => inbox'[j].id < inbox'[i].id
      BY DEF InOrder
    <3>10. CASE i \in 1 .. n
      BY <3>5, <3>10
    <3>11. CASE i = n + 1 /\ i - 1 = n /\ type = "WORK_ASN"
      BY <3>1, <3>6, <3>11
    <3>12. CASE i = n + 1 /\ type # "WORK_ASN"
      BY <3>7, <3>8, <3>12
    <3>. QED  BY <3>2, <3>9, <3>10, <3>11, <3>12
  <2>. QED  BY <1>1, <2>1, <2>2, <2>3
<1>. QED  BY <1>2, <1>4, <1>5, <1>6 DEF Assignments

LEMMA AssignmentsStep == ClientInv /\ [Next]_vars => Assignments'
<1> SUFFICES ASSUME ClientInv, [Next]_vars
             PROVE  Assignments'
  OBVIOUS
<1>0. Shapes /\ Limits /\ Assignments /\ Control /\ Unbroken
  BY DEF ClientInv
<1>1. Last \in Nat /\ Garbage \subseteq Nat /\ issued \in Nat /\ frame.id \in Nat
  BY <1>0, ClientAssumption DEF Last, Shapes, Frames
<1>2. CASE Aside
  <2>1. Last' = Last /\ Known' = Known /\ Newer(frame)' = Newer(frame)
        /\ \A i \in DOMAIN inbox : Newer(inbox[i])' = Newer(inbox[i])
    BY <1>2 DEF Aside, Last, Known, Newer
  <2>2. InOrder'
    BY <1>0, <1>2, <2>1 DEF Aside, InOrder, Newer, Assignments
  <2>. QED  BY <1>0, <1>2, <2>1, <2>2 DEF Aside, Assignments
<1>3. CASE RecvFrame
  <2>1. /\ rpc = "recv" /\ rpc' = "handle" /\ inbox # <<>>
        /\ frame' = Head(inbox) /\ inbox' = Tail(inbox)
        /\ UNCHANGED <<work, received, issued, drafts, snap, spc>>
    BY <1>3 DEF RecvFrame
  <2>2. Last' = Last /\ Known' = Known
    BY <2>1 DEF Last, Known
  <2>3. /\ frame' = inbox[1] /\ 1 \in DOMAIN inbox
        /\ DOMAIN inbox' = 1 .. Len(inbox) - 1 /\ Len(inbox) \in Nat
        /\ \A i \in DOMAIN inbox' : inbox'[i] = inbox[i + 1] /\ i + 1 \in DOMAIN inbox
    <3>1. /\ inbox \in Seq(Frames) /\ Len(inbox) \in Nat /\ DOMAIN inbox = 1 .. Len(inbox)
      BY <1>0, LenProperties DEF Shapes
    <3>2. /\ Tail(inbox) \in Seq(Frames) /\ Len(Tail(inbox)) = Len(inbox) - 1
          /\ \A i \in 1 .. Len(Tail(inbox)) : Tail(inbox)[i] = inbox[i + 1]
      BY <2>1, <3>1, HeadTailProperties
    <3>3. DOMAIN Tail(inbox) = 1 .. Len(inbox) - 1
      BY <3>2, LenProperties
    <3>4. Head(inbox) = inbox[1] /\ Len(inbox) # 0
      BY <2>1, <3>1, EmptySeq
    <3>. QED  BY <2>1, <3>1, <3>2, <3>3, <3>4
  <2>4. Newer(frame)'
    BY <1>0, <2>1, <2>2, <2>3 DEF Assignments, InOrder, Newer
  <2>5. InOrder'
    <3> SUFFICES ASSUME NEW i \in DOMAIN inbox'
                 PROVE  /\ Newer(inbox[i])'
                        /\ inbox'[i].type = "WORK_ASN" =>
                             /\ frame'.type = "WORK_ASN" => frame'.id < inbox'[i].id
                             /\ \A j \in 1 .. i - 1 :
                                  inbox'[j].type = "WORK_ASN" => inbox'[j].id < inbox'[i].id
      BY DEF InOrder
    <3>1. inbox'[i] = inbox[i + 1] /\ i + 1 \in DOMAIN inbox /\ i \in Nat
      <4>1. i \in 1 .. Len(inbox) - 1
        BY <2>3, Zenon
      <4>2. i \in Nat
        BY <2>3, <4>1
      <4>. QED  BY <2>3, <4>2
    <3>2. Newer(inbox[i])'
      BY <1>0, <2>1, <2>2, <3>1 DEF Assignments, InOrder, Newer
    <3>3. ASSUME inbox'[i].type = "WORK_ASN"
          PROVE  \A j \in 1 .. i : inbox[j].type = "WORK_ASN" => inbox[j].id < inbox'[i].id
      <4>1. (i + 1) - 1 = i
        BY <3>1
      <4>. QED  BY <1>0, <3>1, <3>3, <4>1 DEF Assignments, InOrder
    <3>4. i \in 1 .. Len(inbox) - 1
      BY <2>3, Zenon
    <3>5. ASSUME NEW j \in 1 .. i - 1
          PROVE  inbox'[j] = inbox[j + 1] /\ j + 1 \in 1 .. i
      <4>1. j \in 1 .. Len(inbox) - 1 /\ j + 1 \in 1 .. i
        BY <2>3, <3>1, <3>4
      <4>2. j \in DOMAIN inbox'
        BY <2>3, <4>1, Zenon
      <4>. QED  BY <2>3, <4>1, <4>2
    <3>6. 1 \in 1 .. i
      BY <2>3, <3>4
    <3>. QED  BY <2>3, <3>2, <3>3, <3>5, <3>6
  <2>. QED  BY <1>0, <2>1, <2>2, <2>4, <2>5 DEF Assignments
<1>4. CASE Ended
  <2>1. /\ rpc' = "recv" /\ frame' = NoFrame
        /\ UNCHANGED <<work, received, issued, inbox, drafts, snap, spc>>
    BY <1>4 DEF Ended, Ignore, FireWork, FireSolution, AuthOk, AuthFail, MsgError, Handled
  <2>2. Last' = Last /\ Known' = Known
    BY <2>1 DEF Last, Known
  <2>3. InOrder'
    BY <1>0, <2>1, <2>2 DEF Assignments, InOrder, Newer
  <2>. QED  BY <1>0, <2>1, <2>2, <2>3 DEF Assignments
<1>5. CASE WorkAsn
  <2>1. /\ rpc = "handle" /\ frame.type = "WORK_ASN" /\ rpc' = "fire"
        /\ work' = frame.id /\ received' = TRUE
        /\ UNCHANGED <<issued, frame, inbox, drafts, snap, spc>>
    BY <1>5 DEF WorkAsn, Handling
  <2>2. Last < frame.id /\ frame.id <= issued
    BY <1>0, <2>1 DEF Assignments, Newer
  <2>3. Last' = frame.id
    BY <2>1 DEF Last
  <2>4. Known \subseteq Known'
    BY <1>1, <2>2, <2>3 DEF Known
  <2>5. InOrder'
    BY <1>0, <2>1, <2>3 DEF Assignments, InOrder, Newer
  <2>6. work' \in 1 .. issued
    BY <1>1, <2>1, <2>2
  <2>. QED  BY <1>0, <2>1, <2>4, <2>5, <2>6 DEF Assignments
<1>6. CASE Snapshot
  <2>1. /\ snap'.work = work
        /\ UNCHANGED <<work, received, issued, inbox, frame, drafts, rpc>>
    BY <1>6 DEF Snapshot
  <2>2. Last' = Last /\ Known' = Known
    BY <2>1 DEF Last, Known
  <2>3. work \in Known
    BY <1>0, <1>1 DEF Known, Last, Assignments
  <2>4. InOrder'
    BY <1>0, <2>1, <2>2 DEF Assignments, InOrder, Newer
  <2>. QED  BY <1>0, <2>1, <2>2, <2>3, <2>4 DEF Assignments, Newer
<1>7. CASE Drain
  <2>1. PICK n \in Nat :
          /\ drafts' \in Seq(Tags) /\ Len(drafts') = Len(drafts) + n
          /\ \A i \in 1 .. Len(drafts) : drafts'[i] = drafts[i]
          /\ \A k \in 1 .. n :
               drafts'[Len(drafts) + k] = [work |-> snap.work, seq |-> snap.seq + k - 1]
          /\ IF n = 0 THEN spc' = "keepalive" /\ snap' = NoSnap
                      ELSE spc' = "advance" /\ snap' = snap
    BY <1>0, <1>7, DrainFacts
  <2>2. spc = "drain" /\ UNCHANGED <<work, received, issued, inbox, frame, rpc>>
    BY <1>7 DEF Drain
  <2>3. Last' = Last /\ Known' = Known
    BY <2>2 DEF Last, Known
  <2>4. snap.work \in Known
    BY <1>0, <2>2 DEF Assignments
  <2>5. \A i \in DOMAIN drafts' : drafts'[i].work \in Known'
    <3>1. DOMAIN drafts = 1 .. Len(drafts) /\ Len(drafts) \in Nat
          /\ DOMAIN drafts' = 1 .. Len(drafts) + n
      BY <1>0, <2>1, LenProperties DEF Shapes
    <3>2. \A i \in 1 .. Len(drafts) : drafts'[i].work \in Known
      BY <1>0, <2>1, <3>1 DEF Assignments
    <3>3. ASSUME NEW i \in DOMAIN drafts', i \notin 1 .. Len(drafts)
          PROVE  drafts'[i].work \in Known
      <4>1. i - Len(drafts) \in 1 .. n /\ Len(drafts) + (i - Len(drafts)) = i
        BY <3>1, <3>3
      <4>2. drafts'[i] = [work |-> snap.work, seq |-> snap.seq + (i - Len(drafts)) - 1]
        BY <2>1, <4>1
      <4>. QED  BY <2>4, <4>2
    <3>. QED  BY <2>3, <3>2, <3>3
  <2>6. InOrder'
    BY <1>0, <2>2, <2>3 DEF Assignments, InOrder, Newer
  <2>. QED  BY <1>0, <2>1, <2>2, <2>3, <2>4, <2>5, <2>6 DEF Assignments, Newer
<1>8. CASE Advance
  <2>1. /\ spc' = "post"
        /\ UNCHANGED <<work, received, issued, inbox, frame, drafts, rpc>>
    BY <1>8 DEF Advance
  <2>2. Last' = Last /\ Known' = Known
    BY <2>1 DEF Last, Known
  <2>3. InOrder'
    BY <1>0, <2>1, <2>2 DEF Assignments, InOrder, Newer
  <2>. QED  BY <1>0, <2>1, <2>2, <2>3 DEF Assignments, Newer
<1>9. CASE ConnectOk
  <2>1. /\ mpc = "connecting" /\ spc' = "wait" /\ rpc' = "recv" /\ inbox' = <<>>
        /\ UNCHANGED <<work, received, issued, frame, drafts>>
    BY <1>9 DEF ConnectOk
  <2>2. frame = NoFrame
    BY <1>0, <2>1 DEF Unbroken, Assignments
  <2>3. Last' = Last /\ Known' = Known
    BY <2>1 DEF Last, Known
  <2>4. InOrder'
    BY <2>1 DEF InOrder
  <2>. QED  BY <1>0, <2>1, <2>2, <2>3, <2>4 DEF Assignments
<1>10. CASE Answer
  <2>1. Head(asked) \in Asked
    BY <1>0, <1>10, HeadTailProperties DEF Answer, Shapes
  <2>2. PICK type \in Answers(Head(asked)) : Post(type)
    BY <1>10 DEF Answer
  <2>3. type \in FrameTypes \cup {"DP_ACK"}
    BY <2>1, <2>2, AnswersAreFrames
  <2>. QED  BY <1>0, <1>10, <2>2, <2>3, PostKeeps DEF Answer
<1>11. CASE Stray
  <2>1. PICK type \in {"WORK_ASN", "SOLUTION", "MSG_ERROR"} : Post(type)
    BY <1>11 DEF Stray
  <2>2. type \in FrameTypes \cup {"DP_ACK"}
    BY DEF FrameTypes
  <2>. QED  BY <1>0, <1>11, <2>1, <2>2, PostKeeps DEF Stray
<1>. QED  BY <1>2, <1>3, <1>4, <1>5, <1>6, <1>7, <1>8, <1>9, <1>10, <1>11, Movers

-----------------------------------------------------------------------------
(* Counters.                                                                 *)

TagsOf(D, n, w) == {j \in 1 .. n : D[j].work = w}

(* E goes on with k tags of w after the L tags of D.                         *)
Continues(D, E, L, k, w) ==
  /\ \A i \in 1 .. L : E[i] = D[i]
  /\ \A i \in 1 .. k : E[L + i].work = w

(* A stretch of tags of one assignment after others adds its length.         *)
LEMMA CountGrows ==
  ASSUME NEW D, NEW E, NEW L \in Nat, NEW k \in Nat, NEW m, NEW w, m = L + k,
         Continues(D, E, L, k, w)
  PROVE  Cardinality(TagsOf(E, m, w)) = Cardinality(TagsOf(D, L, w)) + k
<1>. USE DEF TagsOf, Continues
<1>. DEFINE Old == {j \in 1 .. L : D[j].work = w}
            New == L + 1 .. L + k
<1>1. {j \in 1 .. L + k : E[j].work = w} = Old \cup New
  <2>1. ASSUME NEW j \in New PROVE E[j].work = w
    <3>1. j - L \in 1 .. k /\ L + (j - L) = j
      OBVIOUS
    <3>. QED  BY <3>1
  <2>2. \A j \in 1 .. L + k : j \in 1 .. L \/ j \in New
    OBVIOUS
  <2>3. New \subseteq 1 .. L + k /\ 1 .. L \subseteq 1 .. L + k
    OBVIOUS
  <2>. HIDE DEF New
  <2>. QED  BY <2>1, <2>2, <2>3
<1>2. Old \cap New = {}
  OBVIOUS
<1>3. IsFiniteSet(New) /\ Cardinality(New) = k
  BY Stretch
<1>4. IsFiniteSet(1 .. L)
  <2>1. 0 + 1 = 1 /\ 0 + L = L
    OBVIOUS
  <2>. QED  BY <2>1, Stretch
<1>5. IsFiniteSet(Old) /\ Cardinality(Old) \in Nat
  <2>1. Old \subseteq 1 .. L
    OBVIOUS
  <2>. HIDE DEF Old
  <2>. QED  BY <1>4, <2>1, FS_Subset, FS_CardinalityType
<1>. HIDE DEF Old, New
<1>6. Cardinality(Old \cup New)
        = Cardinality(Old) + Cardinality(New) - Cardinality(Old \cap New)
  BY <1>3, <1>5, FS_Union
<1>7. Cardinality(Old \cup New) = Cardinality(Old) + k
  <2>1. Cardinality(Old \cap New) = 0
    BY <1>2, FS_EmptySet
  <2>. QED  BY <1>3, <1>5, <1>6, <2>1
<1>. QED  BY <1>1, <1>7 DEF Old

Untagged ==
  /\ UNCHANGED <<drafts, snap, work, seqNext>>
  /\ spc' # "drain"  \/ spc = "drain"
  /\ spc' = "advance" => spc = "advance" /\ batch' = batch
  /\ spc = "advance" => spc' = "advance"

LEMMA Taggers ==
  ASSUME Unbroken, [Next]_vars
  PROVE  Untagged \/ WorkAsn \/ Snapshot \/ Drain \/ Advance
<1>1. CASE Receiver
  BY <1>1 DEF Receiver, Untagged, RecvFrame, RecvLost, RecvCloses, RecvGivesUp, RecvExits,
       Ignore, Solution, FireWork, FireSolution, AuthOk, AuthFail, MsgError
<1>2. CASE Sender
  BY <1>2 DEF Sender, Untagged, SenderExits, PostBatch, DropBatch, Keepalive, SenderLocks,
       SenderFails, SenderWrote, AfterWrite
<1>3. CASE Calls
  BY <1>3 DEF Calls, Untagged, Connect, Authenticate, RequestWork, ReportSolution, Ask,
       Disconnect, Submit
<1>4. CASE InCall
  BY <1>4 DEF InCall, Untagged, ConnectFailed, ConnectOk, CallerChecks, CallerLocks,
       CallerFails, CallerWrote, CallerReturns, Joined, Stopped, Unbroken
<1>5. CASE Network \/ UNCHANGED vars
  BY <1>5 DEF Network, Untagged, Answer, Stray, PeerCloses, vars
<1>. QED  BY <1>1, <1>2, <1>3, <1>4, <1>5 DEF Next

LEMMA CountersStep == ClientInv /\ [Next]_vars => Counters'
<1> SUFFICES ASSUME ClientInv, [Next]_vars
             PROVE  Counters'
  OBVIOUS
<1>0. Shapes /\ Assignments /\ Counters /\ Unbroken
  BY DEF ClientInv
<1>1. DOMAIN drafts = 1 .. Len(drafts) /\ Len(drafts) \in Nat
  BY <1>0, LenProperties DEF Shapes
<1>2. ASSUME UNCHANGED drafts
      PROVE  SequencesCount' /\ \A w : Count(w)' = Count(w)
  BY <1>0, <1>2 DEF Counters, SequencesCount, Count, Tagged
<1>3. CASE Untagged
  BY <1>0, <1>2, <1>3 DEF Untagged, Counters
<1>4. CASE WorkAsn
  <2>1. /\ rpc = "handle" /\ frame.type = "WORK_ASN"
        /\ work' = frame.id /\ seqNext' = 0
        /\ UNCHANGED <<drafts, snap, batch, spc>>
    BY <1>4 DEF WorkAsn, Handling
  <2>2. frame.id \notin Known
    <3>1. Last < frame.id /\ frame.id <= issued
      BY <1>0, <2>1 DEF Assignments, Newer
    <3>2. Last \in Nat /\ frame.id \in Nat /\ issued \in Nat /\ issued <= MaxWork /\ MaxWork \in Nat
      BY <1>0, ClientAssumption DEF Last, Shapes, Frames
    <3>3. frame.id \in 1 .. MaxWork /\ frame.id \notin 1 .. Last
      BY <3>1, <3>2
    <3>. QED  BY <3>3, ClientAssumption DEF Known
  <2>3. Count(frame.id) = 0
    <3>1. Tagged(frame.id) = {}
      BY <1>0, <2>2 DEF Tagged, Assignments
    <3>. QED  BY <3>1, FS_EmptySet DEF Count
  <2>4. spc = "advance" => snap.work # frame.id
    BY <1>0, <2>2 DEF Assignments
  <2>. QED  BY <1>0, <1>2, <2>1, <2>3, <2>4 DEF Counters
<1>5. CASE Snapshot
  <2>1. /\ spc = "wait" /\ spc' = "drain" /\ snap' = [work |-> work, seq |-> seqNext]
        /\ UNCHANGED <<drafts, work, seqNext>>
    BY <1>5 DEF Snapshot
  <2>2. seqNext = Count(work)
    BY <1>0, <2>1 DEF Counters
  <2>. QED  BY <1>2, <2>1, <2>2 DEF Counters
<1>6. CASE Advance
  <2>1. /\ spc = "advance" /\ spc' = "post"
        /\ seqNext' = IF work = snap.work THEN snap.seq + Len(batch) ELSE seqNext
        /\ UNCHANGED <<drafts, work>>
    BY <1>6 DEF Advance, SameWork
  <2>2. seqNext' = Count(work)
    BY <1>0, <2>1 DEF Counters
  <2>. QED  BY <1>2, <2>1, <2>2 DEF Counters
<1>7. CASE Drain
  <2>. DEFINE w == snap.work
              L == Len(drafts)
  <2>1. PICK n \in Nat :
          /\ Len(batch') = n
          /\ drafts' \in Seq(Tags) /\ Len(drafts') = L + n
          /\ \A i \in 1 .. L : drafts'[i] = drafts[i]
          /\ \A k \in 1 .. n : drafts'[L + k] = [work |-> w, seq |-> snap.seq + k - 1]
          /\ IF n = 0 THEN spc' = "keepalive" /\ snap' = NoSnap
                      ELSE spc' = "advance" /\ snap' = snap
    BY <1>0, <1>7, DrainFacts
  <2>2. spc = "drain" /\ UNCHANGED <<work, seqNext>>
    BY <1>7 DEF Drain
  <2>3. snap.seq = Count(w) /\ seqNext = Count(work) /\ snap.seq \in Nat
    BY <1>0, <2>2 DEF Counters, Shapes, Tags
  <2>4. DOMAIN drafts' = 1 .. L + n
    BY <2>1, LenProperties
  <2>5. ASSUME NEW i \in 1 .. n
        PROVE  drafts'[L + i].work = w /\ drafts'[L + i].seq = snap.seq + i - 1
    <3>1. drafts'[L + i] = [work |-> w, seq |-> snap.seq + i - 1]
      BY <2>1
    <3>. QED  BY <3>1
  <2>6. ASSUME NEW k \in Nat, k <= n, NEW m, m = L + k
        PROVE  Cardinality(TagsOf(drafts', m, w)) = Count(w) + k
    <3>1. \A i \in 1 .. k : drafts'[L + i].work = w
      <4>1. \A i \in 1 .. k : i \in 1 .. n
        BY <2>6
      <4>. QED  BY <2>5, <4>1
    <3>2. Count(w) = Cardinality(TagsOf(drafts, L, w))
      BY <1>1 DEF Tagged, Count, TagsOf
    <3>3. L \in Nat /\ \A i \in 1 .. L : drafts'[i] = drafts[i]
      BY <1>1, <2>1
    <3>. HIDE DEF w, L
    <3>4. Continues(drafts, drafts', L, k, w)
      BY <3>1, <3>3 DEF Continues
    <3>. QED  BY <2>6, <3>2, <3>3, <3>4, CountGrows
  <2>7. ASSUME NEW v
        PROVE  Count(v)' = Cardinality(TagsOf(drafts', L + n, v))
    BY <2>4 DEF Count, Tagged, TagsOf
  <2>8. Cardinality(TagsOf(drafts', L + n, w)) = Count(w) + n
    BY <1>1, <2>6
  <2>9. ASSUME NEW v, v # w
        PROVE  Cardinality(TagsOf(drafts', L + n, v)) = Count(v)
    <3>1. ASSUME NEW j \in 1 .. L + n
          PROVE  drafts'[j].work = v <=> j \in 1 .. L /\ drafts[j].work = v
      <4>1. CASE j \in 1 .. L
        BY <2>1, <4>1
      <4>2. CASE j \notin 1 .. L
        <5>1. j - L \in 1 .. n /\ L + (j - L) = j
          BY <1>1, <4>2
        <5>2. drafts'[j].work = w
          BY <2>5, <5>1
        <5>. QED  BY <2>9, <4>2, <5>2
      <4>. QED  BY <4>1, <4>2
    <3>2. TagsOf(drafts', L + n, v) = Tagged(v)
      <4>1. 1 .. L \subseteq 1 .. L + n
        BY <1>1
      <4>. QED  BY <1>1, <3>1, <4>1 DEF TagsOf, Tagged
    <3>. QED  BY <3>2 DEF Count
  <2>10. SequencesCount'
    <3>1. ASSUME NEW i \in 1 .. L + n
          PROVE  drafts'[i].seq = Cardinality(TagsOf(drafts', i - 1, drafts'[i].work))
      <4>1. CASE i \in 1 .. L
        <5>1. drafts'[i] = drafts[i] /\ \A j \in 1 .. i - 1 : drafts'[j] = drafts[j]
          BY <1>1, <2>1, <4>1
        <5>2. TagsOf(drafts', i - 1, drafts[i].work) = TagsOf(drafts, i - 1, drafts[i].work)
          BY <5>1 DEF TagsOf
        <5>3. drafts[i].seq = Cardinality(TagsOf(drafts, i - 1, drafts[i].work))
          BY <1>0, <1>1, <4>1 DEF Counters, SequencesCount, TagsOf
        <5>. QED  BY <5>1, <5>2, <5>3
      <4>2. CASE i \notin 1 .. L
        <5>1. /\ i - L \in 1 .. n /\ L + (i - L) = i
              /\ (i - L) - 1 \in Nat /\ (i - L) - 1 <= n /\ i - 1 = L + ((i - L) - 1)
          BY <1>1, <4>2
        <5>2. drafts'[i].work = w /\ drafts'[i].seq = snap.seq + (i - L) - 1
          BY <2>5, <5>1
        <5>3. Cardinality(TagsOf(drafts', i - 1, w)) = Count(w) + ((i - L) - 1)
          BY <2>6, <5>1
        <5>4. snap.seq + (i - L) - 1 = snap.seq + ((i - L) - 1)
          BY <1>1, <2>3
        <5>. QED  BY <2>3, <5>2, <5>3, <5>4
      <4>. QED  BY <4>1, <4>2
    <3>. QED  BY <2>4, <3>1 DEF SequencesCount, TagsOf
  <2>11. spc' = "advance" => snap'.seq + Len(batch') = Count(snap.work)'
    BY <2>1, <2>3, <2>7, <2>8
  <2>12. ~(spc' = "advance" /\ work' = snap'.work) => seqNext' = Count(work)'
    <3>1. CASE work = w
      <4>1. Count(work)' = Count(w) + n /\ Count(w) \in Nat
        BY <2>2, <2>3, <2>7, <2>8, <3>1
      <4>. QED  BY <2>1, <2>2, <2>3, <3>1, <4>1
    <3>2. CASE work # w
      BY <2>2, <2>3, <2>7, <2>9, <3>2
    <3>. QED  BY <3>1, <3>2
  <2>. QED  BY <2>1, <2>10, <2>11, <2>12 DEF Counters
<1>. QED  BY <1>0, <1>3, <1>4, <1>5, <1>6, <1>7, Taggers

-----------------------------------------------------------------------------
(* DPs.                                                                      *)

Upto(s, m) == \A i \in DOMAIN s : s[i] <= m

(* Without the DPs in the middle the others are in order as before.          *)
LEMMA MiddleDropped ==
  ASSUME NEW s \in Seq(Nat), NEW b \in Seq(Nat), NEW q \in Seq(Nat), NEW m \in Nat,
         Rising((s \o b) \o q), Upto((s \o b) \o q, m)
  PROVE  /\ Rising((s \o <<>>) \o q) /\ Upto((s \o <<>>) \o q, m)
         /\ Len((s \o <<>>) \o q) <= Len((s \o b) \o q)
<1>. DEFINE t == (s \o b) \o q
            u == s \o q
            At(i) == IF i <= Len(s) THEN i ELSE i + Len(b)
<1>1. Len(s) \in Nat /\ Len(b) \in Nat /\ Len(q) \in Nat
  BY LenProperties
<1>2. s \o <<>> = s
  BY ConcatEmptySeq
<1>3. /\ s \o b \in Seq(Nat) /\ Len(s \o b) = Len(s) + Len(b)
      /\ \A i \in 1 .. Len(s) + Len(b) :
           (s \o b)[i] = IF i <= Len(s) THEN s[i] ELSE b[i - Len(s)]
  BY ConcatProperties
<1>4. /\ t \in Seq(Nat) /\ Len(t) = Len(s) + Len(b) + Len(q)
      /\ \A i \in 1 .. Len(s) + Len(b) + Len(q) :
           t[i] = IF i <= Len(s) + Len(b) THEN (s \o b)[i] ELSE q[i - (Len(s) + Len(b))]
  BY <1>3, ConcatProperties
<1>5. /\ u \in Seq(Nat) /\ Len(u) = Len(s) + Len(q)
      /\ \A i \in 1 .. Len(s) + Len(q) : u[i] = IF i <= Len(s) THEN s[i] ELSE q[i - Len(s)]
  BY ConcatProperties
<1>6. DOMAIN t = 1 .. Len(s) + Len(b) + Len(q) /\ DOMAIN u = 1 .. Len(s) + Len(q)
  BY <1>4, <1>5, LenProperties
<1>7. ASSUME NEW i \in 1 .. Len(s) + Len(q)
      PROVE  At(i) \in 1 .. Len(s) + Len(b) + Len(q) /\ u[i] = t[At(i)]
  <2>1. CASE i <= Len(s)
    <3>1. At(i) = i /\ i \in 1 .. Len(s) + Len(b) /\ i \in 1 .. Len(s) + Len(b) + Len(q)
      BY <1>1, <2>1
    <3>2. t[i] = s[i] /\ u[i] = s[i]
      BY <1>1, <1>3, <1>4, <1>5, <2>1, <3>1
    <3>. QED  BY <3>1, <3>2
  <2>2. CASE ~(i <= Len(s))
    <3>1. /\ At(i) = i + Len(b) /\ i + Len(b) \in 1 .. Len(s) + Len(b) + Len(q)
          /\ ~(i + Len(b) <= Len(s) + Len(b))
          /\ (i + Len(b)) - (Len(s) + Len(b)) = i - Len(s)
      BY <1>1, <2>2
    <3>2. t[i + Len(b)] = q[i - Len(s)] /\ u[i] = q[i - Len(s)]
      BY <1>4, <1>5, <2>2, <3>1
    <3>. QED  BY <3>1, <3>2
  <2>. QED  BY <2>1, <2>2
<1>8. \A i, j \in 1 .. Len(s) + Len(q) : i < j => At(i) < At(j)
  BY <1>1
<1>9. Rising(t) /\ Upto(t, m)
  OBVIOUS
<1>. HIDE DEF t, u, At
<1>10. Rising(u) /\ Upto(u, m)
  BY <1>6, <1>7, <1>8, <1>9 DEF Rising, Upto
<1>11. Len(u) <= Len(t)
  BY <1>1, <1>4, <1>5
<1>. QED  BY <1>2, <1>10, <1>11 DEF t, u

(* The next n numbers.                                                       *)
Follows(new, m, n) == Len(new) = n /\ \A i \in 1 .. n : new[i] = m + i

(* DPs with the next numbers go to the end.                                  *)
LEMMA NextNumbers ==
  ASSUME NEW s \in Seq(Nat), NEW new \in Seq(Nat), NEW m \in Nat, NEW n \in Nat,
         Rising(s), Upto(s, m), Follows(new, m, n)
  PROVE  Rising(s \o new) /\ Upto(s \o new, m + n)
<1>. USE DEF Follows
<1>. DEFINE t == s \o new
<1>1. Len(s) \in Nat /\ DOMAIN s = 1 .. Len(s)
  BY LenProperties
<1>2. /\ t \in Seq(Nat) /\ Len(t) = Len(s) + n
      /\ \A i \in 1 .. Len(s) + n : t[i] = IF i <= Len(s) THEN s[i] ELSE new[i - Len(s)]
  BY ConcatProperties
<1>3. DOMAIN t = 1 .. Len(s) + n /\ \A i \in 1 .. Len(s) : s[i] \in Nat
  BY <1>2, LenProperties, ElementOfSeq
<1>. HIDE DEF t
<1>4. ASSUME NEW i \in 1 .. Len(s)
      PROVE  t[i] = s[i] /\ s[i] <= m
  <2>1. i \in 1 .. Len(s) + n /\ i <= Len(s)
    BY <1>1
  <2>2. s[i] <= m
    BY <1>1 DEF Upto
  <2>. QED  BY <1>2, <2>1, <2>2
<1>5. ASSUME NEW i \in 1 .. Len(s) + n, ~(i <= Len(s))
      PROVE  t[i] = m + (i - Len(s))
  <2>1. i - Len(s) \in 1 .. n
    BY <1>1, <1>5
  <2>. QED  BY <1>2, <1>5, <2>1
<1>6. Upto(t, m + n)
  BY <1>1, <1>3, <1>4, <1>5 DEF Upto
<1>7. Rising(t)
  <2> SUFFICES ASSUME NEW i \in 1 .. Len(s) + n, NEW j \in 1 .. Len(s) + n, i < j
               PROVE  t[i] < t[j]
    BY <1>3 DEF Rising
  <2>1. CASE j <= Len(s)
    <3>1. i \in 1 .. Len(s) /\ j \in 1 .. Len(s)
      BY <1>1, <2>1
    <3>2. s[i] < s[j]
      BY <1>1, <3>1 DEF Rising
    <3>. QED  BY <1>4, <3>1, <3>2
  <2>2. CASE i <= Len(s) /\ ~(j <= Len(s))
    BY <1>1, <1>3, <1>4, <1>5, <2>2
  <2>3. CASE ~(i <= Len(s)) /\ ~(j <= Len(s))
    BY <1>1, <1>5, <2>3
  <2>. QED  BY <1>1, <2>1, <2>2, <2>3
<1>. QED  BY <1>6, <1>7 DEF t

Settled ==
  /\ UNCHANGED <<sent, batch, queue, made, drafts>>
  /\ broke => broke'
  /\ spc' \notin Holding => spc \notin Holding

LEMMA Carriers ==
  ASSUME Unbroken, Control, [Next]_vars
  PROVE  \/ Settled \/ Drain \/ DropBatch \/ SenderFails \/ SenderWrote
         \/ \E n \in 1 .. 2 : Submit(n)
<1>. USE DEF Settled, Holding
<1>1. CASE Receiver
  BY <1>1 DEF Receiver, RecvFrame, RecvLost, RecvCloses, RecvGivesUp, RecvExits,
       Ignore, WorkAsn, Solution, FireWork, FireSolution, AuthOk, AuthFail, MsgError
<1>2. CASE Sender
  BY <1>2 DEF Sender, Snapshot, SenderExits, Advance, PostBatch, Keepalive, SenderLocks
<1>3. CASE Calls
  BY <1>3 DEF Calls, Connect, Authenticate, RequestWork, ReportSolution, Ask, Disconnect
<1>4. CASE InCall
  BY <1>4 DEF InCall, ConnectFailed, ConnectOk, CallerChecks, CallerLocks, WriteFailed,
       CallerFails, CallerWrote, CallerReturns, Joined, Stopped, Unbroken
<1>5. CASE Network \/ UNCHANGED vars
  BY <1>5 DEF Network, Answer, Stray, PeerCloses, vars
<1>. QED  BY <1>1, <1>2, <1>3, <1>4, <1>5 DEF Next

LEMMA ConveyedStep == ClientInv /\ [Next]_vars => Conveyed'
<1> SUFFICES ASSUME ClientInv, [Next]_vars
             PROVE  Conveyed'
  OBVIOUS
<1>0. Shapes /\ Control /\ Conveyed /\ Unbroken
  BY DEF ClientInv
<1>1. /\ sent \in Seq(Nat) /\ batch \in Seq(Nat) /\ queue \in Seq(Nat)
      /\ Len(sent) \in Nat /\ Len(batch) \in Nat /\ Len(queue) \in Nat
      /\ Len(drafts) \in Nat /\ made \in Nat
  BY <1>0, LenProperties DEF Shapes
<1>2. sent \o batch \in Seq(Nat) /\ InFlight \in Seq(Nat)
      /\ Len(InFlight) = Len(sent) + Len(batch) + Len(queue)
  BY <1>1, ConcatProperties DEF InFlight
<1>3. Rising(InFlight) /\ Upto(InFlight, made)
  BY <1>0 DEF Conveyed, Upto
<1>4. CASE Settled
  BY <1>0, <1>4 DEF Settled, Conveyed, InFlight, Rising
<1>5. CASE Drain
  <2>1. PICK n \in Nat :
          /\ batch' \in Seq(Nat) /\ Len(batch') = n
          /\ queue' \in Seq(Nat) /\ Len(queue') = Len(queue) - n
          /\ batch' \o queue' = queue
          /\ Len(drafts') = Len(drafts) + n
          /\ IF n = 0 THEN spc' = "keepalive" ELSE spc' = "advance"
    BY <1>0, <1>5, DrainFacts
  <2>2. spc = "drain" /\ UNCHANGED <<sent, made, broke>>
    BY <1>5 DEF Drain
  <2>3. batch = <<>>
    BY <1>0, <2>2 DEF Conveyed, Holding
  <2>4. InFlight' = InFlight
    <3>1. \A s, b, q \in Seq(Nat) : (s \o b) \o q = s \o (b \o q)
      BY ConcatAssociative
    <3>2. (sent \o batch') \o queue' = sent \o queue
      BY ONLY <1>1, <2>1, <3>1
    <3>3. sent \o <<>> = sent
      BY <1>1, ConcatEmptySeq
    <3>. QED  BY <2>2, <2>3, <3>2, <3>3 DEF InFlight
  <2>5. spc' \notin Holding => batch' = <<>>
    BY <2>1, EmptySeq DEF Holding
  <2>6. Len(drafts') + Len(queue') <= made
    BY <1>0, <1>1, <2>1 DEF Conveyed
  <2>. QED  BY <1>0, <2>2, <2>4, <2>5, <2>6 DEF Conveyed, Rising
<1>6. CASE DropBatch \/ SenderFails
  <2>1. batch' = <<>> /\ UNCHANGED <<sent, queue, made, drafts>>
    BY <1>6 DEF DropBatch, SenderFails
  <2>2. /\ Rising((sent \o <<>>) \o queue) /\ Upto((sent \o <<>>) \o queue, made)
        /\ Len((sent \o <<>>) \o queue) <= Len(InFlight)
    BY <1>1, <1>3, MiddleDropped DEF InFlight
  <2>3. InFlight' = (sent \o <<>>) \o queue
    BY <2>1 DEF InFlight
  <2>4. ~broke' => Len(InFlight') = made
    <3> SUFFICES ASSUME ~broke' PROVE Len(InFlight') = made
      OBVIOUS
    <3>1. DropBatch /\ ~broke
      BY <1>6 DEF DropBatch, SenderFails, WriteFailed
    <3>2. made = 0
      BY <1>0, <1>1, <3>1 DEF DropBatch, MayPost, Open, Unbroken
    <3>3. Len(InFlight) = 0
      BY <1>0, <3>1, <3>2 DEF Conveyed
    <3>4. InFlight' \in Seq(Nat)
      <4>1. sent \o <<>> = sent /\ sent \o queue \in Seq(Nat)
        BY <1>1, ConcatEmptySeq, ConcatProperties
      <4>. QED  BY <2>3, <4>1
    <3>5. Len(InFlight') \in Nat
      BY <3>4, LenProperties
    <3>. QED  BY <2>2, <2>3, <3>2, <3>3, <3>5
  <2>. QED  BY <1>0, <2>1, <2>2, <2>3, <2>4 DEF Conveyed, Upto, Rising
<1>7. CASE SenderWrote
  <2>1. sent' = sent \o batch /\ batch' = <<>> /\ UNCHANGED <<queue, made, drafts, broke>>
    BY <1>7 DEF SenderWrote
  <2>2. (sent \o batch) \o <<>> = sent \o batch
    BY <1>2, ConcatEmptySeq
  <2>3. InFlight' = InFlight
    BY <2>1, <2>2 DEF InFlight
  <2>. QED  BY <1>0, <2>1, <2>3 DEF Conveyed, Rising
<1>8. CASE \E n \in 1 .. 2 : Submit(n)
  <2>1. PICK n \in 1 .. 2 : Submit(n)
    BY <1>8
  <2>2. PICK new \in Seq(Nat) :
          /\ Len(new) = n /\ \A i \in 1 .. n : new[i] = made + i
          /\ queue' = queue \o new /\ Len(queue') = Len(queue) + n
          /\ made' = made + n
    BY <1>0, <2>1, SubmitFacts
  <2>3. UNCHANGED <<sent, batch, drafts, spc, broke>>
    BY <2>1 DEF Submit
  <2>4. InFlight' = InFlight \o new
    <3>1. ASSUME NEW t \in Seq(Nat), NEW q \in Seq(Nat)
          PROVE  t \o (q \o new) = (t \o q) \o new
      BY ConcatAssociative
    <3>2. (sent \o batch) \o (queue \o new) = ((sent \o batch) \o queue) \o new
      BY <1>1, <1>2, <3>1, Zenon
    <3>. QED  BY <2>2, <2>3, <3>2 DEF InFlight
  <2>5. Rising(InFlight \o new) /\ Upto(InFlight \o new, made + n)
    <3>1. Follows(new, made, n) /\ n \in Nat
      BY <2>2 DEF Follows
    <3>. QED  BY <1>1, <1>2, <1>3, <3>1, NextNumbers
  <2>6. ~broke' => Len(InFlight') = made'
    <3>1. Len(InFlight \o new) = Len(InFlight) + n
      BY <1>2, <2>2, ConcatProperties
    <3>. QED  BY <1>0, <2>2, <2>3, <2>4, <3>1 DEF Conveyed
  <2>7. Len(drafts') + Len(queue') <= made'
    BY <1>0, <1>1, <2>2, <2>3 DEF Conveyed
  <2>. QED  BY <1>0, <2>2, <2>3, <2>4, <2>5, <2>6, <2>7 DEF Conveyed, Upto, Rising
<1>. QED  BY <1>0, <1>4, <1>5, <1>6, <1>7, <1>8, Carriers

-----------------------------------------------------------------------------
(* A client that nothing happened to.                                        *)
LEMMA UnbrokenStep == ClientInv /\ [Next]_vars => Unbroken'
<1> SUFFICES ASSUME ClientInv, [Next]_vars
             PROVE  Unbroken'
  OBVIOUS
<1>0. Unbroken /\ Fresh /\ Control /\ conns \in Nat /\ made \in Nat
  BY DEF ClientInv, Shapes
<1>. USE <1>0 DEF Unbroken
<1>1. CASE RecvFrame
  BY <1>1 DEF RecvFrame
<1>2. CASE RecvLost
  BY <1>2 DEF RecvLost
<1>3. CASE RecvCloses
  BY <1>3 DEF RecvCloses
<1>4. CASE RecvGivesUp
  BY <1>4 DEF RecvGivesUp
<1>5. CASE RecvExits
  BY <1>5 DEF RecvExits
<1>6. CASE Ignore
  BY <1>6 DEF Ignore, Handled
<1>7. CASE WorkAsn
  BY <1>7 DEF WorkAsn, Handling
<1>8. CASE Solution
  BY <1>8 DEF Solution, Handling
<1>9. CASE FireWork
  BY <1>9 DEF FireWork, Handled
<1>10. CASE FireSolution
  BY <1>10 DEF FireSolution, Handled
<1>11. CASE AuthOk
  BY <1>11 DEF AuthOk, Handled, Handling, Fresh
<1>12. CASE AuthFail
  BY <1>12 DEF AuthFail, Handled, Handling
<1>13. CASE MsgError
  BY <1>13 DEF MsgError, Handled, Handling
<1>14. CASE Snapshot
  BY <1>14 DEF Snapshot
<1>15. CASE SenderExits
  BY <1>15 DEF SenderExits
<1>16. CASE Drain
  BY <1>16 DEF Drain
<1>17. CASE Advance
  BY <1>17 DEF Advance
<1>18. CASE PostBatch
  BY <1>18 DEF PostBatch
<1>19. CASE DropBatch
  BY <1>19 DEF DropBatch
<1>20. CASE Keepalive
  BY <1>20 DEF Keepalive
<1>21. CASE SenderLocks
  BY <1>21 DEF SenderLocks
<1>22. CASE SenderFails
  BY <1>22 DEF SenderFails, WriteFailed, AfterWrite
<1>23. CASE SenderWrote
  BY <1>23 DEF SenderWrote, AfterWrite
<1>24. CASE Connect
  BY <1>24 DEF Connect
<1>25. CASE Authenticate
  BY <1>25 DEF Authenticate, Fresh
<1>26. CASE RequestWork
  BY <1>26 DEF RequestWork, Ask
<1>27. CASE ReportSolution
  BY <1>27 DEF ReportSolution, Ask
<1>28. CASE Disconnect
  BY <1>28 DEF Disconnect
<1>29. CASE ConnectFailed
  BY <1>29 DEF ConnectFailed
<1>30. CASE ConnectOk
  BY <1>30 DEF ConnectOk
<1>31. CASE CallerChecks
  BY <1>31 DEF CallerChecks
<1>32. CASE CallerLocks
  BY <1>32 DEF CallerLocks
<1>33. CASE CallerFails
  BY <1>33 DEF CallerFails, WriteFailed, Open
<1>34. CASE CallerWrote
  BY <1>34 DEF CallerWrote
<1>35. CASE CallerReturns
  BY <1>35 DEF CallerReturns
<1>36. CASE Joined
  BY <1>36 DEF Joined
<1>37. CASE Answer
  BY <1>37 DEF Answer
<1>38. CASE Stray
  BY <1>38 DEF Stray
<1>39. CASE PeerCloses
  BY <1>39 DEF PeerCloses
<1>40. CASE \E n \in 1 .. 2 : Submit(n)
  BY <1>40 DEF Submit
<1>41. CASE UNCHANGED vars
  BY <1>41 DEF vars
<1>. QED  BY <1>1, <1>2, <1>3, <1>4, <1>5, <1>6, <1>7, <1>8, <1>9, <1>10, <1>11, <1>12, <1>13, <1>14, <1>15, <1>16, <1>17, <1>18, <1>19, <1>20, <1>21, <1>22, <1>23, <1>24, <1>25, <1>26, <1>27, <1>28, <1>29, <1>30, <1>31, <1>32, <1>33, <1>34, <1>35, <1>36, <1>37, <1>38, <1>39, <1>40, <1>41
     DEF Next, Receiver, Sender, Calls, InCall, Network

FreshStale ==
  /\ mpc' = "fresh" => mpc = "fresh"
  /\ broke => broke'
  /\ okSeen' = okSeen /\ asked' = asked /\ inbox' = inbox
  /\ frame' = frame \/ frame' = NoFrame

LEMMA FreshStep == ClientInv /\ [Next]_vars => Fresh'
<1> SUFFICES ASSUME ClientInv, [Next]_vars, ~broke', mpc' = "fresh"
             PROVE  /\ ~okSeen'
                    /\ \A i \in DOMAIN asked' : asked'[i] # "AUTH"
                    /\ \A i \in DOMAIN inbox' : inbox'[i].type # "AUTH_OK"
                    /\ frame'.type # "AUTH_OK"
  BY DEF Fresh
<1>0. Fresh /\ Unbroken /\ Assignments /\ Shapes /\ Limits
  BY DEF ClientInv
<1>1. \/ FreshStale
      \/ RecvFrame \/ AuthOk \/ SenderWrote \/ ConnectOk \/ Answer \/ Stray
  <2>1. CASE Receiver
    BY <2>1 DEF Receiver, FreshStale, RecvLost, RecvCloses, RecvGivesUp, RecvExits, Ignore,
         WorkAsn, Solution, FireWork, FireSolution, AuthFail, MsgError, Handled
  <2>2. CASE Sender
    BY <2>2 DEF Sender, FreshStale, Snapshot, SenderExits, Drain, Advance, PostBatch,
         DropBatch, Keepalive, SenderLocks, SenderFails, WriteFailed
  <2>3. CASE Calls
    BY <2>3 DEF Calls, FreshStale, Connect, Authenticate, RequestWork, ReportSolution, Ask,
         Disconnect, Submit
  <2>4. CASE InCall
    BY <2>4 DEF InCall, FreshStale, ConnectFailed, CallerChecks, CallerLocks, CallerFails,
         CallerWrote, CallerReturns, Joined, WriteFailed
  <2>5. CASE Network \/ UNCHANGED vars
    BY <2>5 DEF Network, FreshStale, PeerCloses, vars
  <2>. QED  BY <2>1, <2>2, <2>3, <2>4, <2>5 DEF Next
<1>2. CASE FreshStale
  BY <1>0, <1>2 DEF FreshStale, Fresh, NoFrame
<1>3. ASSUME mpc' = mpc, broke' = broke
      PROVE  /\ ~okSeen
             /\ \A i \in DOMAIN asked : asked[i] # "AUTH"
             /\ \A i \in DOMAIN inbox : inbox[i].type # "AUTH_OK"
             /\ frame.type # "AUTH_OK"
  BY <1>0, <1>3 DEF Fresh
<1>4. CASE RecvFrame
  <2>1. /\ inbox # <<>> /\ frame' = Head(inbox) /\ inbox' = Tail(inbox)
        /\ UNCHANGED <<mpc, broke, okSeen, asked>>
    BY <1>4 DEF RecvFrame
  <2>2. inbox \in Seq(Frames) /\ Len(inbox) \in Nat /\ DOMAIN inbox = 1 .. Len(inbox)
    BY <1>0, LenProperties DEF Shapes
  <2>3. Head(inbox) = inbox[1] /\ 1 \in DOMAIN inbox
    BY <2>1, <2>2, EmptySeq
  <2>4. DOMAIN inbox' = 1 .. Len(inbox) - 1
        /\ \A i \in 1 .. Len(inbox) - 1 : inbox'[i] = inbox[i + 1]
    <3>1. /\ Tail(inbox) \in Seq(Frames) /\ Len(Tail(inbox)) = Len(inbox) - 1
          /\ \A i \in 1 .. Len(Tail(inbox)) : Tail(inbox)[i] = inbox[i + 1]
      BY <2>1, <2>2, HeadTailProperties
    <3>2. DOMAIN Tail(inbox) = 1 .. Len(inbox) - 1
      BY <3>1, LenProperties
    <3>. QED  BY <2>1, <3>1, <3>2
  <2>5. ASSUME NEW i \in 1 .. Len(inbox) - 1
        PROVE  inbox'[i].type # "AUTH_OK"
    <3>1. i + 1 \in DOMAIN inbox
      BY <2>2
    <3>. QED  BY <1>3, <2>1, <2>4, <3>1
  <2>. QED  BY <1>3, <2>1, <2>3, <2>4, <2>5
<1>5. CASE AuthOk
  BY <1>3, <1>5 DEF AuthOk, Handling
<1>6. CASE SenderWrote
  <2>1. UNCHANGED <<mpc, broke, okSeen, inbox, frame>>
    BY <1>6 DEF SenderWrote
  <2>2. CASE asked' = asked
    BY <1>3, <2>1, <2>2
  <2>3. CASE asked' # asked
    <3>1. WriteOk /\ Deliver("DP_BATCH") /\ "DP_BATCH" \in Asked
      BY <1>6, <2>3 DEF SenderWrote, Asked
    <3>2. asked' = Append(asked, "DP_BATCH") /\ asked \in Seq(Asked)
      BY <1>0, <2>3, <3>1 DEF Deliver, Shapes
    <3>3. /\ Len(asked') = Len(asked) + 1 /\ asked' \in Seq(Asked)
          /\ \A i \in 1 .. Len(asked) : asked'[i] = asked[i]
          /\ asked'[Len(asked) + 1] = "DP_BATCH"
      BY <3>1, <3>2, AppendProperties
    <3>4. DOMAIN asked' = 1 .. Len(asked) + 1 /\ DOMAIN asked = 1 .. Len(asked)
          /\ Len(asked) \in Nat
      BY <3>2, <3>3, LenProperties
    <3>5. \A i \in 1 .. Len(asked) + 1 : i \in 1 .. Len(asked) \/ i = Len(asked) + 1
      BY <3>4
    <3>. QED  BY <1>3, <2>1, <3>3, <3>4, <3>5
  <2>. QED  BY <2>2, <2>3
<1>7. CASE ConnectOk
  <2>1. /\ mpc = "connecting" /\ okSeen' = FALSE /\ asked' = <<>> /\ inbox' = <<>>
        /\ frame' = frame
    BY <1>7 DEF ConnectOk
  <2>2. frame = NoFrame
    BY <1>0, <2>1 DEF Unbroken, Assignments
  <2>3. frame'.type # "AUTH_OK"
    BY <2>1, <2>2 DEF NoFrame
  <2>. QED  BY <2>1, <2>3
<1>8. ASSUME NEW type \in FrameTypes \cup {"DP_ACK"}, type # "AUTH_OK", Post(type),
             Len(inbox) < MaxFrames, mpc' = mpc, broke' = broke
      PROVE  \A i \in DOMAIN inbox' : inbox'[i].type # "AUTH_OK"
  <2>1. inbox \in Seq(Frames) /\ Len(inbox) \in Nat /\ DOMAIN inbox = 1 .. Len(inbox)
    BY <1>0, LenProperties DEF Shapes
  <2>2. CASE inbox' = inbox
    BY <1>3, <1>8, <2>2
  <2>3. ASSUME NEW f \in Frames, inbox' = Append(inbox, f), f.type = type
        PROVE  \A i \in DOMAIN inbox' : inbox'[i].type # "AUTH_OK"
    <3>1. /\ inbox' \in Seq(Frames) /\ Len(inbox') = Len(inbox) + 1
          /\ \A i \in 1 .. Len(inbox) : inbox'[i] = inbox[i]
          /\ inbox'[Len(inbox) + 1] = f
      BY <2>1, <2>3, AppendProperties
    <3>2. DOMAIN inbox' = 1 .. Len(inbox) + 1
      BY <3>1, LenProperties
    <3>3. \A i \in 1 .. Len(inbox) + 1 : i \in 1 .. Len(inbox) \/ i = Len(inbox) + 1
      BY <2>1
    <3>. QED  BY <1>3, <1>8, <2>1, <2>3, <3>1, <3>2, <3>3
  <2>. QED  BY <1>0, <1>8, <2>2, <2>3, PostFacts
<1>9. CASE Answer
  <2>1. /\ asked # <<>> /\ asked' = Tail(asked) /\ Len(inbox) < MaxFrames
        /\ UNCHANGED <<mpc, broke, okSeen, frame>>
    BY <1>9 DEF Answer
  <2>2. PICK type \in Answers(Head(asked)) : Post(type)
    BY <1>9 DEF Answer
  <2>3. asked \in Seq(Asked) /\ Len(asked) \in Nat /\ DOMAIN asked = 1 .. Len(asked)
    BY <1>0, LenProperties DEF Shapes
  <2>4. /\ Head(asked) \in Asked /\ Tail(asked) \in Seq(Asked)
        /\ Len(Tail(asked)) = Len(asked) - 1
        /\ \A i \in 1 .. Len(Tail(asked)) : Tail(asked)[i] = asked[i + 1]
    BY <2>1, <2>3, HeadTailProperties
  <2>5. DOMAIN Tail(asked) = 1 .. Len(asked) - 1
    BY <2>4, LenProperties
  <2>6. Head(asked) # "AUTH"
    <3>1. Head(asked) = asked[1] /\ 1 \in DOMAIN asked
      BY <2>1, <2>3, EmptySeq
    <3>. QED  BY <1>3, <2>1, <3>1
  <2>7. type \in FrameTypes \cup {"DP_ACK"} /\ type # "AUTH_OK"
    BY <2>2, <2>4, <2>6 DEF Answers, Asked, FrameTypes
  <2>8. ASSUME NEW i \in 1 .. Len(asked) - 1
        PROVE  asked'[i] # "AUTH"
    <3>1. i + 1 \in DOMAIN asked
      BY <2>3
    <3>2. asked'[i] = asked[i + 1]
      BY <2>1, <2>4
    <3>. QED  BY <1>3, <2>1, <3>1, <3>2
  <2>. QED  BY <1>3, <1>8, <2>1, <2>2, <2>5, <2>7, <2>8
<1>10. CASE Stray
  <2>1. PICK type \in {"WORK_ASN", "SOLUTION", "MSG_ERROR"} : Post(type)
    BY <1>10 DEF Stray
  <2>2. type \in FrameTypes \cup {"DP_ACK"} /\ type # "AUTH_OK"
    BY DEF FrameTypes
  <2>3. Len(inbox) < MaxFrames /\ UNCHANGED <<mpc, broke, okSeen, asked, frame>>
    BY <1>10 DEF Stray
  <2>. QED  BY <1>3, <1>8, <2>1, <2>2, <2>3
<1>. QED  BY <1>1, <1>2, <1>4, <1>5, <1>6, <1>7, <1>9, <1>10

-----------------------------------------------------------------------------
(* The initial state.                                                        *)
LEMMA ClientInit == Init => ClientInv
<1> SUFFICES ASSUME Init PROVE ClientInv
  OBVIOUS
<1>. USE DEF Init
<1>0. <<>> \in Seq(Nat) /\ <<>> \in Seq(Tags) /\ <<>> \in Seq(Frames) /\ <<>> \in Seq(Asked)
      /\ Len(<<>>) = 0 /\ DOMAIN <<>> = {}
  BY EmptySeq
<1>1. Control
  <2>1. Flags
    BY Zenon DEF Flags
  <2>. QED  BY <2>1 DEF Control, States
<1>2. Shapes /\ Limits
  <2>1. NoFrame \in Frames /\ NoSnap \in Tags /\ NoSnap.seq = 0
    BY DEF NoFrame, NoSnap, Frames, FrameTypes, Tags
  <2>. QED  BY <1>0, <2>1, ClientAssumption DEF Shapes, Limits
<1>3. Assignments
  <2>1. InOrder
    BY <1>0 DEF InOrder
  <2>. QED  BY <1>0, <2>1 DEF Assignments
<1>4. Counters
  <2>1. \A w : Count(w) = 0
    BY <1>0, FS_EmptySet DEF Count, Tagged
  <2>2. SequencesCount
    BY <1>0 DEF SequencesCount
  <2>. QED  BY <2>1, <2>2 DEF Counters
<1>5. Conveyed
  <2>1. <<>> \o <<>> = <<>>
    BY <1>0, ConcatEmptySeq
  <2>2. InFlight = <<>>
    BY <2>1 DEF InFlight
  <2>. QED  BY <1>0, <2>2 DEF Conveyed, Rising, Holding
<1>6. Unbroken /\ Fresh
  BY DEF Unbroken, Fresh
<1>. QED  BY <1>1, <1>2, <1>3, <1>4, <1>5, <1>6 DEF ClientInv

LEMMA ClientHolds == Spec => []ClientInv
<1>1. ClientInv /\ [Next]_vars => ClientInv'
  <2> SUFFICES ASSUME ClientInv, [Next]_vars PROVE ClientInv'
    OBVIOUS
  <2>1. Control'
    BY ControlStep DEF ClientInv
  <2>. QED  BY <2>1, ShapesStep, AssignmentsStep, CountersStep, ConveyedStep, UnbrokenStep,
              FreshStep DEF ClientInv
<1>. QED  BY <1>1, ClientInit, PTL DEF Spec

(* Every variable keeps its type, no queue, batch or counter passes its      *)
(* bound, and a work id that was received is one the server gave             *)
(* (jlp_pool_client.cpp: submit_dps, sender_thread_func, WORK_ASN).          *)
THEOREM TypeCorrect == Spec => []TypeOK
BY ClientHolds, InvGivesTypes, PTL

(* However the threads interleave, writes fail and connections are replaced, *)
(* a DP goes out at most once and in order, and none is missing while no     *)
(* connection has ended (jlp_pool_client.cpp: sender_thread_func).           *)
THEOREM OnceCorrect == Spec => []EachDPOnce
BY ClientHolds, InvGivesTypes, PTL

(* The tags under one work id are 0, 1, 2, ..., wherever WORK_ASN comes      *)
(* between snapshot, drain and advance (dp_sequence_next_).                  *)
THEOREM CountCorrect == Spec => []SequencesCount
BY ClientHolds, InvGivesTypes, PTL
=============================================================================

------------------------------ MODULE GpuSearch ------------------------------
(***************************************************************************)
(* What is under the loop of ZoneSearch: MultiGPUPuzzleSolver, which       *)
(* divides a batch among the GPUs and waits for one thread for each, in    *)
(* src/gpu/puzzle_gpu.cu over src/gpu/puzzle_optimized.cu (CUDA), or       *)
(* src/gpu/metal_multi_gpu_puzzle.mm over src/gpu/puzzle_metal.mm (Metal,  *)
(* one GPU).                                                               *)
(*                                                                         *)
(*   backend  the backend of the build                                     *)
(*   next     the device that init comes to; 0 when it does not run        *)
(*   solvers  solvers_: the devices that were initialised                  *)
(*   table    for each device, what the table of multiples of G it         *)
(*            computes with is: the pointer was never set ("null"), it is  *)
(*            the table, or the table was freed under it; "dead" when an   *)
(*            error of CUDA made the device unusable for the process       *)
(*   batch    a batch is in flight                                         *)
(*   threads  the solvers that have not finished their share of it         *)
(*   hit      found, as the threads set it                                 *)
(*   compared, lost   history: the keys of the shares of the batch that    *)
(*            were gone through, and of those that failed                  *)
(*   faults   history: failures of devices so far                          *)
(***************************************************************************)
EXTENDS ZoneSearch, FiniteSets

CONSTANTS
  Backends,   \* the backends there may be
  NumDevices, \* gpu_ids, as 1 .. NumDevices
  MaxFaults,  \* bound: failures of a device, at start or later
  MaxTroubles \* bound: those, kills and interrupts together

ASSUME DeviceAssumption ==
  /\ Backends \subseteq {"cuda", "metal"}
  /\ NumDevices \in Nat \ {0} /\ {MaxFaults, MaxTroubles} \subseteq Nat
  /\ NumDevices <= Batch

VARIABLES backend, next, solvers, table, batch, threads, hit, compared, lost,
          faults

devices == <<backend, next, solvers, table>>
flight  == <<batch, threads, hit, compared, lost>>
gpuVars == <<vars, devices, flight, faults>>

MoreTrouble == faults + kills + quits < MaxTroubles
MayFail     == MoreTrouble /\ faults < MaxFaults

Devices == 1 .. NumDevices

-----------------------------------------------------------------------------
(* init goes through the devices before the loop starts. A device is used,   *)
(* or cannot be set or, the first, hold the tables, or cannot hold the       *)
(* buffers of its results. The tables are those of the process: only the     *)
(* first device that gets that far has them built and its pointer set, and a *)
(* device without memory frees them whoever uses them. Metal has one device. *)

InitStarts ==
  /\ pc = "off" /\ ~told /\ next = 0
  /\ next' = 1
  /\ solvers' = <<>> /\ table' = [e \in Devices |-> "null"]
  /\ UNCHANGED <<vars, backend, flight, faults>>

Initialized == \E e \in Devices : table[e] = "built"
OnToNext    == next' = IF backend = "metal" THEN NumDevices + 1 ELSE next + 1

DeviceReady ==
  /\ next \in Devices
  /\ IF Initialized THEN UNCHANGED table
     ELSE table' = [table EXCEPT ![next] = "built"]
  /\ solvers' = Append(solvers, next)
  /\ OnToNext
  /\ UNCHANGED <<vars, backend, flight, faults>>

DeviceFails ==
  /\ next \in Devices /\ MayFail
  /\ faults' = faults + 1
  /\ OnToNext
  /\ UNCHANGED <<vars, backend, solvers, table, flight>>

DeviceFull ==
  /\ next \in Devices /\ MayFail
  /\ faults' = faults + 1
  /\ table' = [e \in Devices |-> IF table[e] = "built" THEN "freed" ELSE table[e]]
  /\ OnToNext
  /\ UNCHANGED <<vars, backend, solvers, flight>>

(* The loop runs on the devices that could be initialised. Without any the   *)
(* program scans on the CPU, which leaves no trace here.                     *)
StartLoop ==
  /\ next = NumDevices + 1 /\ solvers # <<>>
  /\ Start
  /\ next' = 0
  /\ UNCHANGED <<backend, solvers, table, flight, faults>>

NoDevice ==
  /\ next = NumDevices + 1 /\ solvers = <<>>
  /\ next' = 0
  /\ UNCHANGED <<vars, backend, solvers, table, flight, faults>>

-----------------------------------------------------------------------------
(* search_batch. The range is divided evenly, and the last GPU gets the      *)
(* rest.                                                                     *)

Shares == Len(solvers)
PerGpu == Batch \div Shares

(* mutant: the last GPU gets no more than the others *)
Share_NoRest(i) == pos + PerGpu * (i - 1) .. pos + PerGpu * i - 1

Share(i) ==
  LET count == IF i = Shares THEN Batch - PerGpu * (i - 1) ELSE PerGpu
  IN pos + PerGpu * (i - 1) .. pos + PerGpu * (i - 1) + count - 1

Launch ==
  /\ ~batch /\ Looping /\ IsOpen
  /\ batch' = TRUE /\ threads' = 1 .. Shares /\ hit' = FALSE
  /\ compared' = {} /\ lost' = {}
  /\ UNCHANGED <<vars, devices, faults>>

(* The kernel runs, when it can read the table, over every key of the share. *)
Compute(i) ==
  /\ i \in threads /\ table[solvers[i]] \in {"built", "freed"}
  /\ threads' = threads \ {i}
  /\ hit' = (hit \/ key \in Share(i))
  /\ compared' = compared \cup Share(i)
  /\ UNCHANGED <<vars, devices, batch, lost, faults>>

(* It fails; that is not told from a share without the key. What has become  *)
(* of a table that was freed is not known. After an error a CUDA device      *)
(* fails to the end of the process; Metal's command buffer is a new one      *)
(* every time, and how it ended is not looked at.                            *)
Fail(i) ==
  /\ i \in threads
  /\ IF table[solvers[i]] = "built"
     THEN MayFail /\ faults' = faults + 1
     ELSE UNCHANGED faults
  /\ threads' = threads \ {i}
  /\ lost' = lost \cup Share(i)
  /\ table' = [table EXCEPT ![solvers[i]] = IF backend = "cuda" THEN "dead" ELSE @]
  /\ UNCHANGED <<vars, backend, next, solvers, batch, hit, compared>>

(* All threads are joined, and the loop goes on with what it is told.        *)
Joined == batch /\ threads = {}

Return ==
  /\ batch' = FALSE /\ hit' = FALSE /\ compared' = {} /\ lost' = {}
  /\ UNCHANGED threads

BatchFound ==
  /\ Joined /\ hit
  /\ told' = TRUE /\ pc' = "clear"
  /\ Return
  /\ UNCHANGED <<key, zone, pos, total, quit, after, disk, checked, missed,
                 complete, bounds, devices, faults>>

BatchSearched ==
  /\ Joined /\ ~hit
  /\ checked' = checked \cup compared /\ missed' = missed \cup lost
  /\ Advance
  /\ \/ pc' = "loop" /\ UNCHANGED after
     \/ pc' = "write" /\ after' = "loop"
  /\ Return
  /\ UNCHANGED <<key, zone, quit, disk, complete, told, bounds, devices, faults>>

-----------------------------------------------------------------------------
(* Everything else the loop does it does between two batches. What is set of *)
(* g_shutdown while the GPUs work is read at the next head, and is an        *)
(* interrupt of then. A kill ends the threads with the process.              *)
Between ==
  /\ ~batch
  /\ NextZone \/ AllZones \/ Clear \/ Finish \/ Save
  /\ UNCHANGED <<devices, flight, faults>>

InterruptLoop ==
  /\ ~batch /\ MoreTrouble
  /\ Interrupt
  /\ UNCHANGED <<devices, flight, faults>>

KillAll ==
  /\ MoreTrouble
  /\ Kill
  /\ batch' = FALSE /\ threads' = {} /\ hit' = FALSE
  /\ compared' = {} /\ lost' = {}
  /\ UNCHANGED <<devices, faults>>

-----------------------------------------------------------------------------
GpuInit ==
  /\ Init
  /\ backend \in Backends
  /\ next = 0 /\ solvers = <<>> /\ table = [e \in Devices |-> "null"]
  /\ batch = FALSE /\ threads = {} /\ hit = FALSE
  /\ compared = {} /\ lost = {}
  /\ faults = 0

InitDevices ==
  InitStarts \/ DeviceReady \/ DeviceFails \/ DeviceFull \/ StartLoop \/ NoDevice

Progress ==
  \/ Launch \/ (\E i \in threads : Compute(i) \/ Fail(i))
  \/ BatchFound \/ BatchSearched \/ Between

GpuNext == InitDevices \/ Progress \/ InterruptLoop \/ KillAll

GpuSpec == GpuInit /\ [][GpuNext]_gpuVars

(* Every thread ends, the loop runs, and the user starts the program again   *)
(* until the search is over.                                                 *)
GpuFairSpec ==
  /\ GpuSpec
  /\ WF_gpuVars(Progress)
  /\ WF_gpuVars(InitDevices)

-----------------------------------------------------------------------------
(* Every variable of the GPUs has its type.                                  *)
GpuTypeOK ==
  /\ backend \in Backends
  /\ next \in 0 .. NumDevices + 1
  /\ solvers \in Seq(Devices)
  /\ table \in [Devices -> {"null", "built", "freed", "dead"}]
  /\ batch \in BOOLEAN /\ hit \in BOOLEAN
  /\ threads \subseteq 1 .. Len(solvers)
  /\ compared \subseteq Nat /\ lost \subseteq Nat
  /\ faults \in 0 .. MaxFaults

(* MultiGPUPuzzleSolver::search_batch: a batch divided among GPUs, whichever *)
(* of them could be initialised, fail, or end first, is to the loop the one  *)
(* search of ZoneSearch: every key of the batch is gone through or on a GPU  *)
(* that failed, and a hit is the key.                                        *)
ZoneSpec == Spec
=============================================================================

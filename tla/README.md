# StarMiner in TLA+

StarMiner searches for the private key of a Bitcoin puzzle address: with
Pollard's kangaroos, alone or as a worker of a pool, or by going through a range
of keys on GPUs.  This directory holds TLA+ specifications of its concurrent,
distributed and persistent parts and of the arithmetic under them, the TLC
configurations that check them, and proofs for TLAPS.  Paths are relative to the
root of the repository.

    tlc -config ServerLedger.cfg MCPoolServer.tla     model-check one run
    tlapm PoolServerProofs.tla                        check the proofs of a module

## The system

| part | code | state it keeps | operations | what is hard |
|---|---|---|---|---|
| pool server | `pool/jlp_server/server.py`, `protocol.py` | SQLite tables `workers`, `assignments`, `dps`, `solutions`; a file of found keys; one asyncio task per connection | AUTH, WORK_REQ, DP_BATCH, DP_SUBMIT, STATS_REQ, SOLUTION, PING, timeouts | tasks interleave at every `await`; a handler is several transactions; a crash between two of them |
| pool client | `src/pool/jlp_pool_client.{cpp,hpp}` | socket, login state, current assignment, queue of distinguished points (DPs), sequence counter | connect, authenticate, request_work, submit_dps, disconnect; a receiver and a sender thread | threads share state under four mutexes, snapshots are used after unlock, a connection dies anywhere |
| pool manager | `src/pool/pool_manager.{cpp,hpp}` | the client object, a cached assignment, a supervisor thread with a failure count | connect, disconnect, get_work, submit_dp, supervisor loop | the supervisor replaces the client under the callers' feet; retries and giving up |
| pool mode, worker script | `src/runtime/pool_solver.cpp`, `worker/starminer-worker.py`, backends in `src/core` and `src/gpu` | checkpoint of the assignment, child process | run_pool_mode, save and load of the checkpoint, restart loop | resume after a crash, interrupts, a puzzle solved elsewhere |
| kangaroo solver (CPU) | `src/core/kangaroo.hpp` | herds, DP table, work file | set_range, solve, worker threads, save, load | position and distance in step, threads on one table, resume from a cut file |
| kangaroos on GPUs | `src/gpu/kangaroo_kernel.cu`, `src/gpu/rckangaroo_wrapper.cu` over `third_party/RCKangaroo` | herds in device memory, DP table, list between threads | solve, kernel launches, collision | a thread per GPU, shared inversions, signs of distances |
| zone search and its state file | `src/runtime/puzzle_solver.cpp`, `core/search_state.hpp` | zone, position, total; file with a checksum | scan, save, resume, clear | a crash inside a save; keys skipped by a resume |
| range search on GPUs | `src/gpu/puzzle_gpu.cu`, `puzzle_optimized.cu`, `puzzle_metal.mm`, `metal_multi_gpu_puzzle.mm` | devices and their tables | init, search_batch | a thread per GPU, devices that fail |
| arithmetic and hashes | `core/crypto_cpu.hpp`, `gpu/*.cu`, `gpu/*.metal`, `core/sha256*`, `core/ripemd160*`, `gpu/v2/device_hashes.cuh` | none | field, points, scalar multiplication, digests | carries, special cases of addition, block boundaries |
| brain-wallet search, rules, UI, CLI, tools, installer | see "Not modelled" | | | |

The parts call each other as follows.  `starminer-worker.py` starts the program
and starts it again when it exits.  Pool mode (`run_pool_mode`) owns one
`PoolManager`, asks it for an assignment, runs a kangaroo backend on it and hands
it every DP in a callback from the solver's threads.  The manager owns one
`JLPPoolClient`, and its supervisor thread replaces that object when the
connection is lost.  The client talks JLP frames over TLS to `server.py`, one
asyncio task per connection, and those tasks meet only in the SQLite database.
Puzzle mode (`run_puzzle_mode`) is alone with its state file and drives either
the range search or a kangaroo solver on the GPUs.

What makes each part correct:

* **Server.**  The credit of a worker is what it deposited; a tame and a wild
  kangaroo that met give the key, whichever two connections brought them and in
  whichever order, unless a row at the opposite point hides one from the other;
  nothing but the key is recorded, and it is durable before anybody is told; a
  work_id keeps its meaning; a rig that is alone under its name holds one chunk;
  a request that takes several steps gets its answer, whatever else is going on.
* **Client.**  A DP goes out at most once and in order, numbered without gaps
  under its work_id; calls return; what is accepted is sent while the connection
  lasts.
* **Manager.**  Host and supervisor are at the client together only after
  `connect()` was called in a session that is down; any other lost session is
  restored or given up, and given up only after 16 attempts in a row; every DP is
  counted; disconnect returns and leaves nothing.
* **Pool mode.**  What is searched was assigned; one process searches; it stops
  when told and comes back when not.
* **Kangaroos.**  A reported key is the key; the second of two kangaroos that meet
  sees the first; the pool holds what solved the search; solve() returns.
* **Zones and range search.**  No resume skips a key, whatever was cut, killed or
  refused, and shares of a batch leave nothing out; the search ends.
* **Arithmetic.**  Each copy of the field, of the group law and of the hashes
  computes what the others and the definition do.

## Modules

| module | what it is | code |
|---|---|---|
| `PoolServer` | one step per transaction of a handler, per connection; crash, database error, time | `server.py`, `protocol.py` |
| `SharedDPStore` | what a pool promises: deposit, discover, bring | abstract; `PoolServer` implements it |
| `JLPClient` | one step per critical section or I/O call of caller, receiver and sender; the server's answers and the network | `jlp_pool_client.{cpp,hpp}` |
| `PoolManager` | host, solver thread and supervisor over a client reduced to six states | `pool_manager.{cpp,hpp}` |
| `PoolSession` | what a session may do: up, down, restored, given up, ended | abstract; `PoolManager` implements it |
| `PoolMode` | the worker: checkpoint, session, backend, and the script or the menu that starts it again | `pool_solver.cpp`, `starminer-worker.py`, `main.cpp`, the backends |
| `Kangaroo` | the CPU solver: threads, table, the loop of solve(), the work file over kills and restarts | `kangaroo.hpp` |
| `ZoneSearch` | the loop over the zones, the save in its five steps, load with validation, kill | `puzzle_solver.cpp`, `search_state.hpp` |
| `GpuSearch` | the same loop over a `MultiGPUPuzzleSolver`: devices, shares, threads | `puzzle_gpu.cu`, Metal hosts; it implements `ZoneSearch` |
| `GpuHerd` | the multi-GPU kangaroos: launches, DP table, host threads, poll and join | `kangaroo_kernel.cu` |
| `RCHerd` | the RCKangaroo wrapper: list between the GPUs' threads and the caller, table, collisions, two solves in one process | `rckangaroo_wrapper.cu` |
| `Words`, `FieldCpu`, `FieldKangaroo`, `FieldPuzzle`, `FieldSecp`, `FieldMetal`, `Inverse` | the copies of the field arithmetic, word by word, and the addition chains of the inversions | `crypto_cpu.hpp`, the kernels |
| `FieldRegisters` | a field element in a register of each of the five copies | - |
| `Curve`, `CurveCpu`, `CurveKangaroo`, `CurvePuzzle`, `CurveSecp`, `CurveMetal` | the group law, and the copies of point arithmetic, scalar multiplication and batch inversion | the same |
| `Hashes`, `HashKernel`, `HashDevice`, `HashCpu`, `Digests` | padding, blocks, HMAC, PBKDF2, BIP-32 and addresses; one step of compression is a mixing function | `sha256*`, `ripemd160*`, `device_hashes.cuh`, kernels |
| `Arithmetic` | `FieldRegisters`, and the same for points and digests | - |
| `MC...` | constants of the runs | - |
| `...Proofs` | theorems about the modules they extend or instantiate | - |

Variables and actions keep the names of the code where there is one; the comment at
the head of each module says which variable is which member or table.  Variables
marked *history* there are read by properties only, or set bounds.  A definition
whose comment begins with *mutant* is a plausible mistake in the definition it is
named after; it is used in no specification and shows that a property can fail.

### How the code was abstracted

*Server.*  Points of the curve are their discrete logarithms modulo `N`, so that
`Point` of a tame, a wild and a mirrored kangaroo are `d`, `Key + d` and `d - Key`, and
`X`, by which rows are compared, names a point up to its sign;
`_compute_key` and `_verify_privkey` are exact in that group.  Every
`async with aiosqlite.connect` block that commits is one step: SQLite serialises
writers.  `get_stats` is two steps because its two counts are two statements.  Time
is two actions: an assignment becomes overdue, a worker becomes silent.  A crash
drops all tasks and keeps the tables; a database error ends one task.  `lost` marks a
fault between `save_dps` and the check, after which the code indeed forgets the pair.

*Client.*  A frame on its way is its type and work_id.  `connected_` and `socket_` are
looked at first and used later, as in `send_message`.  A write may fail at any time.
`current_work_` is not initialised by the constructor, so its first work_id is any
member of `Garbage`.  The server of this module answers one request after the other
and may close the connection at any time; with `Unasked` it also sends what nobody
asked for.

*Manager.*  The client is one of *none, fresh, open, authed, lost, closed*.  Delays are
left out, so every order of a probe, a loss and a call is possible.  Where the code
uses a destroyed client (`submit_dp` and `get_work` against the supervisor's teardown,
and either of host and supervisor when `connect()` is called beside the supervisor) the
model takes every outcome: the process dies, or the call fails or succeeds without a
trace in the present client.  `connect()` is possible whenever `connected_` is false.

*Pool mode.*  An assignment is the pool that gave it and its number.  The cpu and cuda
backends behave alike and are one; Metal polls.  A cut checkpoint keeps its number or
is refused by the sizes of its fields.

*Kangaroo.*  The group is the integers, exact as long as no kangaroo comes to half the
order (`Top`).  `ec_add`, called at `kangaroo.hpp:768`, writes its result over an argument it
still needs, so that every wild kangaroo starts off the curve (`Stray`); `Aliased` says
whether it does so, as built, or not, as the comments say.  The run takes one thread
of each kind; the theorems hold for any choice.

*Zone search.*  A position is one number, not two words.  What a full disk or a kill may
leave of a file is `Cuts`: fields come in the order zone, position, total, checksum, and
a file cut before its checksum is accepted like a file of version 1.  The zone behind
the last, which an interrupt at the very end saves, is read out of bounds by the next
run: the model takes it as done or as open.

*Range search.*  A share is computed at once or lost at once; `missed` collects what was
on a device that failed, since the loop cannot see it.

*GPU kangaroos.*  `GpuHerd` computes on a real curve of 79 points; one launch is one step.
`RCHerd` takes points as multiples of `G`, with `x` their distance from 0 modulo
`Order`; a record reaches the table with any distance of `Tames` or `Wilds`, none longer
than `Reach` (22 bytes, signed, against a group of 256 bits).

*Arithmetic.*  A word is two halves of base `Half` (`2^32` in the code, 8 in the run), a
number four words, the prime `B^4 - C` with `C = Half + K` (`2^32 + 977`, 11), so that
every carry, fold and borrow of the code has its counterpart.  Points lie on a curve of
79 points over a field of 67 elements.  The addition chains of the inversions are
followed at the real size, as sums of exponents.

## What is checked

Every property of a run fails for at least one mutant: a plausible bug in one mapped
definition, under the bounds of the same run.

| run | what it shows | bounds |
|---|---|---|
| `server_ledger` | `TypeOK`, `CreditMatchesRows`, `CollisionCaught`, `OnlyTheKey`: ledger, collisions and solutions over interleaving, rollback and crash | 2 connections that are symmetric, `N` = 11, a tame and a wild DP on one point and on the opposite one, batches of 1 or 2, 3 rows, one right or wrong report, one fault |
| `server_work` | `NewestOnly`, `WorkIdsAreForever`: assignments over timeouts, silence, two rigs of one name and a crash | 3 logins, 2 chunks, 3 assignments |
| `server_live` | `Answered`, `StoreLiveSpec`: requests are answered; the server implements `SharedDPStore` with its liveness | 2 rows that collide, 2 assignments for 1 chunk, right and wrong reports |
| `client_threads` | `EachDPOnce`, `SequencesCount`: the three threads, over two connections of one client and a server that also sends what nobody asked for | 2 DPs, batches and queue of 2, 1 work_id, 1 frame in flight |
| `client_live` | `TypeOK`, `CallsReturn`, `Flushed`: no call hangs, nothing accepted is forgotten | 2 DPs, queue and batch of 1, 1 connection |
| `manager` | `ManagerTypeOK`, `OneOwner`, `EveryDPCounted`, `SessionSpec`: who is at the client; the manager implements `PoolSession` with its liveness | 3 sessions, 3 attempts, 4 DPs, `connect()` at any time the code allows |
| `pool_mode` | `TypeOK`, `WasAssigned`, `OneSearcher`, `Stops`, `KeepsGoing` | two pools whose numbers coincide, 2 process slots, script or menu |
| `solver` | `TypeOK`, `KeyIsRight`, `SecondSees`, `PoolCanSolve`, `Returns` | 2 threads, a range of 8 bits, 2 calls of solve(), work files cut anywhere |
| `zone_search` | `TypeOK`, `NothingSkipped`, `ZoneSpec`, `Ends` | a range of 5 bits, batches of 3, 2 GPUs, two of a kill, an interrupt and a failing device |
| `gpu_herd` | `PositionsHold`, `SamePointKey`, `Returns` | 2 GPUs, herds of 3, 4 jumps, a curve of 79 points, 4 targets, distances modulo 118 |
| `rc_herd` | `ListKept`, `PairGivesKey`, `Returns` | 2 GPUs, 2 solves, 3 points a solve, a list of 3 |
| `arithmetic` | `FieldAgrees`, `CurvesAgree`, `DigestsAgree` | words of 6 bits; every point and scalar of a curve of 79 points; 19 lengths of messages |

Why the bounds are enough.  *Server*: a collision needs two rows and a third one that
hides or precedes it, a race needs two tasks, and every task may bring each of a tame, a
wild and a mirrored kangaroo on a point, and a tame and a mirrored one on the opposite
point (without either exception `CollisionCaught` fails in this run); one fault reaches every gap between two transactions.  Two
rigs of one name and one of another, over two chunks, are the least with both a free
and a taken chunk while somebody expires.  *Client*: the hazards lie between four steps
of the sender and one of the receiver; two DPs in one batch or in two make a gap or a
repetition visible, the second connection makes a leftover of the first visible.
*Manager*: the third session starts with what the second left, three attempts
distinguish the first, a middle and the last.  *Pool mode*: the second pool is met
only from the menu, where one process runs several sessions; two slots are a child
that is ending and its successor.  *Solver*: two threads race for one table, and a
second call of solve() meets what the first left in the file.  *Zones*: the five zones
of 3, 3, 2, 3 and 4 keys end at, before and behind a batch of 3, the upper edge at a
position that `validate_state` refuses; the two GPUs of CUDA get shares of 1 and 2.
*GPU kangaroos*: targets 12, 24 and 50 are reached by steps back, 50 lies above
`DistMod - Order`; of the points of `rc_herd`, tame and wild ones and wild ones among
themselves meet on the same and on opposite points, and one looks the same by its first
bytes only; the third point meets a full list.  *Arithmetic*: operands have each word at
its lowest, highest and a middle value, all below the prime; scalars cover every
window, the one beyond the half of the bits too; message lengths lie around what fills
one or two blocks of 64 and 128 bytes and at the limits of the device buffers.  The
theorems below are free of these bounds.

A system that is left alone may stop: the manager when its sessions are used up, the
zone search and the solver when they have returned, the arithmetic after its operations.
Those configurations do not check for deadlock; `SessionSpec`, `Ends` and `Returns` say
where they must not stop.

### Fairness

* `PoolServer`: weak fairness of each task's own steps: asyncio runs every ready task
  and SQLite's busy timeout lets each transaction through.  Clients, time and faults
  are not fair.
* `JLPClient`: weak fairness of the receiver, the sender, a call already made and the
  server's answers; strong fairness of taking the write mutex, which is taken and
  released again and again by the other thread.  `std::mutex` promises no such thing in
  writing; the platforms' mutexes do in practice, and without it nothing could be said.
* `PoolManager`: weak fairness of the supervisor and of calls already made: each blocking
  step in them (connect, authenticate, request_work, the sleeps) has a time limit.
* `PoolMode`: weak fairness of each process and of the script; strong fairness of Metal's
  poll, which comes round between launches.  Nothing about network, user or success.
* `Kangaroo`, `GpuHerd`, `RCHerd`: weak fairness of each thread and of the caller's; in
  `GpuHerd` of the poll only once it must end.  Nothing makes kangaroos meet.
* `ZoneSearch`, `GpuSearch`: weak fairness of the process and its threads, and of the user
  who starts it again.  Kills, interrupts and faults are finitely many.

## Where documents and code disagree

Met while modelling; the models do what the code does.

*Server and protocol.*
* `dps` has no unique column, so `INSERT OR IGNORE` (`server.py:213`) ignores nothing: a DP
  sent twice is stored and credited twice, and the branch for a stale chunk (`:471-487`),
  which waits for "0 accepted", cannot be taken.
* `docs/JLP-PROTOCOL.md:215` gives a chunk one holder; the SELECT of a free chunk
  (`server.py:184`) and its INSERT are two transactions, and two tasks can pick the same.
* `docs/JLP-PROTOCOL.md:71`, `:235` describe a SOLUTION push; the server only answers, so a
  worker that neither asks nor deposits never learns of the solution.
* `docs/POOL.md:29` has any collision solve the puzzle; a point of a `DP_SUBMIT` frame is
  stored without a check, two kangaroos on opposite points give no key, and a row at the
  opposite point is what `LIMIT 1` (`server.py:255`) shows instead of a later partner.  `docs/POOL.md:96` calls the share a fraction in [0, 1]; rows
  stored between the two counts of `get_stats` can make it exceed 1.
* A refused SOLUTION (`server.py:549`, `:556`) and a frame of an unknown type (`:578`) get
  no answer.
* The comment at `server.py:160` takes `last_seen` for life; only DPs refresh it, `PING` does
  not, so a live worker without a DP for 300 s can lose its chunk.
* `docs/JLP-PROTOCOL.md:147`, `:256` reject a wrong work_id and `docs/POOL.md:76` speaks of a
  sequence window; the handler checks less.  `docs/POOL.md:183` and `JLP-PROTOCOL.md:209`
  limit a failed login to three attempts; the supervisor goes on to 16.
* `docs/JLP-PROTOCOL.md:138` and `kangaroo_backend.hpp:40` want big-endian, sign-extended
  fields.  The CUDA backend exports them little-endian and unextended
  (`rckangaroo_wrapper.cu:601`) while `server.py:241` reads big-endian; its tame distances
  are without, its wild starts below the target by, half a range; and
  `cuda_rckangaroo_backend.cpp` never calls `set_start_offset`.  DPs of CUDA workers
  cannot solve at the pool.

*Client and manager.*
* `jlp_pool_client.hpp:301` promises writers a live TLS object; the receiver of a lost
  connection frees it under them (`jlp_pool_client.cpp:949`).
* `jlp_pool_client.hpp:148` says a batch carries the assignment's work_id; the client that the
  supervisor makes never asks for work and tags with an uninitialised one (`:1067`).
* Connect on a client that lost its connection (`jlp_pool_client.cpp:1001`) lets the old
  sender see `running_` set again, and it is joined for ever; it can also block at `:462`.
* "host code can re-call connect() to retry" (`pool_manager.cpp:339`): the thread object of the
  supervisor that gave up is still joinable, `start_supervisor` returns at `:287`, and
  the new session has nobody who restores it (`PoolSession`'s state "void").
* A key found while disconnected is only printed (`pool_manager.cpp:224`); a solution seen by
  a client is forgotten when the supervisor replaces it.

*Pool mode.*
* The comment at `pool_solver.cpp:190` takes an equal work_id for a confirmation of the
  checkpoint; an assignment of another pool or database may have it, and the same database
  always gives a new number.  Without an answer the checkpoint is searched anyway.
* The comments at `pool_solver.cpp:126-130` and `:205` say an early return closes the
  connection; `PoolManager` is a static singleton, and it stays up.  `has_work` is never
  reset, so that a second session from the menu gets the previous assignment.  If the
  connection is lost meanwhile, its `connect()` (`pool_manager.cpp:40`) does not see the
  supervisor at work, and both replace `client_`; "would race with ourselves" (`:363`)
  names only the other order.
* `kangaroo_backend.hpp:88` and `pool_solver.cpp:351` have every backend ask `should_continue`;
  `cpu_kangaroo_backend.cpp:60` and `cuda_rckangaroo_backend.cpp:68` never do.
* `starminer-worker.py`: `proc.wait(timeout=5)` raises, so an interrupt can be lost and a
  second child started while the first still ends.  The thermal protection is dead code.

*Puzzle mode and state files.*
* `search_state.hpp:166` keeps the old file until the new one is whole; when the rename fails
  it is removed first (`:218`).  "State saved" (`puzzle_solver.cpp:2023`) is printed
  whether or not it was.
* `puzzle_solver.cpp:1945`: after a solved puzzle the `continue` ends the loop of that puzzle,
  and the next of the list is never started.
* The zones are half open: `2^N - 1`, the last key of a puzzle, is in none, and searched only
  when a batch overruns.  `NothingSkipped` is about `Low .. High - 1`.
* `puzzle_optimized.cu:1642` fills its tables on the first device only: the share of every other
  one is counted and not searched.  A failed allocation, or a destructor, of any device
  frees the shared tables.  `puzzle_gpu.cu:199` and `puzzle_metal.mm` ignore the status of a
  failed batch, which counts as searched.

*CPU kangaroo.*
* "wild.point += wild_offset * G" (`kangaroo.hpp:763`) and the distance "from start" (`:185`):
  `ec_add` reads its argument after it wrote its result over it (`:768`), so that every wild
  kangaroo starts off the curve.  `metal_kangaroo_backend.mm:108` calls it so too.
* The work file is written in place.  A cut last line turns a tame point into a wild one, and
  the wrong key that comes of it is reported unverified (`tainted`); a cut number makes
  every later start throw; missing lines of the header leave members uninitialised.
* Every jump is a multiple of `2^max(1, sqrt_bits / 4)`: kangaroos of different residues never
  meet.  `4 * expected_steps` can overflow to 0, which means no limit.

*GPU kangaroos.*
* `kangaroo_kernel.cu:3101` compares x only, against `:2392`.  wild1 and wild2 start at one point
  and its mirror, so the first wild DP gives a wrong key, which `puzzle_solver.cpp:1434`
  saves to `puzzle_found.txt` unverified.  Keys from `2^256 - N` on come out wrong when a wild
  distance is negative.  Tame starts ignore `range_start`; ranges below 8 bits shift by a
  negative amount.  Two kangaroos with equal x corrupt the inversion of a group of 64.
* `kangaroo.metal:973` ("Distance is left as-is so the collision math still works"): a
  kangaroo that jumps onto infinity (`:967`) restarts at the first jump point, and every
  distance after that is wrong.
* RCKangaroo: with all GPUs failing `solve()` goes round until the callback stops it; a batch
  that would fill the list is dropped; the bloom check records only the distance of a wild
  hit, and tame positions in it are off by half a range.

*Arithmetic and hashes.*
* `puzzle_optimized.cu:632` drops a carry that `:655-660` folds.  `h160_bloom_filter.cu:7`
  (the probe matches the builder) is not so.  `puzzle.metal:751` claims its result with one weak
  compare-and-swap.
* `sha256.cu:55` says "max 55 bytes"; the benchmark passes 64 (`puzzle_solver.cpp:815`), and the
  block is overrun by a byte.  In `device_hashes.cuh` the key of a hardened BIP-32 child
  (`:837`) is the first half of the mac alone: the parent's key is hashed (`:830`) but not
  added, as BIP-32 wants it.  There too HMAC of more than 256 bytes is zeros, and the salt of
  PBKDF2 is cut at 208.  `DigestsAgree` holds with these four as exceptions, each stated in
  `Digests` as what the code returns; it says nothing of the 64 bytes.

## What is proved

For every value of the constants that satisfies the `ASSUME`s of the modules, and checked by
`tlapm` to the last leaf.  A run finds the same properties on its small instance.

| module | theorem | statement |
|---|---|---|
| `PoolServerProofs` | `TypeCorrect`, `CreditCorrect`, `KeyCorrect` | `Spec => []TypeOK`, `[]CreditMatchesRows`, `[]OnlyTheKey` |
| | `CollisionCorrect`, `NewestCorrect` | `Spec => []CollisionCaught`, `[]NewestOnly` |
| | `IdsCorrect`, `StoreCorrect` | `Spec => WorkIdsAreForever`, `Spec => StoreSpec` |
| `JLPClientProofs` | `TypeCorrect`, `OnceCorrect`, `CountCorrect` | `Spec => []TypeOK`, `[]EachDPOnce`, `[]SequencesCount` |
| `PoolProofs` | `ManagerTypeCorrect`, `OwnerCorrect`, `CountCorrect`, `GiveUpCorrect` | `ManagerSpec => []ManagerTypeOK`, `[]OneOwner`, `[]EveryDPCounted`, `GivesUpLate` |
| | `Refines` | `ManagerSpec => Session!Safety` |
| | `TypeCorrect`, `AssignedCorrect`, `SearcherCorrect` | of pool mode: `Spec => []TypeOK`, `[]WasAssigned`, `[]OneSearcher` |
| `KangarooProofs` | `TypeCorrect`, `KeyCorrect`, `PoolCorrect`, `SecondCorrect` | `Spec => []TypeOK`, `[]KeyIsRight`, `[]PoolCanSolve`, `[]SecondSees` |
| `ZoneSearchProofs` | `TypeCorrect`, `SkipCorrect` | `Spec => []TypeOK`, `[]NothingSkipped` |
| | `SharesDivide` | the shares of a batch are disjoint and are the batch |
| | `GpuTypeCorrect`, `GpuRefines`, `GpuSkipsNothing` | types; `Spec` implies `ZoneSearch`'s safety specification; nothing skipped |
| `GpuHerdProofs` | `HerdTypes` | `Spec => []TypeOK` |
| | `PositionsCorrect`, `KeyCorrect` | `Spec /\ []Near(b)` gives `[]PositionsHold`, `[]SamePointKey`, for jumps up to `J` and `4 * (b + StepsPerRound * J) < Order` |
| `RCHerdProofs` | `ListCorrect`, `PairsSolve` | `Spec => []ListKept`, `[]PairSolves` |
| | `PairCorrect` | `NoWrap` gives `Spec => []PairGivesKey` |
| `FieldProofs` | `FieldCorrect` | `FieldSpec => []FieldAgrees` |
| | `PuzzleDrops` | a product of the puzzle copy that drops a carry is wrong |

*Server.*  `TypeInv` adds to the types what a task must have at each place: a worker once
logged in, a chunk before the insert, the key before it is recorded.  `KeyInv` lets the
file lag behind the table by exactly what the handlers at work are filing.  `WorkInv` says
that of a sole rig, logged in, no active row is left while its task stands between
expiring the old assignment and inserting the new one; it makes `NewestOnly` inductive.
`PairInv` is about the check after a batch: the check for a tame row finds every earlier
wild row that meets it; that for a wild row finds the tame one, or an earlier wild one at
the same point that the tame one must already have found; or the first row of that x is
one at the opposite point, which hides the partner (`HiddenFrom`) and, rows being only
appended, hides it for ever.  The earliest such row is taken
by well-foundedness of the naturals; a pair is *settled* when it was lost to a fault,
solved, or when a task stands before recording it.  `StoreInv` adds that rows compared are
rows stored and that what is recorded comes from a meeting or a worker, which gives each
transaction its step of `SharedDPStore`.

*Client.*  `ClientInv` says where the three threads can be together (`Control`); which
assignments the frames, the snapshot and the counter may refer to, in the order they were
given (`Assignments`); that snapshot, drain and write-back agree with the tags already
given, of one work_id at a time (`Counters`); that what was sent, what the sender holds and
the queue are one rising sequence, complete while nothing broke (`Conveyed`); and that a
client nothing happened to stays connected and logged in (`Unbroken`, `Fresh`).

*Manager.*  While no `connect()` came in a session that was down (`recalled`), a supervisor
at work has a session, counts exactly the misses and has no connection while it tries, a
connection means no miss, and the host dials only when no supervisor is at work
(`SupervisorInv`, `HostInv`).  `TornInv` says who can be in a call on a destroyed client.
After such a `connect()` it is left that a thread is joined by the only disconnect that can
end the session, which is what `OneOwner` still promises.  `Refines` needs no hypothesis:
`PoolSession` allows the call and promises nothing between it and the disconnect.

*Pool mode.*  `WorkInv` follows an assignment from the pool through manager, process and
checkpoint; `RunInv` counts the processes the script or the menu may have running.

*Kangaroos.*  `WalkInv`: position is start plus distance for each kangaroo, in memory, in the
table and in every file on the disk that is not `tainted`.  `KeyInv`, `PoolInv` and
`SeenInv` follow, since a comparison under the lock sees two such points.  In `RCHerd`,
`TableInv` says that what is on the way are records of this target and that the table
holds exactly the first point seen of each 12 bytes.  `DeterminedIsFound` shows for every
pair of types, in both orders and under both signs, that the key is among what
`Collision_SOTA` tries; it rests on `XIsDistance`: no position comes to half the order, so
an x tells a position up to its sign.  That nothing else stands the test needs `NoWrap`:
a negative candidate is multiplied as `2^256` less its amount, and that may equal a key
once the range and the distances reach the 2^128 by which `2^256` exceeds the order.

*GPU kangaroos.*  A kangaroo is `Good` when it is at the multiple of G that its type and signed
distance say, not at infinity, and within `b` of its start.  `JumpKeeps` carries this over one
jump in either direction: the kernel's addition is the group's when the two x differ
(`AddIsPlus`), and a distance that stays below half of `DistMod` does not wrap
(`SignedMoves`).  `LaunchKeeps` carries it over a launch of any length.  A launch is a
recursive function; that it has a value (`Recursion`) and what its value satisfies
(`Inductive`) are inductions over a set of step numbers, from the well-foundedness of the
naturals, since the library's induction theorems cannot be used.  `Positions` says the same of
every herd, the table and the last pair, as long as no launch met a jump it stood on (`broken`);
`PairOK` keeps result and pair together, and `TameAndWild` does the arithmetic of the key for
both types and every sign.  What is assumed: `FieldLaw` and `GroupLaw` of `Curve` (the field
has inverses, and the multiples of G form a group in which no y is 0: facts of secp256k1, not of
the code, which TLC confirms for the small curve), `Order < DistMod <= 1.5 * Order` (2^256
and the order differ by 2^128), tame starts below half of `DistMod`, and `[]Near(b)`:
distances stay below a quarter of the order.  The code starts tame kangaroos below 2^128 and
jumps by 64 bits, so only a search of more than 2^189 steps could leave that bound.  `Near` is
a hypothesis and not an invariant because the number of steps is unbounded in the model.

*Zones.*  A file whose end was cut says nothing by its total or checksum, so `SearchInv` is
about every file on the disk, accepted or not: no key before its position, in the order of
the zones, is unsearched.  That the zones cover the range is the lemma `ZonesCover` about
their percentages.  On many GPUs, `FlightInv` says that what was compared, what was lost and
the shares of the threads still running are disjoint and together the window of the batch,
so the last thread to end completes the one step of `ZoneSearch`.

*Field arithmetic.*  `FieldCorrect` says that the additions, subtractions and products of all
five copies are those of the field, for every width of a word and every prime of this
form that satisfy `WordsAssumption` (`Half > 2K` and `(Half + K + 2) * K < Half^2`, true of
2^32 and 977), whatever elements are combined and however long.  Words are read as the
number they stand for, `Val`.  *Words:* `Carried` keeps that number, and its last carry says by
how much the four words miss it; `Geq` compares the numbers.  *Products:* one word of a
product has its carries read off wrapped sums, and they cannot overflow a word
(`MulAddIs`); rows of four words make the product (`ProductIs`), and so do Metal's half
words (`MetalProduct`) and the rows of eight limbs (`LimbProduct`).  *Folds:* 2^256 is `C`
more than the prime, so moving what is above four words down, times `C`, leaves the number
unchanged modulo the prime (`Leaves`).  The first fold leaves at most `C` above, the second
at most 1, and then the words are so small that the third leaves nothing (`FirstFold`,
`SecondFold`, `ThirdFold`).  *Reduction:* four words are less than twice the prime, so one
subtraction is enough (`Reduced`); the loops of the code (`while (a >= p)`, the loop over
`extra`, `mod_reduce`) therefore end after the passes the models write out.  The invariant is
that the number is an element and that every register holds its words.  The puzzle copy
stops after the second fold (`puzzle_optimized.cu:632`): with `lost`, `FieldAgrees` excepts
the products that still carried there, and `PuzzleDrops` shows that it excepts none
that came out right.  The theorem is about `FieldSpec`, whose actions are the field
steps of `Arithmetic`.

### Model-checked only

* Liveness: `Answered`, the liveness of `StoreLiveSpec` and `SessionSpec`, `CallsReturn`,
  `Flushed`, `Stops`, `KeepsGoing`, `Returns`, `Ends`.  The prover has neither `ENABLED`
  nor induction over behaviours under fairness.
* `GpuHerd` beyond `Near`: the run lets kangaroos on a curve of 79 points go round the group, and
  finds `PositionsHold` and `SamePointKey` true there too.
* `CurvesAgree`, `DigestsAgree`: recursion over bits, windows and blocks, bitwise operators, and
  facts about one particular curve and its endomorphism.

## Not modelled

* *Brain wallets.*  The generators that reproduce weak practices (weak random numbers,
  encodings, old wallet formats, slow key derivations), the rule engine: pure functions of
  text without state.  `BrainWalletStateManager` has no caller, the GPU paths of
  `v2_orchestrator` are stubs.  `derive_p2tr_bip86` is an approximation by its own TODO.
* *Code that nothing calls*: `search_range`, the single-GPU kangaroo manager and its kernels in
  `kangaroo_kernel.cu` (1334-2743), `secp256k1_batch_mul`, `pubkey_to_hash160` of
  `ripemd160.cu`, `generate_tames` and `load_tames`.
* *The Metal kangaroo's host loops*, which differ from the CUDA ones in the queue they submit
  to; its point arithmetic is modelled.  The timing of calibrations.
* *Inside the modelled files*: byte encodings and frames, certificates, statistics, status
  strings, the CPU scan and the displays of `puzzle_solver.cpp`, downloading and the dashboard
  of `starminer-worker.py`.
* *I/O and data*: command line, menus, logs, HTTP queries, puzzle tables, the builder of bloom
  filters, installers, vendored libraries (RCKangaroo's host side is modelled as far as the
  wrapper runs it).

## Plan

1. Composition of `PoolManager` with `JLPClient` in place of the six-state client.
2. The formulas of doubling and addition in the five copies, from `FieldLaw` and `GroupLaw` as
   `AddIsPlus` does for the kernel's affine addition.

------------------------------ MODULE ZoneSearch ------------------------------
(***************************************************************************)
(* The GPU search of one puzzle range, zone after zone, in                 *)
(* src/runtime/puzzle_solver.cpp, and the state file it resumes from,      *)
(* src/core/search_state.hpp, over interrupts, kills and full disks.       *)
(*                                                                         *)
(*   key      the key looked for                                            *)
(*   pc       where the process is; "off" when there is none               *)
(*   zone, pos, total   current_zone_idx + 1, the two words of the         *)
(*            position as one number, total_checked                        *)
(*   quit     g_shutdown                                                   *)
(*   after    where the save that runs returns to                          *)
(*   file, temp   puzzle_N.state and puzzle_N.state.tmp                    *)
(*   checked  history: the keys that were compared and did not match       *)
(*   missed   history: keys of batches that failed on a GPU, which the     *)
(*            loop counts like the others                                  *)
(*   complete, told   history: "all zones checked" was printed; the key    *)
(*            was printed                                                  *)
(*   kills, quits     history: kills and interrupts so far                 *)
(*                                                                         *)
(* One puzzle is searched. zone_checked and the timestamp are only shown.  *)
(***************************************************************************)
EXTENDS Integers, Sequences

CONSTANTS
  Low, High, \* the bounds of the puzzle's range
  Batch,     \* keys of one search_batch
  Limit,     \* validate_state refuses this position and those above
  Targets,   \* the keys that may be looked for; others than those of the range
             \* stand for no key
  MaxKills,  \* bound: kills
  MaxQuits   \* bound: interrupts

ASSUME SearchAssumption ==
  /\ {Low, High, Limit, MaxKills, MaxQuits} \cup Targets \subseteq Nat
  /\ Low <= High /\ Batch \in Nat \ {0}

VARIABLES key, pc, zone, pos, total, quit, after, file, temp, checked,
          missed, complete, told, kills, quits

process == <<pc, zone, pos, total, quit, after>>
disk    == <<file, temp>>
history == <<checked, missed, complete, told>>
bounds  == <<kills, quits>>
vars    == <<key, process, disk, history, bounds>>

(* PUZZLE_ZONES, in percent of the range, and the keys at those bounds.      *)
PuzzleZones == <<<<60, 85>>, <<30, 50>>, <<50, 60>>, <<85, 100>>, <<0, 30>>>>
NumZones    == 5
Position(p) == Low + ((High - Low) * p) \div 100
From(z)     == Position(PuzzleZones[z][1])
To(z)       == Position(PuzzleZones[z][2])
Keys(z)     == From(z) .. To(z) - 1

-----------------------------------------------------------------------------
(* A state file is what its fields load as. sum is "none" when there is no   *)
(* checksum line, which is accepted for the sake of old files.               *)

NoFile  == [zone |-> 0, pos |-> 0, total |-> 0, sum |-> "none"]
Empty   == [NoFile EXCEPT !.zone = 1]
Content == [zone |-> zone, pos |-> pos, total |-> total, sum |-> "ok"]

(* What a full disk or a kill leaves of it. The fields come in the order     *)
(* zone, position, total, checksum; the field that is cut loses digits and   *)
(* those after it load as 0. What is cut before the total is refused like    *)
(* the empty file.                                                           *)
Cuts(c) ==
  {Empty, [c EXCEPT !.total = @ \div 10, !.sum = "none"],
   [c EXCEPT !.sum = "none"], [c EXCEPT !.sum = "bad"]}

Accepts(f) == f.total > 0 /\ f.sum # "bad" /\ f.pos < Limit

Start ==
  /\ pc = "off" /\ ~told
  /\ IF Accepts(file)
     THEN zone' = file.zone /\ pos' = file.pos /\ total' = file.total
     ELSE zone' = 1 /\ pos' = From(1) /\ total' = 0
  /\ pc' = "loop" /\ quit' = FALSE
  /\ UNCHANGED <<key, after, disk, history, bounds>>

-----------------------------------------------------------------------------
(* The loop. A file that was saved when the search was over names a zone     *)
(* behind the last. Its bounds are what lies behind the array, so that zone  *)
(* may count as searched and as open. (Bound: for one batch only.)           *)

Looping == pc = "loop" /\ ~quit
Behind  == zone > NumZones
IsDone  == IF Behind THEN TRUE ELSE pos >= To(zone)
IsOpen  == pos < IF Behind THEN To(NumZones) + Batch ELSE To(zone)

(* mutant: the position stays where the zone before ended *)
NextZone_KeepPos ==
  /\ Looping /\ zone < NumZones /\ IsDone
  /\ zone' = zone + 1
  /\ UNCHANGED <<key, pc, pos, total, quit, after, disk, history, bounds>>

NextZone ==
  /\ Looping /\ zone < NumZones /\ IsDone
  /\ zone' = zone + 1 /\ pos' = From(zone + 1)
  /\ UNCHANGED <<key, pc, total, quit, after, disk, history, bounds>>

(* mutant: the index runs on *)
AllZones_RunOn ==
  /\ Looping /\ zone >= NumZones /\ IsDone
  /\ zone' = zone + 1
  /\ complete' = TRUE
  /\ pc' = "over"
  /\ UNCHANGED <<key, pos, total, quit, after, disk, checked, missed, told, bounds>>

(* The index is not counted beyond the first one that names no zone.         *)
AllZones ==
  /\ Looping /\ zone >= NumZones /\ IsDone
  /\ zone' = NumZones + 1
  /\ complete' = TRUE
  /\ pc' = "over"
  /\ UNCHANGED <<key, pos, total, quit, after, disk, checked, missed, told, bounds>>

Window == pos .. pos + Batch - 1

Advance == pos' = pos + Batch /\ total' = total + Batch

(* Every 30 s the state is saved after a batch. That a GPU failed looks like *)
(* a batch without the key.                                                  *)
SearchBatch ==
  /\ Looping /\ IsOpen
  /\ \E lost \in SUBSET Window :
       /\ key \notin Window \ lost
       /\ checked' = checked \cup (Window \ lost) /\ missed' = missed \cup lost
  /\ Advance
  /\ \/ pc' = "loop" /\ UNCHANGED after
     \/ pc' = "write" /\ after' = "loop"
  /\ UNCHANGED <<key, zone, quit, disk, complete, told, bounds>>

Found ==
  /\ Looping /\ IsOpen /\ key \in Window
  /\ told' = TRUE
  /\ pc' = "clear"
  /\ UNCHANGED <<key, zone, pos, total, quit, after, disk, checked, missed,
                 complete, bounds>>

Clear ==
  /\ pc = "clear"
  /\ file' = NoFile /\ temp' = NoFile
  /\ pc' = "off"
  /\ UNCHANGED <<key, zone, pos, total, quit, after, history, bounds>>

(* Ctrl+C ends the loop at its head, and the state is saved.                 *)
Interrupt ==
  /\ pc \notin {"off", "clear"} /\ ~quit /\ quits < MaxQuits
  /\ quit' = TRUE /\ quits' = quits + 1
  /\ UNCHANGED <<key, pc, zone, pos, total, after, disk, history, kills>>

SaveAndQuit ==
  /\ pc \in {"loop", "over"} /\ quit
  /\ pc' = "write" /\ after' = "off"
  /\ UNCHANGED <<key, zone, pos, total, quit, disk, history, bounds>>

Finish ==
  /\ pc = "over" /\ ~quit
  /\ pc' = "off"
  /\ UNCHANGED <<key, zone, pos, total, quit, after, disk, history, bounds>>

-----------------------------------------------------------------------------
(* save_puzzle_state: the temporary file is written, and renamed over the    *)
(* state file; when that fails, the state file is removed and the rename     *)
(* tried again.  Whether all of it was written is not looked at.             *)

Write ==
  /\ pc = "write"
  /\ \/ temp' \in {Content} \cup Cuts(Content) /\ pc' = "rename"
     \/ UNCHANGED temp /\ pc' = after
  /\ UNCHANGED <<key, zone, pos, total, quit, after, file, history, bounds>>

Rename ==
  /\ pc \in {"rename", "again"}
  /\ file' = temp /\ temp' = NoFile
  /\ pc' = after
  /\ UNCHANGED <<key, zone, pos, total, quit, after, history, bounds>>

(* mutant: the save is tried until it succeeds *)
RenameFails_Forever ==
  /\ pc \in {"rename", "again"}
  /\ pc' = IF pc = "rename" THEN "remove" ELSE "rename"
  /\ UNCHANGED <<key, zone, pos, total, quit, after, disk, history, bounds>>

RenameFails ==
  /\ pc \in {"rename", "again"}
  /\ pc' = IF pc = "rename" THEN "remove" ELSE after
  /\ UNCHANGED <<key, zone, pos, total, quit, after, disk, history, bounds>>

Remove ==
  /\ pc = "remove"
  /\ file' = NoFile
  /\ pc' = "again"
  /\ UNCHANGED <<key, zone, pos, total, quit, after, temp, history, bounds>>

Kill ==
  /\ pc # "off" /\ kills < MaxKills
  /\ pc' = "off" /\ kills' = kills + 1
  /\ UNCHANGED <<key, zone, pos, total, quit, after, disk, history, quits>>

-----------------------------------------------------------------------------
Init ==
  /\ key \in Targets
  /\ pc = "off" /\ zone = 1 /\ pos = From(1) /\ total = 0
  /\ quit = FALSE /\ after = "loop"
  /\ file = NoFile /\ temp = NoFile
  /\ checked = {} /\ missed = {} /\ complete = FALSE /\ told = FALSE
  /\ kills = 0 /\ quits = 0

Search == NextZone \/ AllZones \/ SearchBatch \/ Found \/ Clear \/ Finish
Save   == SaveAndQuit \/ Write \/ Rename \/ RenameFails \/ Remove

Next == Start \/ Search \/ Save \/ Interrupt \/ Kill

Spec == Init /\ [][Next]_vars

(* The process runs, and the user starts it again until the search is over.  *)
FairSpec == Spec /\ WF_vars(Search \/ Save) /\ WF_vars(Start)

-----------------------------------------------------------------------------
Files == {NoFile} \cup [zone : 1 .. NumZones + 1, pos : Nat, total : Nat,
                        sum : {"none", "ok", "bad"}]

(* Every variable has its type; no zone index is saved that is more than one *)
(* behind the last zone.                                                     *)
TypeOK ==
  /\ key \in Targets
  /\ pc \in {"off", "loop", "write", "rename", "remove", "again", "over",
             "clear"}
  /\ zone \in 1 .. NumZones + 1 /\ pos \in Nat /\ total \in Nat
  /\ quit \in BOOLEAN /\ complete \in BOOLEAN /\ told \in BOOLEAN
  /\ after \in {"loop", "off"}
  /\ {file, temp} \subseteq Files
  /\ checked \subseteq Nat /\ missed \subseteq Nat
  /\ kills \in 0 .. MaxKills /\ quits \in 0 .. MaxQuits

(* What a position stands for: the zones before it, and its own zone up to   *)
(* it, have been searched, but for what a GPU failed to search.               *)
Counted == checked \cup missed
Searched(z, p) ==
  \A i \in 1 .. NumZones : \A k \in Keys(i) :
    i < z \/ (i = z /\ k < p) => k \in Counted

(* PuzzleSearchState, GPU loop: the position of the running search, and that *)
(* of a file it would resume from, stand for what was really searched,       *)
(* however saves, kills, full disks and restarts followed each other; and    *)
(* when all zones are said to be checked, every key from Low up to (not      *)
(* with) High was compared and is not the key, or was in a batch that failed. *)
NothingSkipped ==
  /\ pc # "off" => Searched(zone, pos)
  /\ \A f \in {file, temp} : Accepts(f) => Searched(f.zone, f.pos)
  /\ complete => Low .. High - 1 \subseteq Counted /\ key \notin checked

(* GPU loop: a search that is killed and interrupted finitely often, and is  *)
(* started again each time, finds the key or goes through all zones.         *)
Ends == <>(complete \/ told)

=============================================================================

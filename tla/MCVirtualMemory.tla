-------------------------- MODULE MCVirtualMemory ---------------------------
(* Instances of VirtualMemory for TLC. *)
EXTENDS VirtualMemory

(* Enough memory in one chunk, the same split in two, and ever less.  The  *)
(* kernel's image takes frame 12; frame 13 is beyond what an entry names.  *)
Memories == {1 .. 11, 2 .. 11, (1 .. 4) \union (6 .. 11), 6 .. 11, 1 .. 3, {5}}

OneMemory == {2 .. 11}

(* Pages that were never used, full of entries that look present, and      *)
(* others.                                                                 *)
Leftovers == {EmptyTable, [x \in Index |-> [present |-> TRUE, frame |-> 3]],
              [x \in Index |-> [present |-> x = 2, frame |-> 9]]}
Zeroes == {EmptyTable}
=============================================================================

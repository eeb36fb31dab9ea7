-------------------------- MODULE MCPhysicalMemory --------------------------
(* Instances of PhysicalMemory for TLC. *)
EXTENDS PhysicalMemory, TLC

(* Two usable stretches, a reserved one and a hole between them. *)
SplitMemory ==
  << [base |-> 1, n |-> 3, usable |-> TRUE],
     [base |-> 4, n |-> 2, usable |-> FALSE],
     [base |-> 7, n |-> 1, usable |-> TRUE] >>

(* One stretch of usable memory. *)
FlatMemory == << [base |-> 1, n |-> 2, usable |-> TRUE] >>
=============================================================================

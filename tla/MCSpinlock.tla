----------------------------- MODULE MCSpinlock -----------------------------
(* The instance of Spinlock for TLC: the processors are model values. *)
EXTENDS Spinlock
=============================================================================

------------------------------ MODULE MCTraps ------------------------------
(* The interrupt stack lies 300 words up, the process has the words to 110. *)
EXTENDS Traps
=============================================================================

------------------------ MODULE MCProcessManagement -------------------------
(* Instances of ProcessManagement for TLC. *)
EXTENDS ProcessManagement, TLC

CONSTANTS bsp, ap1, ap2

(* The boot processor is not the first of the list, and APIC ID 0 belongs  *)
(* to a processor that is listed behind others.                            *)
ThreeCPUs == <<ap1, bsp, ap2>>
ThreeIDs == ap1 :> 2 @@ bsp :> 1 @@ ap2 :> 0

TwoCPUs == <<bsp, ap1>>
TwoIDs == bsp :> 0 @@ ap1 :> 1
=============================================================================

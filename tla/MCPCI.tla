------------------------------- MODULE MCPCI -------------------------------
(* Machines of three buses with two slots of two functions each. *)
EXTENDS PCI

None == "none"
Plain(device, header) ==
  [vendor |-> 32902, device |-> device, class |-> 2, subclass |-> 0,
   header |-> header, bar0 |-> 0, bar2 |-> 0, screen |-> <<>>]
(* A bridge to a bus: the bus is the second byte of register 24. *)
BridgeTo(bus, header) ==
  [Plain(40 + bus, header) EXCEPT !.class = 6, !.subclass = 4, !.bar2 = 256 * bus]
Display(bar0) ==
  [Plain(4369, 0) EXCEPT !.vendor = 4660, !.class = 3, !.bar0 = bar0,
                              !.bar2 = 131072, !.screen = <<3, 2, 32>>]

Kinds == [k \in {"plain", "multi", "bridge0", "bridge1", "bridge2", "multibridge2",
                 "display", "prefetch"} |->
  CASE k = "plain" -> Plain(7, 0) [] k = "multi" -> Plain(8, 128)
    [] k = "bridge1" -> BridgeTo(1, 1) [] k = "bridge2" -> BridgeTo(2, 1)
    [] k = "bridge0" -> BridgeTo(0, 1)
    [] k = "multibridge2" -> BridgeTo(2, 129) [] k = "display" -> Display(65536)
    [] k = "prefetch" -> Display(65536 + 8)]

Topology(f) == [p \in {q \in DOMAIN f : f[q] # None} |-> Kinds[f[p]]]
MCTypes == {AnyType, BridgeType, 768}
(* Hosts with one or two functions or none, bridges on two levels, also    *)
(* back to the first bus, functions behind devices that show or hide them, *)
(* and at most one display, whose memory is prefetchable or not.           *)
MCMachines ==
  {Topology([p \in {<<0, 0, 0>>, <<0, 0, 1>>, <<0, 1, 0>>, <<0, 1, 1>>,
                    <<1, 0, 0>>, <<1, 1, 1>>, <<2, 1, 0>>} |->
     CASE p = <<0, 0, 0>> -> h [] p = <<0, 0, 1>> -> g [] p = <<0, 1, 0>> -> a
       [] p = <<0, 1, 1>> -> be[1] [] p = <<1, 0, 0>> -> d [] p = <<1, 1, 1>> -> "plain"
       [] p = <<2, 1, 0>> -> be[2]]) :
     h \in {None, "plain", "multi"}, g \in {None, "plain"},
     a \in {None, "multi", "bridge1", "multibridge2"},
     d \in {None, "plain", "bridge0", "bridge2"},
     be \in ({None, "bridge1"} \X {None, "display", "prefetch"}) \union {<<"display", None>>}}

MCAnyType == {AnyType}
(* A display behind a plain device. *)
MCDisplay == {Topology((<<0, 0, 0>> :> "plain") @@ (<<0, 1, 0>> :> "display"))}
=============================================================================

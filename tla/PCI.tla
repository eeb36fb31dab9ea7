-------------------------------- MODULE PCI --------------------------------
(***************************************************************************)
(* PCI.cpp and PCI.h: the scan every processor makes over the buses when   *)
(* it boots (SharedMain), with the callback that paints a Bochs display    *)
(* (Graphics.cpp).  Each readField is two steps, for the address and the   *)
(* value port are one pair of registers that all processors share.         *)
(*                                                                         *)
(* Bit 31 of an address, which is always set, is left out, and the top     *)
(* byte of a 32-bit value counts as signed: both keep to TLC's integers.   *)
(***************************************************************************)
EXTENDS Integers, Sequences, FiniteSets, SequencesExt

CONSTANTS
  CPUs,
  Buses, Slots, Funcs,   \* 256, 32 and 8 in the code
  MaxDepth,              \* bound: calls of scanBus in each other
  Types,                 \* what scan is asked to look for, AnyType for all
  Machines               \* functions from <<bus, slot, func>> to a device

(* The values of fields of 8, 16 and 32 bits. *)
Byte == {v \in Nat : v <= 255}
Short == {v \in Nat : v <= 65535}
Long == {v \in Int : -2147483647 - 1 <= v /\ v <= 2147483647}

AnyType == -1
PCINull == 65535
BridgeType == 1540       \* 0x604
VendorID == 0            \* Field
DeviceID == 2
Subclass == 10
Class == 11
HeaderType == 14
Bar0 == 16
Bar2 == 24
SecondaryBus == 25
XRes == 1                \* DispiIndex
YRes == 2
BPP == 3

(* A bridge, and the bus behind it: the second byte of register 24. *)
IsBridge(d) == d.class * 256 + d.subclass = BridgeType
Behind(d) == (d.bar2 \div 256) % 256

(* The memory a register for an address of memory tells of: the lowest     *)
(* four bits are flags, 8 for prefetchable memory.                         *)
BaseOf(bar) == bar - (bar % 16)
Flagless(d) == d.bar0 % 16 = 0 /\ d.bar2 % 16 = 0

(* The fields of an address have 8, 5 and 3 bits; a host is a bus.  Only a *)
(* scan that goes round in a loop of bridges gets to MaxDepth.             *)
ASSUME SizesAssumption ==
  /\ Buses \in 1 .. 256 /\ Slots \in 1 .. 32 /\ Funcs \in 1 .. 8 /\ Funcs <= Buses
  /\ MaxDepth \in Nat /\ MaxDepth > Buses
ASSUME MachinesAssumption ==
  \A m \in Machines :
    /\ DOMAIN m \subseteq (0 .. Buses - 1) \X (0 .. Slots - 1) \X (0 .. Funcs - 1)
    /\ \A p \in DOMAIN m :
         /\ m[p].vendor \in Short \ {PCINull} /\ m[p].device \in Short
         /\ {m[p].class, m[p].subclass, m[p].header} \subseteq Byte
         /\ {m[p].bar0, m[p].bar2} \subseteq Long
         /\ IsBridge(m[p]) => Behind(m[p]) < Buses

VARIABLES
  machine,     \* what is plugged in
  port,        \* the address register behind port 0xCF8
  type,        \* each scan's parameter
  at,          \* where each processor's scan is: a key of Reads, return, done
  written,     \* whether the address of the present readField is written
  got,         \* the values read since the scan came to at
  stack,       \* the calls of scanBus it is in: bus, slot and func of each
  mode, host,  \* which of scan's three loops, and its variable func or bus
  reported,    \* the calls of the callback, in order
  painted      \* addresses of the pixels each callback stored to

vars == <<machine, port, type, at, written, got, stack, mode, host, reported,
          painted>>

-----------------------------------------------------------------------------
(* Device numbers and addresses *)

box(bus, slot, func) == bus * 65536 + slot * 256 + func
busOf(device) == (device \div 65536) % 256
slotOf(device) == (device \div 256) % 256
funcOf(device) == device % 256
addressOf(device, field) ==
  busOf(device) * 65536 + slotOf(device) * 2048 + funcOf(device) * 256
    + field - (field % 4)

(* External: the configuration space a host bridge shows at an address.    *)
Words(low, high) ==
  <<low % 256, (low \div 256) % 256, high % 256, (high \div 256) % 256>>
Registers(d, register) ==
  CASE register = 0 -> Words(d.vendor, d.device)
    [] register = 8 -> <<0, 0, d.subclass, d.class>>
    [] register = 12 -> <<0, 0, d.header, 0>>
    [] register = 16 -> Words(d.bar0, d.bar0 \div 65536)
    [] register = 24 -> Words(d.bar2, d.bar2 \div 65536)
    [] OTHER -> <<0, 0, 0, 0>>
DataPort(address) ==
  LET place == <<address \div 65536, (address \div 2048) % 32,
                 (address \div 256) % 8>>
  IN  IF place \in DOMAIN machine
      THEN Registers(machine[place], address % 256) ELSE <<255, 255, 255, 255>>

(* inb, ins, inl: size bytes of the value port from the lane of the field, *)
(* the lowest first.                                                       *)
Lane(field, size) == IF size = 1 THEN field % 4
                     ELSE IF size = 2 THEN 2 * ((field % 4) \div 2) ELSE 0
Signed(byte) == IF byte > 127 THEN byte - 256 ELSE byte
in(address, field, size) ==
  LET bytes == DataPort(address)
      low == Lane(field, size) + 1
  IN  CASE size = 1 -> bytes[low]
        [] size = 2 -> bytes[low] + 256 * bytes[low + 1]
        [] size = 4 -> bytes[1] + 256 * bytes[2] + 65536 * bytes[3]
                         + 16777216 * Signed(bytes[4])

(* The registers each part of the scan reads, in order, with their sizes. *)
Reads == [l \in {"hosts", "hostFunc", "slot", "filter", "hit", "display",
                 "bridge", "secondary", "header", "func"} |->
  CASE l \in {"hosts", "header"} -> <<<<HeaderType, 1>>>>
    [] l \in {"hostFunc", "slot", "func"} -> <<<<VendorID, 2>>>>
    [] l \in {"filter", "bridge"} -> <<<<Class, 1>>, <<Subclass, 1>>>>
    [] l = "hit" -> <<<<VendorID, 2>>, <<DeviceID, 2>>>>
    [] l = "display" -> <<<<Bar0, 4>>, <<Bar2, 4>>, <<Bar2, 4>>, <<Bar2, 4>>>>
    [] l = "secondary" -> <<<<SecondaryBus, 1>>>>]

Device(c) ==
  CASE at[c] = "hosts" -> box(0, 0, 0)
    [] at[c] = "hostFunc" -> box(0, 0, host[c])
    [] OTHER -> LET f == Last(stack[c]) IN box(f.bus, f.slot, f.func)

-----------------------------------------------------------------------------
Init ==
  /\ machine \in Machines /\ type \in [CPUs -> Types]
  /\ port = 0
  /\ at = [c \in CPUs |-> "hosts"] /\ written = [c \in CPUs |-> FALSE]
  /\ got = [c \in CPUs |-> <<>>] /\ stack = [c \in CPUs |-> <<>>]
  /\ mode = [c \in CPUs |-> "one"] /\ host = [c \in CPUs |-> 0]
  /\ reported = [c \in CPUs |-> <<>>] /\ painted = [c \in CPUs |-> {}]

Reading(c) == at[c] \in DOMAIN Reads /\ Len(got[c]) < Len(Reads[at[c]])
Read(c, l) == at[c] = l /\ Len(got[c]) = Len(Reads[l])
Field(c) == Reads[at[c]][Len(got[c]) + 1]

(* readField: the address out, then the value in. *)
WriteAddress(c) ==
  /\ Reading(c) /\ ~written[c]
  /\ port' = addressOf(Device(c), Field(c)[1])
  /\ written' = [written EXCEPT ![c] = TRUE]
  /\ UNCHANGED <<machine, type, at, got, stack, mode, host, reported, painted>>

ReadValue(c) ==
  /\ Reading(c) /\ written[c]
  /\ got' = [got EXCEPT ![c] = Append(@, in(port, Field(c)[1], Field(c)[2]))]
  /\ written' = [written EXCEPT ![c] = FALSE]
  /\ UNCHANGED <<machine, port, type, at, stack, mode, host, reported, painted>>

(* Where the nested loops go on: a label and a stack. *)
Place(l, s) == [at |-> l, stack |-> s]
At(s, slot, func) == Append(Front(s), [Last(s) EXCEPT !.slot = slot, !.func = func])
ScanBus(s, bus) == Place("slot", Append(s, [bus |-> bus, slot |-> 0, func |-> 0]))
NextSlot(s) == IF Last(s).slot + 1 < Slots
               THEN Place("slot", At(s, Last(s).slot + 1, 0))
               ELSE Place("return", Front(s))
NextFunc(s) == IF Last(s).func + 1 < Funcs
               THEN Place("func", At(s, Last(s).slot, Last(s).func + 1))
               ELSE NextSlot(s)
AfterFunc(s) == IF Last(s).func = 0 THEN Place("header", s) ELSE NextFunc(s)
ScanFunc(t) == IF t = AnyType THEN "hit" ELSE "filter"

GoTo(c, place) ==
  /\ at' = [at EXCEPT ![c] = place.at]
  /\ stack' = [stack EXCEPT ![c] = place.stack]
  /\ got' = [got EXCEPT ![c] = <<>>]
  /\ UNCHANGED <<machine, port, type, written>>
Stay(c, l) == GoTo(c, Place(l, stack[c]))
KeepHost == UNCHANGED <<mode, host>>
KeepLog == UNCHANGED <<reported, painted>>

(* scan: bit 7 of the header type tells whether there are more hosts. *)
ReadHosts(c) ==
  /\ Read(c, "hosts")
  /\ IF got[c][1] < 128 THEN GoTo(c, ScanBus(<<>>, 0)) /\ UNCHANGED mode
     ELSE Stay(c, "hostFunc") /\ mode' = [mode EXCEPT ![c] = "hosts"]
  /\ UNCHANGED host /\ KeepLog

(* Faulty: the hit is forgotten; the loop goes round without an increment. *)
Missed(h) == FALSE
SameHost == "hostFunc"

Hit(h) == h > 0
AfterHosts == "done"

(* The loop over the hosts ends with the first function that is missing;   *)
(* if that is function 0 there was no hit and every bus is scanned.        *)
ReadHostFunc(c) ==
  /\ Read(c, "hostFunc") /\ UNCHANGED host /\ KeepLog
  /\ CASE got[c][1] # PCINull -> GoTo(c, ScanBus(<<>>, host[c])) /\ UNCHANGED mode
       [] got[c][1] = PCINull /\ Hit(host[c]) -> Stay(c, AfterHosts) /\ UNCHANGED mode
       [] OTHER -> /\ GoTo(c, ScanBus(<<>>, 0))
                   /\ mode' = [mode EXCEPT ![c] = "all"]

ReadSlot(c) ==
  /\ Read(c, "slot") /\ KeepHost /\ KeepLog
  /\ IF got[c][1] = PCINull THEN GoTo(c, NextSlot(stack[c]))
     ELSE Stay(c, ScanFunc(type[c]))

findType(values, t) == values[1] * 256 + values[2] = t

ReadFilter(c) ==
  /\ Read(c, "filter") /\ KeepHost /\ KeepLog
  /\ Stay(c, IF findType(got[c], type[c]) THEN "hit" ELSE "bridge")

(* scanHit and the first part of the callback. *)
IsBochs(vid, did) == vid = 4660 /\ did = 4369        \* 0x1234, 0x1111
Report(c) ==
  /\ Read(c, "hit") /\ KeepHost /\ UNCHANGED painted
  /\ reported' = [reported EXCEPT ![c] = Append(@,
       [dev |-> Device(c), vid |-> got[c][1], did |-> got[c][2]])]
  /\ Stay(c, IF IsBochs(got[c][1], got[c][2]) THEN "display" ELSE "bridge")

(* Faulty: the index is taken for an offset. *)
addrOfByte(bar, idx) == bar + 1280 + idx

addrOf(bar, idx) == bar + 1280 + 2 * idx             \* 0x500

(* External: the registers behind the second memory range of a display. *)
Displays(address) ==
  {p \in DOMAIN machine : /\ machine[p].screen # <<>>
                          /\ BaseOf(machine[p].bar2) \in 0 .. address - 1280}
Answering(address) == machine[CHOOSE p \in Displays(address) : TRUE]
Mmio(address) ==
  LET d == Answering(address)
      idx == (address - 1280 - BaseOf(d.bar2)) \div 2
  IN  IF Displays(address) = {} THEN 65535
      ELSE IF idx \in DOMAIN d.screen THEN d.screen[idx] ELSE 0

(* The second part: the base of the framebuffer and the resolution, then   *)
(* a word for every pixel.                                                 *)
framebufferAddress(c) == got[c][1]
Paint(c) ==
  LET xres == Mmio(addrOf(got[c][2], XRes))
      yres == Mmio(addrOf(got[c][3], YRes))
  IN  /\ Read(c, "display") /\ KeepHost /\ UNCHANGED reported
      /\ painted' = [painted EXCEPT ![c] = @ \union
           {framebufferAddress(c) + 4 * (x + y * xres) :
              x \in 0 .. xres - 1, y \in 0 .. yres - 1}]
      /\ Stay(c, "bridge")

ReadBridge(c) ==
  /\ Read(c, "bridge") /\ KeepHost /\ KeepLog
  /\ IF findType(got[c], BridgeType) THEN Stay(c, "secondary")
     ELSE GoTo(c, AfterFunc(stack[c]))

ReadSecondary(c) ==
  /\ Read(c, "secondary") /\ Len(stack[c]) < MaxDepth /\ KeepHost /\ KeepLog
  /\ GoTo(c, ScanBus(stack[c], got[c][1]))

(* Faulty: bit 7, which tells of more functions, is masked away. *)
OneFunction(header) == header % 128 = 0

(* The rest of scanSlot: a header type of zero has one function. *)
SingleFunction(header) == header = 0
ReadHeader(c) ==
  /\ Read(c, "header") /\ KeepHost /\ KeepLog
  /\ GoTo(c, IF SingleFunction(got[c][1]) THEN NextSlot(stack[c])
             ELSE NextFunc(stack[c]))

ReadFunc(c) ==
  /\ Read(c, "func") /\ KeepHost /\ KeepLog
  /\ IF got[c][1] = PCINull THEN GoTo(c, NextFunc(stack[c]))
     ELSE Stay(c, ScanFunc(type[c]))

(* scanBus returns, to scanFunc or to one of the loops of scan. *)
Return(c) ==
  /\ at[c] = "return" /\ KeepLog
  /\ CASE stack[c] # <<>> -> GoTo(c, AfterFunc(stack[c])) /\ KeepHost
       [] stack[c] = <<>> /\ mode[c] = "one" -> Stay(c, "done") /\ KeepHost
       [] OTHER ->
            /\ host' = [host EXCEPT ![c] = @ + 1] /\ UNCHANGED mode
            /\ GoTo(c, CASE mode[c] = "hosts" /\ host'[c] < Funcs ->
                              Place("hostFunc", <<>>)
                         [] mode[c] = "all" /\ host'[c] < Buses ->
                              ScanBus(<<>>, host'[c])
                         [] OTHER -> Place("done", <<>>))

Step(c) ==
  \/ WriteAddress(c) \/ ReadValue(c) \/ ReadHosts(c) \/ ReadHostFunc(c)
  \/ ReadSlot(c) \/ ReadFilter(c) \/ Report(c) \/ Paint(c) \/ ReadBridge(c)
  \/ ReadSecondary(c) \/ ReadHeader(c) \/ ReadFunc(c) \/ Return(c)

Next == \E c \in CPUs : Step(c)
Spec == Init /\ [][Next]_vars
FairSpec == Spec /\ \A c \in CPUs : WF_vars(Step(c))

-----------------------------------------------------------------------------
(* What a scan should find: the functions of the buses that can be reached *)
(* from the hosts over bridges, a reference that knows no order.           *)
Visible(m, p) ==
  /\ p \in DOMAIN m
  /\ p[3] = 0 \/ (<<p[1], p[2], 0>> \in DOMAIN m /\ m[<<p[1], p[2], 0>>].header # 0)
Roots(m) ==
  IF <<0, 0, 0>> \notin DOMAIN m THEN 0 .. Buses - 1
  ELSE IF m[<<0, 0, 0>>].header < 128 THEN {0}
  ELSE {f \in 0 .. Funcs - 1 : \A g \in 0 .. f : <<0, 0, g>> \in DOMAIN m}
Closed(m, S) ==
  /\ Roots(m) \subseteq S
  /\ \A p \in DOMAIN m :
       p[1] \in S /\ Visible(m, p) /\ IsBridge(m[p]) => Behind(m[p]) \in S
Reached(m) == {b \in 0 .. Buses - 1 : \A S \in SUBSET (0 .. Buses - 1) :
                                        Closed(m, S) => b \in S}
Wanted(m, t) ==
  {[dev |-> box(p[1], p[2], p[3]), vid |-> m[p].vendor, did |-> m[p].device] :
     p \in {q \in DOMAIN m : /\ q[1] \in Reached(m) /\ Visible(m, q)
                             /\ t \in {AnyType, m[q].class * 256 + m[q].subclass}}}

(* No bus has two parents. *)
Tree(m) ==
  \A p \in DOMAIN m : IsBridge(m[p]) =>
    /\ Behind(m[p]) \notin Roots(m)
    /\ \A q \in DOMAIN m \ {p} : ~(IsBridge(m[q]) /\ Behind(m[q]) = Behind(m[p]))

(* A scan that has come to its end has called back for every function that *)
(* can be reached and matches, with its own vendor and device, and for no  *)
(* other, however bridges, hosts and functions nest (scan, scanBus,        *)
(* scanSlot, scanFunc, findType).                                          *)
ScanComplete ==
  \A c \in CPUs : at[c] = "done" => ToSet(reported[c]) = Wanted(machine, type[c])

(* If no bus has two parents, no function is called back for twice         *)
(* (scanFunc, Return of scanBus): the display is painted once.             *)
ReportedOnce ==
  Tree(machine) => \A c \in CPUs : IsInjective(reported[c])

(* The picture has exactly one word for each pixel of the screen, from the *)
(* first of the memory behind the display's first address register on, if  *)
(* that register and the one of the resolution have no flag bits set: the  *)
(* code does not mask them (addrOf, BochsDisplayDevice::read, the loops of *)
(* SharedMain).                                                            *)
PictureWhole ==
  \A c \in CPUs : \A p \in DOMAIN machine :
    LET d == machine[p]
    IN  (d.screen # <<>> /\ Flagless(d) /\ at[c] = "done" /\ type[c] = AnyType
           /\ p[1] \in Reached(machine) /\ Visible(machine, p)) =>
          painted[c] = {BaseOf(d.bar0) + 4 * i :
                          i \in 0 .. d.screen[XRes] * d.screen[YRes] - 1}

(* Among any buses that are scanned is one from which no bridge leads back *)
(* to one of them.                                                         *)
Loopless(m) ==
  \A S \in SUBSET Reached(m) \ {{}} : \E b \in S : \A p \in DOMAIN m :
    p[1] = b /\ Visible(m, p) /\ IsBridge(m[p]) => Behind(m[p]) \notin S

(* The scan of a machine whose bridges lead in no circle ends, however     *)
(* they nest and whatever hosts there are (the recursion of scanFunc into  *)
(* scanBus, the loops of scan).  In a circle it never does.                *)
ScanEnds == Loopless(machine) => <>(\A c \in CPUs : at[c] = "done")

(* KernelMain.cpp logs "That's a qemu!": only about a Bochs display. *)
QemuIsDisplay ==
  \A c \in CPUs : \A i \in DOMAIN reported[c] :
    LET r == reported[c][i]
        p == <<busOf(r.dev), slotOf(r.dev), funcOf(r.dev)>>
    IN  IsBochs(r.vid, r.did) =>
          p \in DOMAIN machine /\ IsBochs(machine[p].vendor, machine[p].device)
=============================================================================

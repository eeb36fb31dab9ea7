----------------------------- MODULE PCIProofs -----------------------------
(***************************************************************************)
(* The scan of one processor alone, on any machine.                        *)
(***************************************************************************)
EXTENDS PCI, SequenceTheorems, TLAPS

Labels == DOMAIN Reads \union {"return", "done"}
Frame == [bus : 0 .. Buses - 1, slot : 0 .. Slots - 1, func : 0 .. Funcs - 1]
Entry(m, p) == [dev |-> box(p[1], p[2], p[3]), vid |-> m[p].vendor, did |-> m[p].device]

(* The function a call of scanBus is at, and those it has gone past. *)
Here(f) == <<f.bus, f.slot, f.func>>
Before(p, f) ==
  p[1] = f.bus /\ (p[2] < f.slot \/ (p[2] = f.slot /\ p[3] < f.func))

(* What scanFunc has to do about a function: call back if it matches, and  *)
(* have the bus behind it scanned.  R are the calls of the callback so far *)
(* and F the buses that are finished.                                      *)
Matches(m, t, p) == t \in {AnyType, m[p].class * 256 + m[p].subclass}
Told(m, t, R, p) == Visible(m, p) /\ Matches(m, t, p) => Entry(m, p) \in R
Handled(m, t, R, F, p) ==
  /\ Told(m, t, R, p)
  /\ Visible(m, p) /\ IsBridge(m[p]) => Behind(m[p]) \in F

Several(m, f) ==
  <<f.bus, f.slot, 0>> \in DOMAIN m /\ m[<<f.bus, f.slot, 0>>].header # 0
Finished(m, t, R, F) ==
  /\ F \subseteq Reached(m)
  /\ \A p \in DOMAIN m : p[1] \in F => Handled(m, t, R, F, p)
FrameInv(m, t, R, F, f) ==
  /\ f.bus \in Reached(m)
  /\ f.func > 0 => Several(m, f)
  /\ \A p \in DOMAIN m : Before(p, f) => Handled(m, t, R, F, p)
Nesting(m, t, R, f, g) ==
  /\ Visible(m, Here(f)) /\ IsBridge(m[Here(f)]) /\ Behind(m[Here(f)]) = g.bus
  /\ Told(m, t, R, Here(f))
StackInv(m, t, R, F, s) ==
  /\ s \in Seq(Frame)
  /\ \A k \in 1 .. Len(s) : FrameInv(m, t, R, F, s[k])
  /\ \A k \in 1 .. Len(s) - 1 : Nesting(m, t, R, s[k], s[k + 1])

(* The part of scanSlot and scanFunc the innermost call is in. *)
Innermost == {"slot", "filter", "hit", "display", "bridge", "secondary", "header", "func"}
PlaceInv(m, t, R, F, l, f) ==
  /\ l \in {"slot", "header"} => f.func = 0
  /\ l = "func" => f.func > 0
  /\ l \in {"filter", "hit", "display", "bridge", "secondary", "header", "return"} =>
       Visible(m, Here(f))
  /\ l = "filter" => t # AnyType
  /\ l = "hit" => Matches(m, t, Here(f))
  /\ l = "display" => IsBochs(m[Here(f)].vendor, m[Here(f)].device)
  /\ l \in {"display", "bridge", "secondary"} => Told(m, t, R, Here(f))
  /\ l = "secondary" => IsBridge(m[Here(f)])
  /\ l \in {"header", "return"} => Handled(m, t, R, F, Here(f))

(* The loops of scan. *)
HostChain(m) == {f \in 0 .. Funcs - 1 : \A g \in 0 .. f : <<0, 0, g>> \in DOMAIN m}
HostInv(m, F, l, s, md, h) ==
  /\ h \in Nat /\ \A r \in 0 .. h - 1 : r \in F
  /\ md \in {"one", "hosts", "all"}
  /\ l \in Innermost => s # <<>>
  /\ l \in {"hosts", "hostFunc", "done"} => s = <<>>
  /\ s # <<>> => s[1].bus = h
  /\ l \notin {"hosts", "hostFunc", "done"} => h \in Roots(m)
  /\ l = "return" /\ s = <<>> => h \in F
  /\ l = "hosts" => md = "one"
  /\ l = "hostFunc" =>
       md = "hosts" /\ h < Funcs /\ \A g \in 0 .. h - 1 : <<0, 0, g>> \in DOMAIN m
  /\ l = "done" => Roots(m) \subseteq F
  /\ md = "one" => h = 0 /\ (l # "hosts" => Roots(m) = {0})
  /\ md = "hosts" => \/ Roots(m) = HostChain(m)
                     \/ l = "hostFunc" /\ h = 0 /\ <<0, 0, 0>> \notin DOMAIN m
  /\ md = "all" => Roots(m) = 0 .. Buses - 1

ScanInv(m, t, R, F, l, s, md, h) ==
  /\ Finished(m, t, R, F) /\ StackInv(m, t, R, F, s)
  /\ s # <<>> => PlaceInv(m, t, R, F, l, Last(s))
  /\ HostInv(m, F, l, s, md, h)
  /\ R \subseteq Wanted(m, t)

(* Where the scan has gone past a function; the innermost call also past   *)
(* its present one if it is at one of the labels L.                        *)
Past(F, l, s, L, p) ==
  \/ p[1] \in F
  \/ \E k \in 1 .. Len(s) : Before(p, s[k]) \/ (p = Here(s[k]) /\ (k < Len(s) \/ l \in L))
Afterwards == {"display", "bridge", "secondary", "header", "return"}
Returned == {"header", "return"}

(* Why a bus is being scanned or has been. *)
Reason(m, F, l, s, h, b) ==
  \/ b \in Roots(m) /\ b <= h /\ (l \in {"hosts", "hostFunc"} => b < h)
  \/ \E q \in DOMAIN m : /\ IsBridge(m[q]) /\ Behind(m[q]) = b
                         /\ Past(F, l, s, Returned, q)
OnceInv(m, rep, F, l, s, h) ==
  /\ IsInjective(rep)
  /\ \A i \in DOMAIN rep : \E p \in DOMAIN m :
       rep[i].dev = box(p[1], p[2], p[3]) /\ Past(F, l, s, Afterwards, p)
  /\ \A j, k \in 1 .. Len(s) : s[j].bus = s[k].bus => j = k
  /\ \A k \in 1 .. Len(s) : s[k].bus \notin F /\ Reason(m, F, l, s, h, s[k].bus)
  /\ \A b \in F : Reason(m, F, l, s, h, b)

(* One Bochs display, and only it has a screen, of whole pixels. *)
OneDisplay(m) ==
  /\ \A p, q \in DOMAIN m : m[p].screen # <<>> /\ m[q].screen # <<>> => p = q
  /\ \A p \in DOMAIN m :
       /\ IsBochs(m[p].vendor, m[p].device) <=> m[p].screen # <<>>
       /\ m[p].screen # <<>> => /\ m[p].bar2 \in Nat /\ DOMAIN m[p].screen = {XRes, YRes, BPP}
                                /\ m[p].screen[XRes] \in Nat /\ m[p].screen[YRes] \in Nat
Picture(d) == {d.bar0 + 4 * i : i \in 0 .. d.screen[XRes] * d.screen[YRes] - 1}
PaintInv(m, R, l, pt) ==
  \A p \in DOMAIN m : m[p].screen # <<>> /\ Flagless(m[p]) =>
    /\ pt \subseteq Picture(m[p])
    /\ Entry(m, p) \in R /\ l # "display" => pt = Picture(m[p])

Answer(c, r) == in(addressOf(Device(c), r[1]), r[1], r[2])

(* Without another processor, each read is of the register asked for. *)
ReadInv(c) ==
  /\ at[c] \in DOMAIN Reads =>
       /\ Len(got[c]) <= Len(Reads[at[c]])
       /\ \A i \in 1 .. Len(got[c]) : got[c][i] = Answer(c, Reads[at[c]][i])
  /\ written[c] => Reading(c) /\ port = addressOf(Device(c), Field(c)[1])

(* Everything but the reads: m is the machine, t the parameter, rep the    *)
(* callbacks, pt the pixels, and l, s, md, h are at, stack, mode and host. *)
LoopInv(m, t, rep, F, l, s, md, h, pt) ==
  /\ ScanInv(m, t, ToSet(rep), F, l, s, md, h)
  /\ Tree(m) => OnceInv(m, rep, F, l, s, h)
  /\ OneDisplay(m) => PaintInv(m, ToSet(rep), l, pt)
AllInv(c) ==
  /\ \E F \in SUBSET (0 .. Buses - 1) :
       LoopInv(machine, type[c], reported[c], F, at[c], stack[c], mode[c], host[c],
               painted[c])
  /\ ReadInv(c)

(* The variables are functions on the one processor. *)
Typed(c) ==
  /\ machine \in Machines /\ CPUs = {c}
  /\ c \in DOMAIN at /\ c \in DOMAIN written /\ c \in DOMAIN got /\ c \in DOMAIN stack
  /\ c \in DOMAIN mode /\ c \in DOMAIN host /\ c \in DOMAIN reported
  /\ c \in DOMAIN painted
  /\ \E V : got[c] \in Seq(V)
  /\ \E V : reported[c] \in Seq(V)
-----------------------------------------------------------------------------
(* Addresses and registers *)

Place3 == (0 .. Buses - 1) \X (0 .. Slots - 1) \X (0 .. Funcs - 1)

(* A device number holds its three parts. *)
LEMMA Unbox ==
  ASSUME NEW b \in Nat, b < 256, NEW s \in Nat, s < 32, NEW f \in Nat, f < 8
  PROVE  /\ busOf(box(b, s, f)) = b /\ slotOf(box(b, s, f)) = s
         /\ funcOf(box(b, s, f)) = f
BY SMT DEF box, busOf, slotOf, funcOf

(* The host bridge finds in an address what the kernel put there. *)
LEMMA Decoded ==
  ASSUME NEW b \in Nat, b < 256, NEW s \in Nat, s < 32, NEW f \in Nat, f < 8,
         NEW k \in {0, 2, 10, 11, 14, 16, 24, 25},
         NEW a, a = addressOf(box(b, s, f), k)
  PROVE  /\ a \div 65536 = b /\ (a \div 2048) % 32 = s /\ (a \div 256) % 8 = f
         /\ a % 256 = k - (k % 4)
<1>0. /\ busOf(box(b, s, f)) = b /\ slotOf(box(b, s, f)) = s
      /\ funcOf(box(b, s, f)) = f
  BY Unbox
<1>1. a = b * 65536 + s * 2048 + f * 256 + (k - (k % 4))
  <2>1. a = b * 65536 + s * 2048 + f * 256 + k - (k % 4)
    BY <1>0 DEF addressOf
  <2> QED
    BY <2>1, SMT
<1>2. PICK r \in Nat : r = k - (k % 4) /\ r < 256
  OBVIOUS
<1>3. a = b * 65536 + s * 2048 + f * 256 + r
  BY <1>1, <1>2, SMT
<1>4. a \div 65536 = b
  BY <1>2, <1>3, SMT
<1>5. (a \div 2048) % 32 = s
  <2>1. a \div 2048 = b * 32 + s
    BY <1>2, <1>3, SMT
  <2> QED
    BY <2>1, SMT
<1>6. (a \div 256) % 8 = f
  <2>1. a \div 256 = (b * 32 + s) * 8 + f
    BY <1>2, <1>3, SMT
  <2> QED
    BY <2>1, SMT
<1>7. a % 256 = r
  <2>1. a = ((b * 32 + s) * 8 + f) * 256 + r
    BY <1>2, <1>3, SMT
  <2> QED
    BY <1>2, <2>1, SMT
<1> QED
  BY <1>2, <1>4, <1>5, <1>6, <1>7, SMT

(* Four bytes make the number they are taken from. *)
LEMMA Recombined ==
  ASSUME NEW v \in Long
  PROVE  v = (v % 256) + 256 * ((v \div 256) % 256)
               + 65536 * ((v \div 65536) % 256)
               + 16777216 * Signed(((v \div 65536) \div 256) % 256)
<1> DEFINE a == v % 256  b == (v \div 256) % 256
           w == v \div 65536
           d == w % 256   e == w \div 256
<1>1. v \in Int /\ -2147483647 - 1 <= v /\ v <= 2147483647
  BY SMT DEF Long
<1>2. v = a + 256 * b + 65536 * w
  BY <1>1, SMT
<1>3. w = d + 256 * e /\ -32768 <= w /\ w <= 32767 /\ e \in Int
  BY <1>1, SMT DEF Long
<1>4. -128 <= e /\ e <= 127
  BY <1>1, <1>3, SMT
<1>5. Signed(e % 256) = e
  BY <1>3, <1>4, SMT DEF Signed
<1>6. a \in Int /\ b \in Int /\ d \in Int /\ w \in Int
  BY <1>1, SMT
<1>7. v = a + 256 * b + 65536 * d + 16777216 * Signed(e % 256)
  <2> HIDE DEF a, b, d, e, w
  <2>1. 65536 * w = 65536 * d + 16777216 * e
    BY <1>3, <1>6, SMT
  <2> QED
    BY <1>2, <1>3, <1>5, <1>6, <2>1, SMT
<1> QED
  BY <1>7

(* What the value port shows after an address of readField. *)
LEMMA PortShows ==
  ASSUME NEW p \in Place3, NEW k \in {0, 2, 10, 11, 14, 16, 24, 25}
  PROVE  DataPort(addressOf(box(p[1], p[2], p[3]), k)) =
           IF p \in DOMAIN machine THEN Registers(machine[p], k - (k % 4))
           ELSE <<255, 255, 255, 255>>
<1>1. /\ p = <<p[1], p[2], p[3]>>
      /\ p[1] \in Nat /\ p[1] < 256 /\ p[2] \in Nat /\ p[2] < 32
      /\ p[3] \in Nat /\ p[3] < 8
  BY SizesAssumption DEF Place3
<1>2. PICK a : a = addressOf(box(p[1], p[2], p[3]), k)
  OBVIOUS
<1>3. /\ a \div 65536 = p[1] /\ (a \div 2048) % 32 = p[2]
      /\ (a \div 256) % 8 = p[3] /\ a % 256 = k - (k % 4)
  BY <1>1, <1>2, Decoded, SMT
<1>4. DataPort(a) = IF p \in DOMAIN machine THEN Registers(machine[p], k - (k % 4))
                    ELSE <<255, 255, 255, 255>>
  BY <1>1, <1>3, SMT DEF DataPort
<1> QED
  BY <1>2, <1>4

ValueOf(p, k, size) == in(addressOf(box(p[1], p[2], p[3]), k), k, size)

(* Each readField of the scan returns the field of the device. *)
LEMMA ValuesRead ==
  ASSUME machine \in Machines, NEW p \in DOMAIN machine
  PROVE  /\ ValueOf(p, VendorID, 2) = machine[p].vendor
         /\ ValueOf(p, DeviceID, 2) = machine[p].device
         /\ ValueOf(p, Class, 1) = machine[p].class
         /\ ValueOf(p, Subclass, 1) = machine[p].subclass
         /\ ValueOf(p, HeaderType, 1) = machine[p].header
         /\ ValueOf(p, Bar0, 4) = machine[p].bar0
         /\ ValueOf(p, Bar2, 4) = machine[p].bar2
         /\ ValueOf(p, SecondaryBus, 1) = Behind(machine[p])
<1>1. p \in Place3
  BY MachinesAssumption DEF Place3
<1> DEFINE d == machine[p]
<1>2. d.vendor \in Short /\ d.device \in Short /\ d.bar0 \in Long /\ d.bar2 \in Long
  BY MachinesAssumption
<1> DEFINE D(k) == DataPort(addressOf(box(p[1], p[2], p[3]), k))
<1>3. /\ D(0) = Registers(d, 0) /\ D(2) = Registers(d, 0) /\ D(10) = Registers(d, 8)
      /\ D(11) = Registers(d, 8) /\ D(14) = Registers(d, 12)
      /\ D(16) = Registers(d, 16) /\ D(24) = Registers(d, 24)
      /\ D(25) = Registers(d, 24)
  <2>1. \A k \in {0, 2, 10, 11, 14, 16, 24, 25} : D(k) = Registers(d, k - (k % 4))
    BY <1>1, PortShows
  <2> HIDE DEF D
  <2>2. D(0) = Registers(d, 0 - (0 % 4)) /\ 0 - (0 % 4) = 0
    BY <2>1, SMT
  <2>3. D(2) = Registers(d, 2 - (2 % 4)) /\ 2 - (2 % 4) = 0
    BY <2>1, SMT
  <2>4. D(10) = Registers(d, 10 - (10 % 4)) /\ 10 - (10 % 4) = 8
    BY <2>1, SMT
  <2>5. D(11) = Registers(d, 11 - (11 % 4)) /\ 11 - (11 % 4) = 8
    BY <2>1, SMT
  <2>6. D(14) = Registers(d, 14 - (14 % 4)) /\ 14 - (14 % 4) = 12
    BY <2>1, SMT
  <2>7. D(16) = Registers(d, 16 - (16 % 4)) /\ 16 - (16 % 4) = 16
    BY <2>1, SMT
  <2>8. D(24) = Registers(d, 24 - (24 % 4)) /\ 24 - (24 % 4) = 24
    BY <2>1, SMT
  <2>9. D(25) = Registers(d, 25 - (25 % 4)) /\ 25 - (25 % 4) = 24
    BY <2>1, SMT
  <2> QED
    BY <2>2, <2>3, <2>4, <2>5, <2>6, <2>7, <2>8, <2>9, SMT
<1>4. /\ Registers(d, 0) = Words(d.vendor, d.device)
      /\ Registers(d, 8) = <<0, 0, d.subclass, d.class>>
      /\ Registers(d, 12) = <<0, 0, d.header, 0>>
      /\ Registers(d, 16) = Words(d.bar0, d.bar0 \div 65536)
      /\ Registers(d, 24) = Words(d.bar2, d.bar2 \div 65536)
  BY SMT DEF Registers
<1>5. ASSUME NEW k, NEW n PROVE ValueOf(p, k, n) =
        LET low == Lane(k, n) + 1
        IN  CASE n = 1 -> D(k)[low]
              [] n = 2 -> D(k)[low] + 256 * D(k)[low + 1]
              [] n = 4 -> D(k)[1] + 256 * D(k)[2] + 65536 * D(k)[3]
                            + 16777216 * Signed(D(k)[4])
  BY SMT DEF ValueOf, in
<1> HIDE DEF D
<1>6. \A k : /\ ValueOf(p, k, 1) = D(k)[(k % 4) + 1]
             /\ ValueOf(p, k, 2) = D(k)[2 * ((k % 4) \div 2) + 1]
                                     + 256 * D(k)[2 * ((k % 4) \div 2) + 1 + 1]
             /\ ValueOf(p, k, 4) = D(k)[1] + 256 * D(k)[2] + 65536 * D(k)[3]
                                     + 16777216 * Signed(D(k)[4])
  BY <1>5, SMT DEF Lane
<1>7. \A v \in Short : v = (v % 256) + 256 * ((v \div 256) % 256)
  BY SMT DEF Short
<1> USE DEF VendorID, DeviceID, Class, Subclass, HeaderType, Bar0, Bar2, SecondaryBus
<1> HIDE DEF d
<1>8. ValueOf(p, VendorID, 2) = d.vendor
  <2>1. ValueOf(p, 0, 2) = D(0)[1] + 256 * D(0)[2]
    BY <1>6, SMT
  <2>2. /\ D(0) = Words(d.vendor, d.device)
        /\ Words(d.vendor, d.device)[1] = d.vendor % 256
        /\ Words(d.vendor, d.device)[2] = (d.vendor \div 256) % 256
    BY <1>3, <1>4 DEF Words
  <2> QED
    BY <1>2, <1>7, <2>1, <2>2
<1>9. ValueOf(p, DeviceID, 2) = d.device
  <2>1. ValueOf(p, 2, 2) = D(2)[3] + 256 * D(2)[4]
    BY <1>6, SMT
  <2>2. /\ D(2) = Words(d.vendor, d.device)
        /\ Words(d.vendor, d.device)[3] = d.device % 256
        /\ Words(d.vendor, d.device)[4] = (d.device \div 256) % 256
    BY <1>3, <1>4 DEF Words
  <2> QED
    BY <1>2, <1>7, <2>1, <2>2
<1>10. ValueOf(p, Class, 1) = d.class
  <2>1. ValueOf(p, 11, 1) = D(11)[4]
    BY <1>6, SMT
  <2> QED
    BY <1>3, <1>4, <2>1
<1>11. ValueOf(p, Subclass, 1) = d.subclass
  <2>1. ValueOf(p, 10, 1) = D(10)[3]
    BY <1>6, SMT
  <2> QED
    BY <1>3, <1>4, <2>1
<1>12. ValueOf(p, HeaderType, 1) = d.header
  <2>1. ValueOf(p, 14, 1) = D(14)[3]
    BY <1>6, SMT
  <2> QED
    BY <1>3, <1>4, <2>1
<1>13. ValueOf(p, Bar0, 4) = d.bar0
  <2>1. ValueOf(p, 16, 4) = D(16)[1] + 256 * D(16)[2] + 65536 * D(16)[3]
                              + 16777216 * Signed(D(16)[4])
    BY <1>6, SMT
  <2>2. /\ D(16)[1] = d.bar0 % 256 /\ D(16)[2] = (d.bar0 \div 256) % 256
        /\ D(16)[3] = (d.bar0 \div 65536) % 256
        /\ D(16)[4] = ((d.bar0 \div 65536) \div 256) % 256
    <3>1. PICK w : w = d.bar0 \div 65536
      OBVIOUS
    <3>2. D(16) = Words(d.bar0, w)
      BY <1>3, <1>4, <3>1, SMT
    <3>3. /\ D(16)[1] = d.bar0 % 256 /\ D(16)[2] = (d.bar0 \div 256) % 256
          /\ D(16)[3] = w % 256 /\ D(16)[4] = (w \div 256) % 256
      BY <3>2 DEF Words
    <3> QED
      BY <3>1, <3>3, SMT
  <2>3. d.bar0 = (d.bar0 % 256) + 256 * ((d.bar0 \div 256) % 256)
                 + 65536 * ((d.bar0 \div 65536) % 256)
                 + 16777216 * Signed(((d.bar0 \div 65536) \div 256) % 256)
    BY <1>2, Recombined, SMT
  <2> QED
    BY <2>1, <2>2, <2>3, SMT
<1>14. ValueOf(p, Bar2, 4) = d.bar2
  <2>1. ValueOf(p, 24, 4) = D(24)[1] + 256 * D(24)[2] + 65536 * D(24)[3]
                              + 16777216 * Signed(D(24)[4])
    BY <1>6, SMT
  <2>2. /\ D(24)[1] = d.bar2 % 256 /\ D(24)[2] = (d.bar2 \div 256) % 256
        /\ D(24)[3] = (d.bar2 \div 65536) % 256
        /\ D(24)[4] = ((d.bar2 \div 65536) \div 256) % 256
    <3>1. PICK w : w = d.bar2 \div 65536
      OBVIOUS
    <3>2. D(24) = Words(d.bar2, w)
      BY <1>3, <1>4, <3>1, SMT
    <3>3. /\ D(24)[1] = d.bar2 % 256 /\ D(24)[2] = (d.bar2 \div 256) % 256
          /\ D(24)[3] = w % 256 /\ D(24)[4] = (w \div 256) % 256
      BY <3>2 DEF Words
    <3> QED
      BY <3>1, <3>3, SMT
  <2>3. d.bar2 = (d.bar2 % 256) + 256 * ((d.bar2 \div 256) % 256)
                 + 65536 * ((d.bar2 \div 65536) % 256)
                 + 16777216 * Signed(((d.bar2 \div 65536) \div 256) % 256)
    BY <1>2, Recombined, SMT
  <2> QED
    BY <2>1, <2>2, <2>3, SMT
<1>15. ValueOf(p, SecondaryBus, 1) = Behind(d)
  <2>1. ValueOf(p, 25, 1) = D(25)[2]
    BY <1>6, SMT
  <2>2. D(25)[2] = (d.bar2 \div 256) % 256
    <3>1. PICK w : w = d.bar2 \div 65536
      OBVIOUS
    <3>2. D(25) = Words(d.bar2, w)
      BY <1>3, <1>4, <3>1, SMT
    <3> QED
      BY <3>2 DEF Words
  <2> QED
    BY <2>1, <2>2 DEF Behind
<1> QED
  BY <1>8, <1>9, <1>10, <1>11, <1>12, <1>13, <1>14, <1>15 DEF d

(* Where there is no device every bit is set. *)
LEMMA AbsentRead ==
  ASSUME NEW p \in Place3, p \notin DOMAIN machine
  PROVE  ValueOf(p, VendorID, 2) = PCINull /\ ValueOf(p, HeaderType, 1) = 255
<1>1. /\ DataPort(addressOf(box(p[1], p[2], p[3]), 0)) = <<255, 255, 255, 255>>
      /\ DataPort(addressOf(box(p[1], p[2], p[3]), 14)) = <<255, 255, 255, 255>>
  BY PortShows
<1> QED
  BY <1>1, SMT DEF ValueOf, in, Lane, VendorID, HeaderType, PCINull

-----------------------------------------------------------------------------
(* Stacks *)

(* The stack without its top. *)
LEMMA Popped ==
  ASSUME NEW s \in Seq(Frame), s # <<>>
  PROVE  /\ Front(s) \in Seq(Frame) /\ Len(Front(s)) = Len(s) - 1 /\ Len(s) > 0
         /\ \A k \in 1 .. Len(s) - 1 : Front(s)[k] = s[k]
         /\ Last(s) = s[Len(s)] /\ Last(s) \in Frame
<1>1. Len(s) \in Nat /\ Len(s) > 0
  OBVIOUS
<1>2. Len(s) \in 1 .. Len(s)
  BY <1>1
<1>3. s[Len(s)] \in Frame
  BY <1>2
<1>4. /\ SubSeq(s, 1, Len(s) - 1) \in Seq(Frame)
      /\ Len(SubSeq(s, 1, Len(s) - 1)) = Len(s) - 1
      /\ \A k \in 1 .. Len(s) - 1 : SubSeq(s, 1, Len(s) - 1)[k] = s[k]
  <2>1. PICK n \in Nat : n = Len(s) - 1
    BY <1>1
  <2>2. \A i \in 1 .. n : s[i] \in Frame
    BY <2>1
  <2>3. /\ SubSeq(s, 1, n) \in Seq(Frame)
        /\ Len(SubSeq(s, 1, n)) = IF 1 <= n THEN n - 1 + 1 ELSE 0
        /\ \A i \in 1 .. n - 1 + 1 : SubSeq(s, 1, n)[i] = s[1 + i - 1]
    BY <2>2, SubSeqProperties
  <2>4. n - 1 + 1 = n /\ (~(1 <= n) => n = 0) /\ \A i \in 1 .. n : 1 + i - 1 = i
    OBVIOUS
  <2> QED
    BY <2>1, <2>3, <2>4
<1> QED
  BY <1>1, <1>3, <1>4 DEF Front, Last

(* The stack with one more frame. *)
LEMMA Pushed ==
  ASSUME NEW s \in Seq(Frame), NEW f \in Frame
  PROVE  /\ Append(s, f) \in Seq(Frame) /\ Len(Append(s, f)) = Len(s) + 1
         /\ \A k \in 1 .. Len(s) : Append(s, f)[k] = s[k]
         /\ Append(s, f)[Len(s) + 1] = f /\ Last(Append(s, f)) = f
         /\ Append(s, f) # <<>>
BY DEF Last

(* The stack whose innermost call has gone on to another function. *)
LEMMA Moved ==
  ASSUME NEW s \in Seq(Frame), s # <<>>,
         NEW i \in 0 .. Slots - 1, NEW j \in 0 .. Funcs - 1
  PROVE  LET s2 == At(s, i, j)
         IN  /\ s2 \in Seq(Frame) /\ Len(s2) = Len(s) /\ s2 # <<>>
             /\ \A k \in 1 .. Len(s) - 1 : s2[k] = s[k]
             /\ Last(s2) = [bus |-> Last(s).bus, slot |-> i, func |-> j]
             /\ s2[Len(s)] = Last(s2)
<1>1. PICK f \in Frame : f = [Last(s) EXCEPT !.slot = i, !.func = j]
  BY Popped DEF Frame
<1>2. f = [bus |-> Last(s).bus, slot |-> i, func |-> j]
  BY <1>1, Popped DEF Frame
<1>3. At(s, i, j) = Append(Front(s), f)
  BY <1>1 DEF At
<1>4. PICK r \in Seq(Frame) : r = Front(s)
  BY Popped
<1>5. Len(r) = Len(s) - 1 /\ \A k \in 1 .. Len(s) - 1 : r[k] = s[k]
  BY <1>4, Popped
<1>6. /\ Append(r, f) \in Seq(Frame) /\ Len(Append(r, f)) = Len(r) + 1
      /\ \A k \in 1 .. Len(r) : Append(r, f)[k] = r[k]
      /\ Append(r, f)[Len(r) + 1] = f /\ Last(Append(r, f)) = f
      /\ Append(r, f) # <<>>
  BY Pushed
<1>7. Len(s) - 1 + 1 = Len(s)
  OBVIOUS
<1> QED
  BY <1>2, <1>3, <1>4, <1>5, <1>6, <1>7

(* What is done stays done when more is. *)
LEMMA StaysHandled ==
  ASSUME NEW m, NEW t, NEW R, NEW F, NEW R2, R \subseteq R2, NEW F2, F \subseteq F2, NEW p
  PROVE  /\ Told(m, t, R, p) => Told(m, t, R2, p)
         /\ Handled(m, t, R, F, p) => Handled(m, t, R2, F2, p)
BY DEF Told, Handled

(* Places are made of numbers. *)
LEMMA PlaceNumbers ==
  ASSUME NEW m \in Machines, NEW p \in DOMAIN m
  PROVE  /\ p = <<p[1], p[2], p[3]>>
         /\ p[1] \in 0 .. Buses - 1 /\ p[2] \in 0 .. Slots - 1 /\ p[3] \in 0 .. Funcs - 1
         /\ p[1] \in Nat /\ p[2] \in Nat /\ p[3] \in Nat
<1>1. p \in (0 .. Buses - 1) \X (0 .. Slots - 1) \X (0 .. Funcs - 1)
  BY MachinesAssumption
<1> QED
  BY <1>1, SizesAssumption

(* And they fit their fields of an address. *)
LEMMA PlaceBounds ==
  ASSUME NEW m \in Machines, NEW p \in DOMAIN m
  PROVE  /\ p = <<p[1], p[2], p[3]>> /\ p[1] \in Nat /\ p[1] < 256 /\ p[2] \in Nat
         /\ p[2] < 32 /\ p[3] \in Nat /\ p[3] < 8
<1>1. p \in Place3
  BY MachinesAssumption DEF Place3
<1> QED
  BY <1>1, SizesAssumption DEF Place3

(* A frame of the stack does not mind more callbacks and finished buses. *)
LEMMA StaysFrame ==
  ASSUME NEW m, NEW t, NEW R, NEW F, NEW R2, R \subseteq R2, NEW F2, F \subseteq F2, NEW f,
         FrameInv(m, t, R, F, f)
  PROVE  FrameInv(m, t, R2, F2, f)
BY StaysHandled DEF FrameInv

(* Nor does the nesting of two. *)
LEMMA StaysNested ==
  ASSUME NEW m, NEW t, NEW R, NEW R2, R \subseteq R2, NEW f, NEW g,
         Nesting(m, t, R, f, g)
  PROVE  Nesting(m, t, R2, f, g)
<1>1. {} \subseteq {}
  OBVIOUS
<1> QED
  BY <1>1, StaysHandled DEF Nesting

LoopLabels == Labels \ {"hosts", "hostFunc", "done"}

(* The finished buses when the innermost call goes on to a place. *)
GrownBy(F, s, q) == IF q.at = "return" THEN F \union {Last(s).bus} ELSE F

(* The loops of scan do not see how the stack moves on. *)
LEMMA HostsKeep ==
  ASSUME NEW m, NEW F, NEW l \in LoopLabels, NEW s, NEW md, NEW h, s # <<>>,
         HostInv(m, F, l, s, md, h), NEW l2 \in LoopLabels, NEW s2, s2 # <<>>,
         s2[1].bus = s[1].bus, NEW F2, F \subseteq F2
  PROVE  HostInv(m, F2, l2, s2, md, h)
BY DEF HostInv, LoopLabels

(* The innermost call moves on in the loops over slots and functions. *)
LEMMA MovedOn ==
  ASSUME NEW m \in Machines, NEW t, NEW R, NEW F, NEW l \in LoopLabels, NEW s, NEW md, NEW h,
         Finished(m, t, R, F), StackInv(m, t, R, F, s), s # <<>>,
         HostInv(m, F, l, s, md, h), R \subseteq Wanted(m, t),
         NEW i \in 0 .. Slots - 1, NEW j \in 0 .. Funcs - 1, NEW l2 \in LoopLabels,
         NEW g, g = [bus |-> Last(s).bus, slot |-> i, func |-> j],
         FrameInv(m, t, R, F, g), PlaceInv(m, t, R, F, l2, g)
  PROVE  ScanInv(m, t, R, F, l2, At(s, i, j), md, h)
<1> DEFINE f == Last(s)  n == Len(s)  s2 == At(s, i, j)
<1>0. s \in Seq(Frame) /\ n \in Nat /\ n > 0 /\ f = s[n] /\ f \in Frame
  BY Popped DEF StackInv
<1>1. /\ s2 \in Seq(Frame) /\ Len(s2) = n /\ s2 # <<>>
      /\ \A k \in 1 .. n - 1 : s2[k] = s[k]
      /\ Last(s2) = g /\ s2[n] = g
  BY <1>0, Moved
<1> HIDE DEF s2
<1>2. g.bus = f.bus
  OBVIOUS
<1>3. StackInv(m, t, R, F, s2)
  <2>1. ASSUME NEW k \in 1 .. n PROVE FrameInv(m, t, R, F, s2[k])
    <3>1. k = n \/ k \in 1 .. n - 1
      BY <1>0
    <3> QED
      BY <1>0, <1>1, <3>1 DEF StackInv
  <2>2. ASSUME NEW k \in 1 .. n - 1 PROVE Nesting(m, t, R, s2[k], s2[k + 1])
    <3>1. Nesting(m, t, R, s[k], s[k + 1]) /\ s2[k] = s[k]
      BY <1>1 DEF StackInv
    <3>2. s2[k + 1].bus = s[k + 1].bus
      <4>1. k + 1 = n \/ k + 1 \in 1 .. n - 1
        BY <1>0
      <4> QED
        BY <1>0, <1>1, <1>2, <4>1
    <3> QED
      BY <3>1, <3>2 DEF Nesting
  <2> QED
    BY <1>1, <2>1, <2>2 DEF StackInv
<1>4. s2[1].bus = s[1].bus
  <2>0. \A x \in Nat : x > 0 => x = 1 \/ 1 \in 1 .. x - 1
    OBVIOUS
  <2>1. n = 1 \/ 1 \in 1 .. n - 1
    BY <1>0, <2>0
  <2> QED
    BY <1>0, <1>1, <1>2, <2>1
<1>5. HostInv(m, F, l2, s2, md, h)
  BY <1>1, <1>4, HostsKeep
<1> QED
  BY <1>1, <1>3, <1>5 DEF ScanInv, s2

(* scanSlot is done with a slot: on to the next one, or back. *)
LEMMA SlotDone ==
  ASSUME NEW m \in Machines, NEW t, NEW R, NEW F, NEW l \in LoopLabels, NEW s, NEW md, NEW h,
         Finished(m, t, R, F), StackInv(m, t, R, F, s), s # <<>>,
         HostInv(m, F, l, s, md, h), R \subseteq Wanted(m, t),
         \A p \in DOMAIN m : p[1] = Last(s).bus /\ p[2] = Last(s).slot =>
                               Handled(m, t, R, F, p)
  PROVE  LET q == NextSlot(s)
         IN  ScanInv(m, t, R, GrownBy(F, s, q), q.at, q.stack, md, h)
<1> DEFINE f == Last(s)  n == Len(s)
<1>0. s \in Seq(Frame) /\ n \in Nat /\ n > 0 /\ f = s[n] /\ f \in Frame
  BY Popped DEF StackInv
<1>1. FrameInv(m, t, R, F, f)
  BY <1>0 DEF StackInv
<1>2. f.bus \in Nat /\ f.slot \in 0 .. Slots - 1 /\ f.func \in 0 .. Funcs - 1 /\ f.slot \in Nat
  BY <1>0, SizesAssumption DEF Frame
<1>3. CASE f.slot + 1 < Slots
  <2>1. f.slot + 1 \in 0 .. Slots - 1 /\ 0 \in 0 .. Funcs - 1
    BY <1>2, <1>3, SizesAssumption
  <2>3. NextSlot(s).at = "slot" /\ NextSlot(s).stack = At(s, f.slot + 1, 0)
    BY <1>3 DEF NextSlot, Place
  <2>4. PICK g : g = [bus |-> f.bus, slot |-> f.slot + 1, func |-> 0]
    OBVIOUS
  <2>5. g.bus = f.bus /\ g.slot = f.slot + 1 /\ g.func = 0
    BY <2>4
  <2>6. FrameInv(m, t, R, F, g)
    <3>1. ASSUME NEW p \in DOMAIN m, Before(p, g) PROVE Handled(m, t, R, F, p)
      <4>1. p[1] = f.bus /\ (p[2] < f.slot \/ p[2] = f.slot)
        BY <1>2, <2>5, <3>1, PlaceNumbers DEF Before
      <4> QED
        BY <1>1, <4>1 DEF FrameInv, Before
    <3> QED
      BY <1>1, <2>5, <3>1 DEF FrameInv
  <2>7. PlaceInv(m, t, R, F, "slot", g)
    BY <2>5 DEF PlaceInv
  <2>8. "slot" \in LoopLabels
    BY DEF LoopLabels, Labels, Reads
  <2>9. ScanInv(m, t, R, F, "slot", At(s, f.slot + 1, 0), md, h)
    BY <2>1, <2>4, <2>6, <2>7, <2>8, MovedOn
  <2> QED
    BY <2>3, <2>9 DEF GrownBy
<1>4. CASE ~(f.slot + 1 < Slots)
  <2> DEFINE s2 == Front(s)  F2 == F \union {f.bus}
  <2>1. NextSlot(s).at = "return" /\ NextSlot(s).stack = s2
    BY <1>4 DEF NextSlot, Place
  <2>2. /\ s2 \in Seq(Frame) /\ Len(s2) = n - 1
        /\ \A k \in 1 .. n - 1 : s2[k] = s[k]
    BY <1>0, Popped
  <2>3. F \subseteq F2 /\ f.bus \in F2
    OBVIOUS
  <2>4. Finished(m, t, R, F2)
    <3>1. ASSUME NEW p \in DOMAIN m, p[1] \in F2 PROVE Handled(m, t, R, F2, p)
      <4>1. CASE p[1] \in F
        BY <2>3, <4>1, StaysHandled DEF Finished
      <4>2. CASE p[1] = f.bus
        <5>1. p[2] < f.slot \/ p[2] = f.slot
          BY <1>2, <1>4, PlaceNumbers, SizesAssumption
        <5>2. Handled(m, t, R, F, p)
          BY <1>1, <4>2, <5>1 DEF FrameInv, Before
        <5> QED
          BY <2>3, <5>2, StaysHandled
      <4> QED
        BY <3>1, <4>1, <4>2
    <3> QED
      BY <1>1, <3>1 DEF Finished, FrameInv
  <2> HIDE DEF s2, F2
  <2>5. StackInv(m, t, R, F2, s2)
    <3>1. ASSUME NEW k \in 1 .. n - 1 PROVE FrameInv(m, t, R, F2, s2[k])
      <4>1. k \in 1 .. n
        BY <1>0
      <4>2. FrameInv(m, t, R, F, s[k])
        BY <4>1 DEF StackInv
      <4> QED
        BY <2>2, <2>3, <4>2, StaysFrame
    <3>2. ASSUME NEW k \in 1 .. n - 1 - 1 PROVE Nesting(m, t, R, s2[k], s2[k + 1])
      <4>1. k \in 1 .. n - 1 /\ k + 1 \in 1 .. n - 1
        BY <1>0
      <4> QED
        BY <2>2, <4>1 DEF StackInv
    <3> QED
      BY <2>2, <3>1, <3>2 DEF StackInv
  <2>6. ASSUME s2 # <<>> PROVE PlaceInv(m, t, R, F2, "return", Last(s2))
    <3>1. n - 1 \in 1 .. n - 1 /\ n - 1 + 1 = n /\ Last(s2) = s2[n - 1]
      BY <1>0, <2>2, <2>6, Popped
    <3>2. PICK g : g = s[n - 1]
      OBVIOUS
    <3>3. Nesting(m, t, R, g, f) /\ Last(s2) = g
      BY <1>0, <2>2, <3>1, <3>2 DEF StackInv
    <3>4. Handled(m, t, R, F2, Here(g))
      BY <2>3, <3>3 DEF Nesting, Handled
    <3> QED
      BY <3>3, <3>4 DEF PlaceInv, Nesting
  <2>7. "return" \in LoopLabels
    BY DEF LoopLabels, Labels
  <2>8. HostInv(m, F2, "return", s2, md, h)
    <3>1. CASE s2 # <<>>
      <4>1. 1 \in 1 .. n - 1
        BY <1>0, <2>2, <3>1
      <4>2. s2[1].bus = s[1].bus
        BY <2>2, <4>1
      <4> QED
        BY <2>3, <2>7, <3>1, <4>2, HostsKeep
    <3>2. CASE s2 = <<>>
      <4>1. n = 1
        BY <1>0, <2>2, <3>2
      <4>2. h \in F2
        BY <1>0, <2>3, <4>1 DEF HostInv
      <4> QED
        BY <2>3, <3>2, <4>2 DEF HostInv, LoopLabels, Innermost
    <3> QED
      BY <3>1, <3>2
  <2>9. ScanInv(m, t, R, F2, "return", s2, md, h)
    BY <2>4, <2>5, <2>6, <2>8 DEF ScanInv
  <2> QED
    BY <2>1, <2>9 DEF GrownBy, F2
<1> QED
  BY <1>3, <1>4

(* scanSlot goes on to the next function of a slot that has several. *)
LEMMA FuncDone ==
  ASSUME NEW m \in Machines, NEW t, NEW R, NEW F, NEW l \in LoopLabels, NEW s, NEW md, NEW h,
         Finished(m, t, R, F), StackInv(m, t, R, F, s), s # <<>>,
         HostInv(m, F, l, s, md, h), R \subseteq Wanted(m, t), Several(m, Last(s)),
         \A p \in DOMAIN m :
           p[1] = Last(s).bus /\ p[2] = Last(s).slot /\ p[3] <= Last(s).func =>
             Handled(m, t, R, F, p)
  PROVE  LET q == NextFunc(s)
         IN  ScanInv(m, t, R, GrownBy(F, s, q), q.at, q.stack, md, h)
<1> DEFINE f == Last(s)  n == Len(s)
<1>0. s \in Seq(Frame) /\ n \in Nat /\ n > 0 /\ f = s[n] /\ f \in Frame
  BY Popped DEF StackInv
<1>1. FrameInv(m, t, R, F, f)
  BY <1>0 DEF StackInv
<1>2. f.slot \in 0 .. Slots - 1 /\ f.slot \in Nat /\ f.func \in 0 .. Funcs - 1 /\ f.func \in Nat
  BY <1>0, SizesAssumption DEF Frame
<1>3. CASE f.func + 1 < Funcs
  <2>1. f.func + 1 \in 0 .. Funcs - 1
    BY <1>2, <1>3, SizesAssumption
  <2>3. NextFunc(s).at = "func" /\ NextFunc(s).stack = At(s, f.slot, f.func + 1)
    BY <1>3 DEF NextFunc, Place
  <2>4. PICK g : g = [bus |-> f.bus, slot |-> f.slot, func |-> f.func + 1]
    OBVIOUS
  <2>5. g.bus = f.bus /\ g.slot = f.slot /\ g.func = f.func + 1 /\ g.func > 0
    BY <1>2, <2>4
  <2>6. FrameInv(m, t, R, F, g)
    <3>1. ASSUME NEW p \in DOMAIN m, Before(p, g) PROVE Handled(m, t, R, F, p)
      <4>1. p[1] = f.bus /\ (p[2] < f.slot \/ (p[2] = f.slot /\ p[3] <= f.func))
        BY <1>2, <2>5, <3>1, PlaceNumbers DEF Before
      <4> QED
        BY <1>1, <4>1 DEF FrameInv, Before
    <3> QED
      BY <1>1, <2>5, <3>1 DEF FrameInv, Several
  <2>7. PlaceInv(m, t, R, F, "func", g)
    BY <2>5 DEF PlaceInv
  <2>8. "func" \in LoopLabels
    BY DEF LoopLabels, Labels, Reads
  <2>9. ScanInv(m, t, R, F, "func", At(s, f.slot, f.func + 1), md, h)
    BY <1>2, <2>1, <2>4, <2>6, <2>7, <2>8, MovedOn
  <2> QED
    BY <2>3, <2>9 DEF GrownBy
<1>4. CASE ~(f.func + 1 < Funcs)
  <2>1. NextFunc(s) = NextSlot(s)
    BY <1>4 DEF NextFunc
  <2>2. \A p \in DOMAIN m : p[3] <= f.func
    BY <1>2, <1>4, PlaceNumbers, SizesAssumption
  <2>3. \A p \in DOMAIN m : p[1] = f.bus /\ p[2] = f.slot => Handled(m, t, R, F, p)
    BY <2>2
  <2> QED
    BY <2>1, <2>3, SlotDone
<1> QED
  BY <1>3, <1>4

(* scanFunc is done with a function. *)
LEMMA AfterDone ==
  ASSUME NEW m \in Machines, NEW t, NEW R, NEW F, NEW l \in LoopLabels, NEW s, NEW md, NEW h,
         Finished(m, t, R, F), StackInv(m, t, R, F, s), s # <<>>,
         HostInv(m, F, l, s, md, h), R \subseteq Wanted(m, t),
         Visible(m, Here(Last(s))), Handled(m, t, R, F, Here(Last(s)))
  PROVE  LET q == AfterFunc(s)
         IN  ScanInv(m, t, R, GrownBy(F, s, q), q.at, q.stack, md, h)
<1> DEFINE f == Last(s)  n == Len(s)
<1>0. s \in Seq(Frame) /\ n \in Nat /\ n > 0 /\ f = s[n] /\ f \in Frame
  BY Popped DEF StackInv
<1>1. FrameInv(m, t, R, F, f)
  BY <1>0 DEF StackInv
<1>2. f.func \in Nat
  BY <1>0, SizesAssumption DEF Frame
<1>3. CASE f.func = 0
  <2>1. AfterFunc(s).at = "header" /\ AfterFunc(s).stack = s
    BY <1>3 DEF AfterFunc, Place
  <2>2. PlaceInv(m, t, R, F, "header", f)
    BY <1>3 DEF PlaceInv
  <2>3. "header" \in LoopLabels
    BY DEF LoopLabels, Labels, Reads
  <2>4. HostInv(m, F, "header", s, md, h)
    BY <2>3, HostsKeep
  <2>5. ScanInv(m, t, R, F, "header", s, md, h)
    BY <2>2, <2>4 DEF ScanInv
  <2> QED
    BY <2>1, <2>5 DEF GrownBy
<1>4. CASE f.func # 0
  <2>1. AfterFunc(s) = NextFunc(s)
    BY <1>4 DEF AfterFunc
  <2>2. Several(m, f)
    BY <1>1, <1>2, <1>4 DEF FrameInv
  <2>3. ASSUME NEW p \in DOMAIN m, p[1] = f.bus, p[2] = f.slot, p[3] <= f.func
        PROVE  Handled(m, t, R, F, p)
    <3>1. p[3] < f.func \/ p = Here(f)
      BY <1>2, <2>3, PlaceNumbers DEF Here
    <3>2. CASE p[3] < f.func
      BY <1>1, <2>3, <3>2 DEF FrameInv, Before
    <3> QED
      BY <3>1, <3>2
  <2>4. \A p \in DOMAIN m : p[1] = f.bus /\ p[2] = f.slot /\ p[3] <= f.func =>
                             Handled(m, t, R, F, p)
    BY <2>3
  <2>5. PICK q : q = NextFunc(s)
    OBVIOUS
  <2>6. ScanInv(m, t, R, GrownBy(F, s, q), q.at, q.stack, md, h)
    BY <2>2, <2>4, <2>5, FuncDone
  <2> QED
    BY <2>1, <2>5, <2>6
<1> QED
  BY <1>3, <1>4

(* A root is one of the buses, and reached. *)
LEMMA RootReached ==
  ASSUME NEW m, NEW r \in Roots(m)
  PROVE  r \in 0 .. Buses - 1 /\ r \in Reached(m)
<1>1. r \in 0 .. Buses - 1
  BY SizesAssumption DEF Roots
<1> QED
  BY <1>1 DEF Reached, Closed

(* The bus behind a bridge on a reached bus is reached. *)
LEMMA BehindReached ==
  ASSUME NEW m \in Machines, NEW p \in DOMAIN m, p[1] \in Reached(m), Visible(m, p),
         IsBridge(m[p])
  PROVE  Behind(m[p]) \in 0 .. Buses - 1 /\ Behind(m[p]) \in Reached(m)
<1>1. Behind(m[p]) < Buses /\ m[p].bar2 \in Long
  BY MachinesAssumption
<1>2. m[p].bar2 \in Int
  BY <1>1, SMT DEF Long
<1>3. Behind(m[p]) \in Nat
  BY <1>2 DEF Behind
<1>4. Behind(m[p]) \in 0 .. Buses - 1
  BY <1>1, <1>3, SizesAssumption
<1> QED
  BY <1>4 DEF Reached, Closed

(* A bus whose scan begins. *)
LEMMA FreshFrame ==
  ASSUME NEW m \in Machines, NEW t, NEW R, NEW F, NEW b, b \in 0 .. Buses - 1,
         b \in Reached(m), NEW f, f = [bus |-> b, slot |-> 0, func |-> 0]
  PROVE  f \in Frame /\ FrameInv(m, t, R, F, f) /\ PlaceInv(m, t, R, F, "slot", f)
<1>1. f \in Frame
  BY SizesAssumption DEF Frame
<1>2. ASSUME NEW p \in DOMAIN m PROVE ~Before(p, f)
  BY PlaceNumbers DEF Before
<1> QED
  BY <1>1, <1>2 DEF FrameInv, PlaceInv

(* scan begins with a host's bus. *)
LEMMA RootPushed ==
  ASSUME NEW m \in Machines, NEW t, NEW R, NEW F, NEW md, NEW h,
         Finished(m, t, R, F), R \subseteq Wanted(m, t), h \in Roots(m),
         NEW s2, s2 = ScanBus(<<>>, h).stack, HostInv(m, F, "slot", s2, md, h)
  PROVE  ScanInv(m, t, R, F, "slot", s2, md, h)
<1>1. PICK f : f = [bus |-> h, slot |-> 0, func |-> 0]
  OBVIOUS
<1>2. s2 = Append(<<>>, f)
  BY <1>1 DEF ScanBus, Place
<1>3. f \in Frame /\ FrameInv(m, t, R, F, f) /\ PlaceInv(m, t, R, F, "slot", f)
  BY <1>1, RootReached, FreshFrame
<1>4. s2 \in Seq(Frame) /\ Len(s2) = 1 /\ s2[1] = f
  <2>1. <<>> \in Seq(Frame) /\ Len(<<>>) = 0
    OBVIOUS
  <2>2. PICK e \in Seq(Frame) : e = <<>> /\ Len(e) = 0
    BY <2>1
  <2>3. /\ Append(e, f) \in Seq(Frame) /\ Len(Append(e, f)) = Len(e) + 1
        /\ Append(e, f)[Len(e) + 1] = f
    BY <1>3, Pushed, Zenon
  <2>4. s2 \in Seq(Frame) /\ Len(s2) = Len(e) + 1 /\ s2[Len(e) + 1] = f
    BY <1>2, <2>2, <2>3, Zenon
  <2> QED
    BY <2>2, <2>4
<1>5. StackInv(m, t, R, F, s2)
  <2>1. \A k \in 1 .. 1 : k = 1
    OBVIOUS
  <2>2. \A k \in 1 .. 1 - 1 : FALSE
    OBVIOUS
  <2> QED
    BY <1>3, <1>4, <2>1, <2>2 DEF StackInv
<1>6. Last(s2) = f
  BY <1>4 DEF Last
<1> QED
  BY <1>3, <1>5, <1>6 DEF ScanInv

(* scanFunc calls scanBus for the bus behind a bridge. *)
LEMMA BridgePushed ==
  ASSUME NEW m \in Machines, NEW t, NEW R, NEW F, NEW s, NEW md, NEW h,
         ScanInv(m, t, R, F, "secondary", s, md, h), s # <<>>,
         NEW b, b = Behind(m[Here(Last(s))]), NEW s2, s2 = ScanBus(s, b).stack
  PROVE  ScanInv(m, t, R, F, "slot", s2, md, h)
<1> DEFINE g == Last(s)  n == Len(s)
<1>0. s \in Seq(Frame) /\ n \in Nat /\ n > 0 /\ g = s[n] /\ g \in Frame
  BY Popped DEF ScanInv, StackInv
<1>1. PICK f : f = [bus |-> b, slot |-> 0, func |-> 0]
  OBVIOUS
<1>2. s2 = Append(s, f)
  BY <1>1 DEF ScanBus, Place
<1>3. /\ Visible(m, Here(g)) /\ IsBridge(m[Here(g)]) /\ Told(m, t, R, Here(g))
  BY DEF ScanInv, PlaceInv
<1>4. Here(g) \in DOMAIN m /\ Here(g)[1] = g.bus
  BY <1>3 DEF Visible, Here
<1>5. g.bus \in Reached(m)
  BY <1>0 DEF ScanInv, StackInv, FrameInv
<1>6. b \in 0 .. Buses - 1 /\ b \in Reached(m)
  BY <1>3, <1>4, <1>5, BehindReached
<1>7. f \in Frame /\ FrameInv(m, t, R, F, f) /\ PlaceInv(m, t, R, F, "slot", f)
  BY <1>1, <1>6, FreshFrame
<1>8. /\ s2 \in Seq(Frame) /\ Len(s2) = n + 1
      /\ \A k \in 1 .. n : s2[k] = s[k]
      /\ s2[n + 1] = f /\ Last(s2) = f /\ s2 # <<>>
  <2>1. /\ Append(s, f) \in Seq(Frame) /\ Len(Append(s, f)) = Len(s) + 1
        /\ \A k \in 1 .. Len(s) : Append(s, f)[k] = s[k]
        /\ Append(s, f)[Len(s) + 1] = f /\ Last(Append(s, f)) = f
        /\ Append(s, f) # <<>>
    BY <1>0, <1>7, Pushed, Zenon
  <2> QED
    BY <1>2, <2>1, Zenon
<1>9. f.bus = b
  BY <1>1
<1>10. StackInv(m, t, R, F, s2)
  <2>1. ASSUME NEW k \in 1 .. n + 1 PROVE FrameInv(m, t, R, F, s2[k])
    <3>1. k \in 1 .. n \/ k = n + 1
      BY <1>0
    <3> QED
      BY <1>7, <1>8, <3>1 DEF ScanInv, StackInv
  <2>2. ASSUME NEW k \in 1 .. n + 1 - 1 PROVE Nesting(m, t, R, s2[k], s2[k + 1])
    <3>1. k \in 1 .. n /\ (k = n \/ (k \in 1 .. n - 1 /\ k + 1 \in 1 .. n))
      BY <1>0
    <3>2. CASE k = n
      <4>1. s2[k] = g /\ s2[k + 1] = f
        BY <1>0, <1>8, <3>1, <3>2
      <4> QED
        BY <1>3, <1>9, <4>1 DEF Nesting
    <3>3. CASE k \in 1 .. n - 1 /\ k + 1 \in 1 .. n
      BY <1>8, <3>1, <3>3 DEF ScanInv, StackInv
    <3> QED
      BY <3>1, <3>2, <3>3
  <2> QED
    BY <1>8, <2>1, <2>2 DEF StackInv
<1>11. s2[1].bus = s[1].bus
  <2>1. 1 \in 1 .. n
    BY <1>0
  <2> QED
    BY <1>8, <2>1
<1>12. "slot" \in LoopLabels /\ "secondary" \in LoopLabels
  BY DEF LoopLabels, Labels, Reads
<1>13. HostInv(m, F, "slot", s2, md, h)
  BY <1>8, <1>11, <1>12, HostsKeep DEF ScanInv
<1> QED
  BY <1>7, <1>8, <1>10, <1>13 DEF ScanInv

(* The innermost call goes on to another part of the same function. *)
LEMMA Relabelled ==
  ASSUME NEW m, NEW t, NEW R, NEW F, NEW l \in Innermost, NEW s, NEW md, NEW h,
         ScanInv(m, t, R, F, l, s, md, h), NEW l2 \in Innermost,
         PlaceInv(m, t, R, F, l2, Last(s))
  PROVE  ScanInv(m, t, R, F, l2, s, md, h)
<1>1. l \in LoopLabels /\ l2 \in LoopLabels
  BY DEF Innermost, LoopLabels, Labels, Reads
<1>2. s # <<>>
  BY DEF ScanInv, HostInv
<1>3. HostInv(m, F, l2, s, md, h)
  BY <1>1, <1>2, HostsKeep DEF ScanInv
<1> QED
  BY <1>3 DEF ScanInv

-----------------------------------------------------------------------------
(* The parts of scanSlot and scanFunc *)

(* A slot whose first function is missing has none. *)
LEMMA SlotAbsent ==
  ASSUME NEW m \in Machines, NEW t, NEW R, NEW F, NEW s, NEW md, NEW h,
         ScanInv(m, t, R, F, "slot", s, md, h), Here(Last(s)) \notin DOMAIN m
  PROVE  LET q == NextSlot(s)
         IN  ScanInv(m, t, R, GrownBy(F, s, q), q.at, q.stack, md, h)
<1> DEFINE f == Last(s)  n == Len(s)
<1>1. "slot" \in LoopLabels /\ "slot" \in Innermost /\ s # <<>>
  BY DEF LoopLabels, Labels, Reads, Innermost, ScanInv, HostInv
<1>2. s \in Seq(Frame) /\ n \in Nat /\ n > 0 /\ f = s[n] /\ f \in Frame
  BY <1>1, Popped DEF ScanInv, StackInv
<1>3. f.bus \in Nat /\ f.slot \in Nat /\ f.func \in Nat
  BY <1>2, SizesAssumption DEF Frame
<1>4. FrameInv(m, t, R, F, f) /\ PlaceInv(m, t, R, F, "slot", f)
  BY <1>1, <1>2 DEF ScanInv, StackInv
<1>5. /\ Finished(m, t, R, F) /\ StackInv(m, t, R, F, s)
      /\ HostInv(m, F, "slot", s, md, h) /\ R \subseteq Wanted(m, t)
  BY DEF ScanInv
<1>6. ASSUME NEW p \in DOMAIN m, p[1] = f.bus, p[2] = f.slot PROVE ~Visible(m, p)
  <2>1. Here(f) = <<p[1], p[2], 0>>
    BY <1>4, <1>6 DEF PlaceInv, Here
  <2>2. p = <<p[1], p[2], p[3]>>
    BY PlaceNumbers
  <2> QED
    BY <2>1, <2>2 DEF Visible
<1>7. \A p \in DOMAIN m : p[1] = f.bus /\ p[2] = f.slot => Handled(m, t, R, F, p)
  BY <1>6 DEF Handled, Told
<1> QED
  BY <1>1, <1>5, <1>7, SlotDone

(* A function that is there is looked at. *)
LEMMA FuncFound ==
  ASSUME NEW m \in Machines, NEW t, NEW R, NEW F, NEW s, NEW md, NEW h,
         NEW l \in {"slot", "func"}, ScanInv(m, t, R, F, l, s, md, h),
         Here(Last(s)) \in DOMAIN m
  PROVE  ScanInv(m, t, R, F, ScanFunc(t), s, md, h)
<1> DEFINE f == Last(s)
<1>1. l \in Innermost /\ s # <<>> /\ ScanFunc(t) \in Innermost
  BY DEF Innermost, ScanInv, HostInv, ScanFunc
<1>2. PlaceInv(m, t, R, F, l, f)
  BY <1>1 DEF ScanInv
<1>3. f = s[Len(s)] /\ Len(s) \in 1 .. Len(s)
  BY <1>1, Popped DEF ScanInv, StackInv
<1>4. FrameInv(m, t, R, F, f)
  BY <1>3 DEF ScanInv, StackInv
<1>5. Visible(m, Here(f))
  <2>1. Here(f)[1] = f.bus /\ Here(f)[2] = f.slot /\ Here(f)[3] = f.func
    BY DEF Here
  <2> QED
    BY <1>2, <1>4, <2>1 DEF PlaceInv, FrameInv, Several, Visible
<1>6. PlaceInv(m, t, R, F, ScanFunc(t), f)
  BY <1>5 DEF PlaceInv, ScanFunc, Matches
<1> QED
  BY <1>1, <1>6, Relabelled

(* A function that is missing is passed over. *)
LEMMA FuncAbsent ==
  ASSUME NEW m \in Machines, NEW t, NEW R, NEW F, NEW s, NEW md, NEW h,
         ScanInv(m, t, R, F, "func", s, md, h), Here(Last(s)) \notin DOMAIN m
  PROVE  LET q == NextFunc(s)
         IN  ScanInv(m, t, R, GrownBy(F, s, q), q.at, q.stack, md, h)
<1> DEFINE f == Last(s)  n == Len(s)
<1>1. "func" \in LoopLabels /\ "func" \in Innermost /\ s # <<>>
  BY DEF LoopLabels, Labels, Reads, Innermost, ScanInv, HostInv
<1>2. s \in Seq(Frame) /\ n \in Nat /\ n > 0 /\ f = s[n] /\ f \in Frame
  BY <1>1, Popped DEF ScanInv, StackInv
<1>3. f.bus \in Nat /\ f.slot \in Nat /\ f.func \in Nat
  BY <1>2, SizesAssumption DEF Frame
<1>4. FrameInv(m, t, R, F, f) /\ PlaceInv(m, t, R, F, "func", f)
  BY <1>1, <1>2 DEF ScanInv, StackInv
<1>5. /\ Finished(m, t, R, F) /\ StackInv(m, t, R, F, s)
      /\ HostInv(m, F, "func", s, md, h) /\ R \subseteq Wanted(m, t)
  BY DEF ScanInv
<1>6. Several(m, f)
  BY <1>4 DEF PlaceInv, FrameInv
<1>7. ASSUME NEW p \in DOMAIN m, p[1] = f.bus, p[2] = f.slot, p[3] <= f.func
      PROVE  Handled(m, t, R, F, p)
  <2>1. p # Here(f) /\ p = <<p[1], p[2], p[3]>> /\ p[3] \in Nat
    BY PlaceNumbers
  <2>2. p[3] # f.func
    BY <1>7, <2>1 DEF Here
  <2>3. Before(p, f)
    BY <1>3, <1>7, <2>1, <2>2 DEF Before
  <2> QED
    BY <1>4, <2>3 DEF FrameInv
<1>8. \A p \in DOMAIN m : p[1] = f.bus /\ p[2] = f.slot /\ p[3] <= f.func =>
                           Handled(m, t, R, F, p)
  BY <1>7
<1> QED
  BY <1>1, <1>5, <1>6, <1>8, FuncDone

(* The filter lets through what matches. *)
LEMMA Filtered ==
  ASSUME NEW m \in Machines, NEW t, NEW R, NEW F, NEW s, NEW md, NEW h,
         ScanInv(m, t, R, F, "filter", s, md, h), 
         NEW l2, l2 = IF Matches(m, t, Here(Last(s))) THEN "hit" ELSE "bridge"
  PROVE  ScanInv(m, t, R, F, l2, s, md, h)
<1> DEFINE f == Last(s)  n == Len(s)
<1>1. "filter" \in LoopLabels /\ "filter" \in Innermost /\ s # <<>>
  BY DEF LoopLabels, Labels, Reads, Innermost, ScanInv, HostInv
<1>2. s \in Seq(Frame) /\ n \in Nat /\ n > 0 /\ f = s[n] /\ f \in Frame
  BY <1>1, Popped DEF ScanInv, StackInv
<1>3. f.bus \in Nat /\ f.slot \in Nat /\ f.func \in Nat
  BY <1>2, SizesAssumption DEF Frame
<1>4. FrameInv(m, t, R, F, f) /\ PlaceInv(m, t, R, F, "filter", f)
  BY <1>1, <1>2 DEF ScanInv, StackInv
<1>5. /\ Finished(m, t, R, F) /\ StackInv(m, t, R, F, s)
      /\ HostInv(m, F, "filter", s, md, h) /\ R \subseteq Wanted(m, t)
  BY DEF ScanInv
<1>6. l2 \in Innermost
  BY DEF Innermost
<1>7. PlaceInv(m, t, R, F, l2, f)
  BY <1>4 DEF PlaceInv, Told
<1> QED
  BY <1>1, <1>6, <1>7, Relabelled

(* The callback is called for a function that is wanted. *)
LEMMA ReportedOn ==
  ASSUME NEW m \in Machines, NEW t, NEW R, NEW F, NEW s, NEW md, NEW h,
         ScanInv(m, t, R, F, "hit", s, md, h), 
         NEW R2, R2 = R \union {Entry(m, Here(Last(s)))}, NEW l2,
         l2 = IF IsBochs(m[Here(Last(s))].vendor, m[Here(Last(s))].device)
              THEN "display" ELSE "bridge"
  PROVE  ScanInv(m, t, R2, F, l2, s, md, h)
<1> DEFINE f == Last(s)  n == Len(s)
<1>1. "hit" \in LoopLabels /\ "hit" \in Innermost /\ s # <<>>
  BY DEF LoopLabels, Labels, Reads, Innermost, ScanInv, HostInv
<1>2. s \in Seq(Frame) /\ n \in Nat /\ n > 0 /\ f = s[n] /\ f \in Frame
  BY <1>1, Popped DEF ScanInv, StackInv
<1>3. f.bus \in Nat /\ f.slot \in Nat /\ f.func \in Nat
  BY <1>2, SizesAssumption DEF Frame
<1>4. FrameInv(m, t, R, F, f) /\ PlaceInv(m, t, R, F, "hit", f)
  BY <1>1, <1>2 DEF ScanInv, StackInv
<1>5. /\ Finished(m, t, R, F) /\ StackInv(m, t, R, F, s)
      /\ HostInv(m, F, "hit", s, md, h) /\ R \subseteq Wanted(m, t)
  BY DEF ScanInv
<1> DEFINE p == Here(f)
<1>6. p \in DOMAIN m /\ p = <<f.bus, f.slot, f.func>> /\ p[1] = f.bus
  BY <1>4 DEF PlaceInv, Visible, Here
<1>7. Visible(m, p) /\ Matches(m, t, p) /\ p[1] \in Reached(m)
  BY <1>4, <1>6 DEF PlaceInv, FrameInv
<1> HIDE DEF p
<1>8. Entry(m, p) \in Wanted(m, t)
  BY <1>6, <1>7 DEF Entry, Wanted, Matches
<1>9. R \subseteq R2 /\ R2 \subseteq Wanted(m, t)
  BY <1>5, <1>8 DEF p
<1>10. F \subseteq F
  OBVIOUS
<1>11. Finished(m, t, R2, F)
  BY <1>5, <1>9, <1>10, StaysHandled DEF Finished
<1>12. StackInv(m, t, R2, F, s)
  <2>1. \A k \in 1 .. Len(s) : FrameInv(m, t, R2, F, s[k])
    BY <1>5, <1>9, <1>10, StaysFrame DEF StackInv
  <2>2. \A k \in 1 .. Len(s) - 1 : Nesting(m, t, R2, s[k], s[k + 1])
    BY <1>5, <1>9, StaysNested DEF StackInv
  <2> QED
    BY <1>2, <2>1, <2>2 DEF StackInv
<1>13. Told(m, t, R2, p)
  BY DEF Told, p
<1>14. PlaceInv(m, t, R2, F, l2, f)
  BY <1>4, <1>7, <1>13 DEF PlaceInv, p
<1>15. l2 \in LoopLabels
  BY DEF LoopLabels, Labels, Reads
<1>16. HostInv(m, F, l2, s, md, h)
  BY <1>1, <1>5, <1>15, HostsKeep
<1> QED
  BY <1>9, <1>11, <1>12, <1>14, <1>16 DEF ScanInv

(* The callback returns. *)
LEMMA PaintedOn ==
  ASSUME NEW m \in Machines, NEW t, NEW R, NEW F, NEW s, NEW md, NEW h,
         ScanInv(m, t, R, F, "display", s, md, h)
  PROVE  ScanInv(m, t, R, F, "bridge", s, md, h)
<1> DEFINE f == Last(s)  n == Len(s)
<1>1. "display" \in LoopLabels /\ "display" \in Innermost /\ s # <<>>
  BY DEF LoopLabels, Labels, Reads, Innermost, ScanInv, HostInv
<1>2. s \in Seq(Frame) /\ n \in Nat /\ n > 0 /\ f = s[n] /\ f \in Frame
  BY <1>1, Popped DEF ScanInv, StackInv
<1>3. f.bus \in Nat /\ f.slot \in Nat /\ f.func \in Nat
  BY <1>2, SizesAssumption DEF Frame
<1>4. FrameInv(m, t, R, F, f) /\ PlaceInv(m, t, R, F, "display", f)
  BY <1>1, <1>2 DEF ScanInv, StackInv
<1>5. /\ Finished(m, t, R, F) /\ StackInv(m, t, R, F, s)
      /\ HostInv(m, F, "display", s, md, h) /\ R \subseteq Wanted(m, t)
  BY DEF ScanInv
<1>6. "bridge" \in Innermost
  BY DEF Innermost
<1>7. PlaceInv(m, t, R, F, "bridge", f)
  BY <1>4 DEF PlaceInv
<1> QED
  BY <1>1, <1>6, <1>7, Relabelled

(* A function that is no bridge is done. *)
LEMMA NoBridge ==
  ASSUME NEW m \in Machines, NEW t, NEW R, NEW F, NEW s, NEW md, NEW h,
         ScanInv(m, t, R, F, "bridge", s, md, h), ~IsBridge(m[Here(Last(s))])
  PROVE  LET q == AfterFunc(s)
         IN  ScanInv(m, t, R, GrownBy(F, s, q), q.at, q.stack, md, h)
<1> DEFINE f == Last(s)  n == Len(s)
<1>1. "bridge" \in LoopLabels /\ "bridge" \in Innermost /\ s # <<>>
  BY DEF LoopLabels, Labels, Reads, Innermost, ScanInv, HostInv
<1>2. s \in Seq(Frame) /\ n \in Nat /\ n > 0 /\ f = s[n] /\ f \in Frame
  BY <1>1, Popped DEF ScanInv, StackInv
<1>3. f.bus \in Nat /\ f.slot \in Nat /\ f.func \in Nat
  BY <1>2, SizesAssumption DEF Frame
<1>4. FrameInv(m, t, R, F, f) /\ PlaceInv(m, t, R, F, "bridge", f)
  BY <1>1, <1>2 DEF ScanInv, StackInv
<1>5. /\ Finished(m, t, R, F) /\ StackInv(m, t, R, F, s)
      /\ HostInv(m, F, "bridge", s, md, h) /\ R \subseteq Wanted(m, t)
  BY DEF ScanInv
<1>6. Visible(m, Here(f)) /\ Handled(m, t, R, F, Here(f))
  BY <1>4 DEF PlaceInv, Handled
<1> QED
  BY <1>1, <1>5, <1>6, AfterDone

(* A bridge is asked for the bus behind it. *)
LEMMA BridgeFound ==
  ASSUME NEW m \in Machines, NEW t, NEW R, NEW F, NEW s, NEW md, NEW h,
         ScanInv(m, t, R, F, "bridge", s, md, h), IsBridge(m[Here(Last(s))])
  PROVE  ScanInv(m, t, R, F, "secondary", s, md, h)
<1> DEFINE f == Last(s)  n == Len(s)
<1>1. "bridge" \in LoopLabels /\ "bridge" \in Innermost /\ s # <<>>
  BY DEF LoopLabels, Labels, Reads, Innermost, ScanInv, HostInv
<1>2. s \in Seq(Frame) /\ n \in Nat /\ n > 0 /\ f = s[n] /\ f \in Frame
  BY <1>1, Popped DEF ScanInv, StackInv
<1>3. f.bus \in Nat /\ f.slot \in Nat /\ f.func \in Nat
  BY <1>2, SizesAssumption DEF Frame
<1>4. FrameInv(m, t, R, F, f) /\ PlaceInv(m, t, R, F, "bridge", f)
  BY <1>1, <1>2 DEF ScanInv, StackInv
<1>5. /\ Finished(m, t, R, F) /\ StackInv(m, t, R, F, s)
      /\ HostInv(m, F, "bridge", s, md, h) /\ R \subseteq Wanted(m, t)
  BY DEF ScanInv
<1>6. "secondary" \in Innermost
  BY DEF Innermost
<1>7. PlaceInv(m, t, R, F, "secondary", f)
  BY <1>4 DEF PlaceInv
<1> QED
  BY <1>1, <1>6, <1>7, Relabelled

(* A device with one function hides the others. *)
LEMMA OneFunc ==
  ASSUME NEW m \in Machines, NEW t, NEW R, NEW F, NEW s, NEW md, NEW h,
         ScanInv(m, t, R, F, "header", s, md, h), m[Here(Last(s))].header = 0
  PROVE  LET q == NextSlot(s)
         IN  ScanInv(m, t, R, GrownBy(F, s, q), q.at, q.stack, md, h)
<1> DEFINE f == Last(s)  n == Len(s)
<1>1. "header" \in LoopLabels /\ "header" \in Innermost /\ s # <<>>
  BY DEF LoopLabels, Labels, Reads, Innermost, ScanInv, HostInv
<1>2. s \in Seq(Frame) /\ n \in Nat /\ n > 0 /\ f = s[n] /\ f \in Frame
  BY <1>1, Popped DEF ScanInv, StackInv
<1>3. f.bus \in Nat /\ f.slot \in Nat /\ f.func \in Nat
  BY <1>2, SizesAssumption DEF Frame
<1>4. FrameInv(m, t, R, F, f) /\ PlaceInv(m, t, R, F, "header", f)
  BY <1>1, <1>2 DEF ScanInv, StackInv
<1>5. /\ Finished(m, t, R, F) /\ StackInv(m, t, R, F, s)
      /\ HostInv(m, F, "header", s, md, h) /\ R \subseteq Wanted(m, t)
  BY DEF ScanInv
<1>6. f.func = 0 /\ Handled(m, t, R, F, Here(f))
  BY <1>4 DEF PlaceInv
<1>7. ASSUME NEW p \in DOMAIN m, p[1] = f.bus, p[2] = f.slot PROVE Handled(m, t, R, F, p)
  <2>1. p = <<p[1], p[2], p[3]>>
    BY PlaceNumbers
  <2>2. Here(f) = <<p[1], p[2], 0>>
    BY <1>6, <1>7 DEF Here
  <2>3. CASE p[3] = 0
    BY <1>6, <2>1, <2>2, <2>3
  <2>4. CASE p[3] # 0
    BY <2>2, <2>4 DEF Visible, Handled, Told
  <2> QED
    BY <2>3, <2>4
<1>8. \A p \in DOMAIN m : p[1] = f.bus /\ p[2] = f.slot => Handled(m, t, R, F, p)
  BY <1>7
<1> QED
  BY <1>1, <1>5, <1>8, SlotDone

(* One with several is asked for each of them. *)
LEMMA SeveralFuncs ==
  ASSUME NEW m \in Machines, NEW t, NEW R, NEW F, NEW s, NEW md, NEW h,
         ScanInv(m, t, R, F, "header", s, md, h), m[Here(Last(s))].header # 0
  PROVE  LET q == NextFunc(s)
         IN  ScanInv(m, t, R, GrownBy(F, s, q), q.at, q.stack, md, h)
<1> DEFINE f == Last(s)  n == Len(s)
<1>1. "header" \in LoopLabels /\ "header" \in Innermost /\ s # <<>>
  BY DEF LoopLabels, Labels, Reads, Innermost, ScanInv, HostInv
<1>2. s \in Seq(Frame) /\ n \in Nat /\ n > 0 /\ f = s[n] /\ f \in Frame
  BY <1>1, Popped DEF ScanInv, StackInv
<1>3. f.bus \in Nat /\ f.slot \in Nat /\ f.func \in Nat
  BY <1>2, SizesAssumption DEF Frame
<1>4. FrameInv(m, t, R, F, f) /\ PlaceInv(m, t, R, F, "header", f)
  BY <1>1, <1>2 DEF ScanInv, StackInv
<1>5. /\ Finished(m, t, R, F) /\ StackInv(m, t, R, F, s)
      /\ HostInv(m, F, "header", s, md, h) /\ R \subseteq Wanted(m, t)
  BY DEF ScanInv
<1>6. f.func = 0 /\ Handled(m, t, R, F, Here(f)) /\ Visible(m, Here(f))
  BY <1>4 DEF PlaceInv
<1>7. Several(m, f)
  BY <1>6 DEF Several, Visible, Here
<1>8. ASSUME NEW p \in DOMAIN m, p[1] = f.bus, p[2] = f.slot, p[3] <= f.func
      PROVE  Handled(m, t, R, F, p)
  <2>1. p = <<p[1], p[2], p[3]>> /\ p[3] = 0
    BY <1>6, <1>8, PlaceNumbers
  <2>2. p = Here(f)
    BY <1>6, <1>8, <2>1 DEF Here
  <2> QED
    BY <1>6, <2>2
<1>9. \A p \in DOMAIN m : p[1] = f.bus /\ p[2] = f.slot /\ p[3] <= f.func =>
                           Handled(m, t, R, F, p)
  BY <1>8
<1> QED
  BY <1>1, <1>5, <1>7, <1>9, FuncDone

(* scanBus has returned to the scanFunc of a bridge. *)
LEMMA ReturnedTo ==
  ASSUME NEW m \in Machines, NEW t, NEW R, NEW F, NEW s, NEW md, NEW h,
         ScanInv(m, t, R, F, "return", s, md, h), s # <<>>
  PROVE  LET q == AfterFunc(s)
         IN  ScanInv(m, t, R, GrownBy(F, s, q), q.at, q.stack, md, h)
<1>1. "return" \in LoopLabels
  BY DEF LoopLabels, Labels
<1>2. Visible(m, Here(Last(s))) /\ Handled(m, t, R, F, Here(Last(s)))
  BY DEF ScanInv, PlaceInv
<1> QED
  BY <1>1, <1>2, AfterDone DEF ScanInv

-----------------------------------------------------------------------------
(* No function twice *)

(* The present function of the innermost call has not been passed yet. *)
LEMMA NotPast ==
  ASSUME NEW F, NEW l, NEW s \in Seq(Frame), s # <<>>, NEW L, l \notin L,
         \A j, k \in 1 .. Len(s) : s[j].bus = s[k].bus => j = k,
         \A k \in 1 .. Len(s) : s[k].bus \notin F
  PROVE  ~Past(F, l, s, L, Here(Last(s)))
<1> DEFINE f == Last(s)  n == Len(s)  p == Here(f)
<1>1. n \in Nat /\ n > 0 /\ f = s[n] /\ f \in Frame
  BY Popped
<1>2. n \in 1 .. n
  BY <1>1
<1>3. f.slot \in Nat /\ f.func \in Nat
  BY <1>1, SizesAssumption DEF Frame
<1>4. p[1] = f.bus /\ p[2] = f.slot /\ p[3] = f.func
  BY DEF Here
<1>5. p[1] \notin F
  BY <1>1, <1>2, <1>4
<1>6. ASSUME NEW k \in 1 .. n, Before(p, s[k]) PROVE FALSE
  <2>1. s[k].bus = s[n].bus
    BY <1>1, <1>4, <1>6 DEF Before
  <2>2. k = n
    BY <1>2, <2>1
  <2> QED
    BY <1>1, <1>3, <1>4, <1>6, <2>2 DEF Before
<1>7. ASSUME NEW k \in 1 .. n, p = Here(s[k]), k < n \/ l \in L PROVE FALSE
  <2>1. s[k].bus = s[n].bus
    BY <1>1, <1>4, <1>7 DEF Here
  <2>2. k = n
    BY <1>2, <2>1
  <2> QED
    BY <1>1, <1>7, <2>2
<1> QED
  BY <1>5, <1>6, <1>7 DEF Past

(* What keeps the callbacks apart when no bus is begun. *)
LEMMA OnceKeeps ==
  ASSUME NEW m, NEW rep, NEW F, NEW l, NEW s, NEW h, OnceInv(m, rep, F, l, s, h),
         NEW F2, NEW l2, NEW s2, l2 \notin {"hosts", "hostFunc"},
         \A p \in DOMAIN m : Past(F, l, s, Afterwards, p) => Past(F2, l2, s2, Afterwards, p),
         \A p \in DOMAIN m : Past(F, l, s, Returned, p) => Past(F2, l2, s2, Returned, p),
         \A j, k \in 1 .. Len(s2) : s2[j].bus = s2[k].bus => j = k,
         \A k \in 1 .. Len(s2) : s2[k].bus \notin F2,
         \A k \in 1 .. Len(s2) : \E j \in 1 .. Len(s) : s[j].bus = s2[k].bus,
         \A b \in F2 : b \in F \/ \E j \in 1 .. Len(s) : s[j].bus = b
  PROVE  OnceInv(m, rep, F2, l2, s2, h)
<1>1. ASSUME NEW b, Reason(m, F, l, s, h, b) PROVE Reason(m, F2, l2, s2, h, b)
  BY <1>1 DEF Reason
<1>2. \A i \in DOMAIN rep : \E p \in DOMAIN m :
        rep[i].dev = box(p[1], p[2], p[3]) /\ Past(F2, l2, s2, Afterwards, p)
  BY DEF OnceInv
<1>3. \A k \in 1 .. Len(s2) : Reason(m, F2, l2, s2, h, s2[k].bus)
  <2> TAKE k \in 1 .. Len(s2)
  <2>1. PICK j \in 1 .. Len(s) : s[j].bus = s2[k].bus
    OBVIOUS
  <2>2. Reason(m, F, l, s, h, s[j].bus)
    BY DEF OnceInv
  <2> QED
    BY <1>1, <2>1, <2>2
<1>4. \A b \in F2 : Reason(m, F2, l2, s2, h, b)
  <2> TAKE b \in F2
  <2>1. Reason(m, F, l, s, h, b)
    BY DEF OnceInv
  <2> QED
    BY <1>1, <2>1
<1> QED
  BY <1>2, <1>3, <1>4 DEF OnceInv

(* How the innermost call goes on: it returns, is done with a function, or *)
(* comes to a later one.                                                   *)
Advances(s, q) ==
  \/ q.at = "return" /\ q.stack = Front(s)
  \/ q.at = "header" /\ q.stack = s
  \/ /\ q.at \in {"slot", "func"}
     /\ \E i \in 0 .. Slots - 1, j \in 0 .. Funcs - 1 :
          /\ q.stack = At(s, i, j)
          /\ Last(s).slot < i \/ (Last(s).slot = i /\ Last(s).func < j)

(* The loops of scanBus and scanSlot advance. *)
LEMMA LoopsAdvance ==
  ASSUME NEW s \in Seq(Frame), s # <<>>
  PROVE  /\ Advances(s, NextSlot(s)) /\ Advances(s, NextFunc(s))
         /\ Advances(s, AfterFunc(s))
<1> DEFINE f == Last(s)
<1>1. f \in Frame
  BY Popped
<1>2. f.slot \in Nat /\ f.func \in Nat /\ f.slot \in 0 .. Slots - 1 /\ 0 \in 0 .. Funcs - 1
  BY <1>1, SizesAssumption DEF Frame
<1>3. Advances(s, NextSlot(s))
  <2>1. CASE f.slot + 1 < Slots
    <3>1. f.slot + 1 \in 0 .. Slots - 1 /\ f.slot < f.slot + 1
      BY <1>2, <2>1, SizesAssumption
    <3>2. NextSlot(s).at = "slot" /\ NextSlot(s).stack = At(s, f.slot + 1, 0)
      BY <2>1 DEF NextSlot, Place
    <3> QED
      BY <1>2, <3>1, <3>2 DEF Advances
  <2>2. CASE ~(f.slot + 1 < Slots)
    BY <2>2 DEF NextSlot, Place, Advances
  <2> QED
    BY <2>1, <2>2
<1>4. Advances(s, NextFunc(s))
  <2>1. CASE f.func + 1 < Funcs
    <3>1. f.func + 1 \in 0 .. Funcs - 1 /\ f.func < f.func + 1
      BY <1>2, <2>1, SizesAssumption
    <3>2. NextFunc(s).at = "func" /\ NextFunc(s).stack = At(s, f.slot, f.func + 1)
      BY <2>1 DEF NextFunc, Place
    <3> QED
      BY <1>2, <3>1, <3>2 DEF Advances
  <2>2. CASE ~(f.func + 1 < Funcs)
    BY <1>3, <2>2 DEF NextFunc
  <2> QED
    BY <2>1, <2>2
<1>5. Advances(s, AfterFunc(s))
  <2>1. CASE f.func = 0
    BY <2>1 DEF AfterFunc, Place, Advances
  <2>2. CASE f.func # 0
    BY <1>4, <2>2 DEF AfterFunc
  <2> QED
    BY <2>1, <2>2
<1> QED
  BY <1>3, <1>4, <1>5

(* Nothing that was passed is forgotten when the innermost call advances. *)
LEMMA OnceAdvances ==
  ASSUME NEW m \in Machines, NEW rep, NEW F, NEW l, NEW s \in Seq(Frame), s # <<>>, NEW h,
         OnceInv(m, rep, F, l, s, h), NEW q, Advances(s, q)
  PROVE  OnceInv(m, rep, GrownBy(F, s, q), q.at, q.stack, h)
<1> DEFINE f == Last(s)  n == Len(s)
<1>1. n \in Nat /\ n > 0 /\ f = s[n] /\ f \in Frame /\ n \in 1 .. n
  BY Popped
<1>2. f.slot \in Nat /\ f.func \in Nat
  BY <1>1, SizesAssumption DEF Frame
<1>3. /\ \A j, k \in 1 .. n : s[j].bus = s[k].bus => j = k
      /\ \A k \in 1 .. n : s[k].bus \notin F
  BY DEF OnceInv
<1>4. CASE q.at = "return" /\ q.stack = Front(s)
  <2> DEFINE F2 == F \union {f.bus}
  <2>1. PICK s2 \in Seq(Frame) : s2 = Front(s) /\ Len(s2) = n - 1
                                  /\ \A k \in 1 .. n - 1 : s2[k] = s[k]
    BY Popped
  <2>2. \A k \in 1 .. n - 1 : k \in 1 .. n /\ k # n
    BY <1>1
  <2>3. ASSUME NEW L, "return" \in L, NEW p \in DOMAIN m, Past(F, l, s, L, p)
        PROVE  Past(F2, "return", s2, L, p)
    <3>1. CASE p[1] \in F
      BY <3>1 DEF Past
    <3>2. CASE p[1] \notin F
      <4>1. PICK k \in 1 .. n : Before(p, s[k]) \/ p = Here(s[k])
        BY <2>3, <3>2 DEF Past
      <4>2. CASE k = n
        BY <1>1, <4>1, <4>2 DEF Before, Here, Past
      <4>3. CASE k # n
        <5>1. k \in 1 .. n - 1
          BY <1>1, <4>3
        <5>2. s2[k] = s[k] /\ k \in 1 .. Len(s2)
          BY <2>1, <5>1
        <5> QED
          BY <2>3, <4>1, <5>2 DEF Past
      <4> QED
        BY <4>2, <4>3
    <3> QED
      BY <3>1, <3>2
  <2>4. /\ \A p \in DOMAIN m : Past(F, l, s, Afterwards, p) => Past(F2, "return", s2, Afterwards, p)
        /\ \A p \in DOMAIN m : Past(F, l, s, Returned, p) => Past(F2, "return", s2, Returned, p)
    <3>1. "return" \in Afterwards /\ "return" \in Returned
      BY DEF Afterwards, Returned
    <3> QED
      BY <2>3, <3>1
  <2>5. \A j, k \in 1 .. Len(s2) : s2[j].bus = s2[k].bus => j = k
    BY <1>3, <2>1, <2>2
  <2>6. \A k \in 1 .. Len(s2) : s2[k].bus \notin F2
    BY <1>1, <1>3, <2>1, <2>2
  <2>7. \A k \in 1 .. Len(s2) : \E j \in 1 .. n : s[j].bus = s2[k].bus
    BY <2>1, <2>2
  <2>8. \A b \in F2 : b \in F \/ \E j \in 1 .. n : s[j].bus = b
    BY <1>1
  <2> HIDE DEF F2
  <2>9. OnceInv(m, rep, F2, "return", s2, h)
    BY <2>4, <2>5, <2>6, <2>7, <2>8, OnceKeeps
  <2> QED
    BY <1>4, <2>1, <2>9 DEF GrownBy, F2
<1>5. CASE q.at = "header" /\ q.stack = s
  <2>1. \A p : Past(F, l, s, Afterwards, p) => Past(F, "header", s, Afterwards, p)
    BY DEF Past, Afterwards
  <2>2. \A p : Past(F, l, s, Returned, p) => Past(F, "header", s, Returned, p)
    BY DEF Past, Returned
  <2>3. OnceInv(m, rep, F, "header", s, h)
    BY <1>3, <2>1, <2>2, OnceKeeps
  <2> QED
    BY <1>5, <2>3 DEF GrownBy
<1>6. ASSUME NEW i \in 0 .. Slots - 1, NEW j \in 0 .. Funcs - 1, q.at \in {"slot", "func"},
             q.stack = At(s, i, j), f.slot < i \/ (f.slot = i /\ f.func < j)
      PROVE  OnceInv(m, rep, GrownBy(F, s, q), q.at, q.stack, h)
  <2>1. PICK g : g = [bus |-> f.bus, slot |-> i, func |-> j]
    OBVIOUS
  <2>2. g.bus = f.bus /\ g.slot = i /\ g.func = j
    BY <2>1
  <2>3. PICK s2 \in Seq(Frame) : /\ s2 = q.stack /\ Len(s2) = n /\ s2[n] = g
                                 /\ \A k \in 1 .. n - 1 : s2[k] = s[k]
    BY <1>6, <2>1, Moved
  <2>4. PICK l2 : l2 = q.at
    OBVIOUS
  <2>5. \A k \in 1 .. n : s2[k].bus = s[k].bus
    <3>1. \A k \in 1 .. n : k = n \/ k \in 1 .. n - 1
      BY <1>1
    <3> QED
      BY <1>1, <2>2, <2>3, <3>1
  <2>6. ASSUME NEW L, NEW p \in DOMAIN m, Past(F, l, s, L, p)
        PROVE  Past(F, l2, s2, L, p)
    <3>1. CASE p[1] \in F
      BY <3>1 DEF Past
    <3>2. CASE p[1] \notin F
      <4>1. PICK k \in 1 .. n : Before(p, s[k]) \/ (p = Here(s[k]) /\ (k < n \/ l \in L))
        BY <2>6, <3>2 DEF Past
      <4>2. CASE k = n
        <5>1. p[1] = f.bus /\ (p[2] < f.slot \/ (p[2] = f.slot /\ p[3] <= f.func))
          BY <1>1, <1>2, <4>1, <4>2, PlaceNumbers DEF Before, Here
        <5>2. Before(p, g)
          BY <1>2, <1>6, <2>2, <5>1, PlaceNumbers DEF Before
        <5> QED
          BY <1>1, <2>3, <5>2 DEF Past
      <4>3. CASE k # n
        <5>1. k \in 1 .. n - 1
          BY <1>1, <4>3
        <5>2. s2[k] = s[k] /\ k < n
          BY <1>1, <2>3, <5>1
        <5> QED
          BY <2>3, <4>1, <5>2 DEF Past
      <4> QED
        BY <4>2, <4>3
    <3> QED
      BY <3>1, <3>2
  <2>7. /\ \A p \in DOMAIN m : Past(F, l, s, Afterwards, p) => Past(F, l2, s2, Afterwards, p)
        /\ \A p \in DOMAIN m : Past(F, l, s, Returned, p) => Past(F, l2, s2, Returned, p)
    BY <2>6
  <2>8. /\ \A a, k \in 1 .. Len(s2) : s2[a].bus = s2[k].bus => a = k
        /\ \A k \in 1 .. Len(s2) : s2[k].bus \notin F
        /\ \A k \in 1 .. Len(s2) : \E a \in 1 .. n : s[a].bus = s2[k].bus
    BY <1>3, <2>3, <2>5
  <2>9. l2 \notin {"hosts", "hostFunc", "return"}
    BY <1>6, <2>4
  <2>10. OnceInv(m, rep, F, l2, s2, h)
    BY <2>7, <2>8, <2>9, OnceKeeps
  <2> QED
    BY <2>3, <2>4, <2>9, <2>10 DEF GrownBy
<1> QED
  BY <1>4, <1>5, <1>6 DEF Advances

(* Nor when it goes on to another part of the same function. *)
LEMMA OnceRelabelled ==
  ASSUME NEW m, NEW rep, NEW F, NEW l, NEW s, NEW h, OnceInv(m, rep, F, l, s, h),
         NEW l2, l2 \notin {"hosts", "hostFunc"},
         l \in Afterwards => l2 \in Afterwards, l \in Returned => l2 \in Returned
  PROVE  OnceInv(m, rep, F, l2, s, h)
<1>1. \A p \in DOMAIN m : Past(F, l, s, Afterwards, p) => Past(F, l2, s, Afterwards, p)
  BY DEF Past
<1>2. \A p \in DOMAIN m : Past(F, l, s, Returned, p) => Past(F, l2, s, Returned, p)
  BY DEF Past
<1>3. /\ \A j, k \in 1 .. Len(s) : s[j].bus = s[k].bus => j = k
      /\ \A k \in 1 .. Len(s) : s[k].bus \notin F
  BY DEF OnceInv
<1> QED
  BY <1>1, <1>2, <1>3, OnceKeeps

(* Nor in the loops of scan, between two buses. *)
LEMMA OnceBetween ==
  ASSUME NEW m, NEW rep, NEW F, NEW l, NEW h, OnceInv(m, rep, F, l, <<>>, h),
         NEW l2, NEW h2,
         \A b \in Roots(m) : b <= h /\ (l \in {"hosts", "hostFunc"} => b < h) =>
                               b <= h2 /\ (l2 \in {"hosts", "hostFunc"} => b < h2)
  PROVE  OnceInv(m, rep, F, l2, <<>>, h2)
<1>1. Len(<<>>) = 0 /\ 1 .. Len(<<>>) = {}
  OBVIOUS
<1>2. \A L, p : Past(F, l, <<>>, L, p) => Past(F, l2, <<>>, L, p)
  BY <1>1 DEF Past
<1>3. ASSUME NEW b, Reason(m, F, l, <<>>, h, b) PROVE Reason(m, F, l2, <<>>, h2, b)
  BY <1>2, <1>3 DEF Reason
<1>4. \A i \in DOMAIN rep : \E p \in DOMAIN m :
        rep[i].dev = box(p[1], p[2], p[3]) /\ Past(F, l2, <<>>, Afterwards, p)
  BY <1>2 DEF OnceInv
<1>5. \A b \in F : Reason(m, F, l2, <<>>, h2, b)
  BY <1>3 DEF OnceInv
<1> QED
  BY <1>1, <1>4, <1>5 DEF OnceInv

(* A callback is for a function that had none. *)
LEMMA OnceReported ==
  ASSUME NEW m \in Machines, NEW S, NEW rep \in Seq(S), NEW F, NEW s \in Seq(Frame), s # <<>>,
         NEW h, OnceInv(m, rep, F, "hit", s, h), Here(Last(s)) \in DOMAIN m,
         NEW e, e = Entry(m, Here(Last(s))), NEW l2 \in {"display", "bridge"}
  PROVE  OnceInv(m, Append(rep, e), F, l2, s, h)
<1> DEFINE f == Last(s)  p == Here(f)  n == Len(rep)  rep2 == Append(rep, e)
<1>1. n \in Nat /\ DOMAIN rep = 1 .. n
  OBVIOUS
<1>2. /\ DOMAIN rep2 = 1 .. n + 1 /\ rep2[n + 1] = e
      /\ \A i \in 1 .. n : rep2[i] = rep[i]
  OBVIOUS
<1>3. OnceInv(m, rep, F, l2, s, h)
  BY OnceRelabelled DEF Afterwards, Returned
<1>4. ~Past(F, "hit", s, Afterwards, p)
  <2>1. "hit" \notin Afterwards
    BY DEF Afterwards
  <2> QED
    BY <2>1, NotPast DEF OnceInv
<1>5. Len(s) \in 1 .. Len(s) /\ f = s[Len(s)]
  <2>1. Len(s) \in Nat /\ Len(s) > 0 /\ f = s[Len(s)]
    BY Popped
  <2> QED
    BY <2>1
<1>6. Past(F, l2, s, Afterwards, p)
  BY <1>5 DEF Past, Afterwards
<1>7. e.dev = box(p[1], p[2], p[3])
  BY DEF Entry
<1>8. ASSUME NEW i \in 1 .. n PROVE rep[i].dev # e.dev
  <2>1. PICK q \in DOMAIN m : rep[i].dev = box(q[1], q[2], q[3]) /\ Past(F, "hit", s, Afterwards, q)
    BY <1>1 DEF OnceInv
  <2>2. p # q
    BY <1>4, <2>1
  <2> HIDE DEF p
  <2>3. /\ p = <<p[1], p[2], p[3]>> /\ p[1] \in Nat /\ p[1] < 256 /\ p[2] \in Nat
        /\ p[2] < 32 /\ p[3] \in Nat /\ p[3] < 8
    BY PlaceBounds DEF p
  <2>4. /\ q = <<q[1], q[2], q[3]>> /\ q[1] \in Nat /\ q[1] < 256 /\ q[2] \in Nat
        /\ q[2] < 32 /\ q[3] \in Nat /\ q[3] < 8
    BY PlaceBounds
  <2>5. SUFFICES ASSUME box(p[1], p[2], p[3]) = box(q[1], q[2], q[3]) PROVE FALSE
    BY <1>7, <2>1
  <2>6. /\ busOf(box(p[1], p[2], p[3])) = p[1] /\ slotOf(box(p[1], p[2], p[3])) = p[2]
        /\ funcOf(box(p[1], p[2], p[3])) = p[3]
    BY <2>3, Unbox
  <2>7. /\ busOf(box(q[1], q[2], q[3])) = q[1] /\ slotOf(box(q[1], q[2], q[3])) = q[2]
        /\ funcOf(box(q[1], q[2], q[3])) = q[3]
    BY <2>4, Unbox
  <2> QED
    BY <2>2, <2>3, <2>4, <2>5, <2>6, <2>7
<1> HIDE DEF rep2, p, f, n
<1>9. IsInjective(rep2)
  <2>1. \A i, j \in 1 .. n : rep[i] = rep[j] => i = j
    BY <1>1 DEF OnceInv, IsInjective
  <2>2. \A i \in 1 .. n + 1 : i \in 1 .. n \/ i = n + 1
    BY <1>1
  <2>3. ASSUME NEW i \in 1 .. n + 1, NEW j \in 1 .. n + 1, rep2[i] = rep2[j] PROVE i = j
    BY <1>2, <1>8, <2>1, <2>2, <2>3
  <2> QED
    BY <1>2, <2>3 DEF IsInjective
<1>10. \A i \in DOMAIN rep2 : \E q \in DOMAIN m :
         rep2[i].dev = box(q[1], q[2], q[3]) /\ Past(F, l2, s, Afterwards, q)
  <2> TAKE i \in DOMAIN rep2
  <2>1. i \in 1 .. n \/ i = n + 1
    BY <1>1, <1>2
  <2>2. CASE i \in 1 .. n
    BY <1>1, <1>2, <1>3, <2>2 DEF OnceInv
  <2>3. CASE i = n + 1
    BY <1>2, <1>6, <1>7, <2>3 DEF p, f
  <2> QED
    BY <2>1, <2>2, <2>3
<1> QED
  BY <1>3, <1>9, <1>10 DEF OnceInv, rep2

(* A bus is begun that neither was nor is being scanned. *)
LEMMA OnceBegun ==
  ASSUME NEW m, NEW rep, NEW F, NEW l, NEW s \in Seq(Frame), NEW h, OnceInv(m, rep, F, l, s, h),
         NEW h2, \A b \in Roots(m) : b <= h => b <= h2,
         NEW f \in Frame, f.bus \notin F, \A k \in 1 .. Len(s) : s[k].bus # f.bus,
         NEW s2, s2 = Append(s, f), Reason(m, F, "slot", s2, h2, f.bus)
  PROVE  OnceInv(m, rep, F, "slot", s2, h2)
<1> DEFINE n == Len(s)
<1>1. /\ s2 \in Seq(Frame) /\ Len(s2) = n + 1
      /\ \A k \in 1 .. n : s2[k] = s[k]
      /\ s2[n + 1] = f
  <2>1. /\ Append(s, f) \in Seq(Frame) /\ Len(Append(s, f)) = Len(s) + 1
        /\ \A k \in 1 .. Len(s) : Append(s, f)[k] = s[k]
        /\ Append(s, f)[Len(s) + 1] = f
    BY Pushed, Zenon
  <2> QED
    BY <2>1, Zenon
<1>2. n \in Nat /\ \A k \in 1 .. n : k < n + 1 /\ k \in 1 .. n + 1
  OBVIOUS
<1>3. \A k \in 1 .. n + 1 : k \in 1 .. n \/ k = n + 1
  BY <1>2
<1>4. ASSUME NEW L, NEW p, Past(F, l, s, L, p) PROVE Past(F, "slot", s2, L, p)
  <2>1. CASE p[1] \in F
    BY <2>1 DEF Past
  <2>2. CASE p[1] \notin F
    <3>1. PICK k \in 1 .. n : Before(p, s[k]) \/ p = Here(s[k])
      BY <1>4, <2>2 DEF Past
    <3>2. k \in 1 .. Len(s2) /\ k < Len(s2) /\ s2[k] = s[k]
      BY <1>1, <1>2
    <3> QED
      BY <3>1, <3>2 DEF Past
  <2> QED
    BY <2>1, <2>2
<1>5. ASSUME NEW b, Reason(m, F, l, s, h, b) PROVE Reason(m, F, "slot", s2, h2, b)
  <2>1. CASE b \in Roots(m) /\ b <= h
    BY <2>1 DEF Reason
  <2>2. CASE \E q \in DOMAIN m : /\ IsBridge(m[q]) /\ Behind(m[q]) = b
                                 /\ Past(F, l, s, Returned, q)
    BY <1>4, <2>2 DEF Reason
  <2> QED
    BY <1>5, <2>1, <2>2 DEF Reason
<1>6. \A i \in DOMAIN rep : \E p \in DOMAIN m :
        rep[i].dev = box(p[1], p[2], p[3]) /\ Past(F, "slot", s2, Afterwards, p)
  BY <1>4 DEF OnceInv
<1>7. ASSUME NEW j \in 1 .. n + 1, NEW k \in 1 .. n + 1, s2[j].bus = s2[k].bus PROVE j = k
  <2>1. \A a, b \in 1 .. n : s[a].bus = s[b].bus => a = b
    BY DEF OnceInv
  <2> QED
    BY <1>1, <1>3, <1>7, <2>1
<1>8. \A k \in 1 .. n + 1 : s2[k].bus \notin F /\ Reason(m, F, "slot", s2, h2, s2[k].bus)
  BY <1>1, <1>3, <1>5 DEF OnceInv
<1>9. \A b \in F : Reason(m, F, "slot", s2, h2, b)
  BY <1>5 DEF OnceInv
<1> QED
  BY <1>1, <1>6, <1>7, <1>8, <1>9 DEF OnceInv

(* scanFunc begins with the bus behind a bridge: it has no other parent. *)
LEMMA OnceBehind ==
  ASSUME NEW m \in Machines, Tree(m), NEW rep, NEW F, NEW s \in Seq(Frame), s # <<>>, NEW h,
         OnceInv(m, rep, F, "secondary", s, h), Here(Last(s)) \in DOMAIN m,
         IsBridge(m[Here(Last(s))]), NEW b \in 0 .. Buses - 1, b = Behind(m[Here(Last(s))]),
         NEW s2, s2 = ScanBus(s, b).stack
  PROVE  OnceInv(m, rep, F, "slot", s2, h)
<1> DEFINE p == Here(Last(s))  n == Len(s)
<1>1. ~Past(F, "secondary", s, Returned, p)
  <2>1. "secondary" \notin Returned
    BY DEF Returned
  <2> QED
    BY <2>1, NotPast DEF OnceInv
<1>2. ~Reason(m, F, "secondary", s, h, b)
  BY <1>1 DEF Tree, Reason
<1>3. PICK f : f = [bus |-> b, slot |-> 0, func |-> 0]
  OBVIOUS
<1>4. f \in Frame /\ f.bus = b
  BY <1>3, SizesAssumption DEF Frame
<1>5. s2 = Append(s, f)
  BY <1>3 DEF ScanBus, Place
<1>6. f.bus \notin F /\ \A k \in 1 .. n : s[k].bus # f.bus
  BY <1>2, <1>4 DEF OnceInv
<1>7. n \in Nat /\ n > 0 /\ Last(s) = s[n]
  BY Popped
<1>8. Len(s2) = n + 1 /\ s2[n] = s[n]
  <2>0. n \in 1 .. n
    BY <1>7
  <2>1. /\ Len(Append(s, f)) = Len(s) + 1
        /\ \A k \in 1 .. Len(s) : Append(s, f)[k] = s[k]
    BY <1>4, Pushed, Zenon
  <2> QED
    BY <1>5, <2>0, <2>1, Zenon
<1>9. Past(F, "slot", s2, Returned, p)
  <2>1. n \in 1 .. n + 1 /\ n < n + 1
    BY <1>7
  <2> QED
    BY <1>7, <1>8, <2>1 DEF Past
<1>10. Reason(m, F, "slot", s2, h, f.bus)
  BY <1>4, <1>9 DEF Reason
<1> QED
  BY <1>4, <1>5, <1>6, <1>10, OnceBegun

(* scan begins with a root: no bridge leads to it. *)
LEMMA OnceRoot ==
  ASSUME NEW m \in Machines, Tree(m), NEW rep, NEW F, NEW l, NEW h,
         OnceInv(m, rep, F, l, <<>>, h), NEW b \in Roots(m), NEW h2 \in Nat, b <= h2,
         \A r \in Roots(m) : r <= h => r <= h2,
         ~(b <= h /\ (l \in {"hosts", "hostFunc"} => b < h)),
         NEW s2, s2 = ScanBus(<<>>, b).stack
  PROVE  OnceInv(m, rep, F, "slot", s2, h2)
<1>1. ~Reason(m, F, l, <<>>, h, b)
  BY DEF Tree, Reason
<1>2. PICK f : f = [bus |-> b, slot |-> 0, func |-> 0]
  OBVIOUS
<1>3. f \in Frame /\ f.bus = b
  BY <1>2, RootReached, SizesAssumption DEF Frame
<1>4. s2 = Append(<<>>, f)
  BY <1>2 DEF ScanBus, Place
<1>5. f.bus \notin F
  BY <1>1, <1>3 DEF OnceInv
<1>6. PICK e \in Seq(Frame) : e = <<>> /\ 1 .. Len(e) = {}
  <2>1. <<>> \in Seq(Frame) /\ Len(<<>>) = 0 /\ 1 .. 0 = {}
    OBVIOUS
  <2> QED
    BY <2>1, Zenon
<1>7. Reason(m, F, "slot", s2, h2, f.bus)
  BY <1>3 DEF Reason
<1> QED
  BY <1>3, <1>4, <1>5, <1>6, <1>7, OnceBegun, Zenon

-----------------------------------------------------------------------------
(* The loops of scan *)

(* The stack of a scan that begins with a bus. *)
LEMMA RootStack ==
  ASSUME NEW b
  PROVE  LET q == ScanBus(<<>>, b)
         IN  q.at = "slot" /\ q.stack # <<>> /\ q.stack[1].bus = b
<1>1. PICK f : f = [bus |-> b, slot |-> 0, func |-> 0]
  OBVIOUS
<1>2. ScanBus(<<>>, b).at = "slot" /\ ScanBus(<<>>, b).stack = Append(<<>>, f)
  BY <1>1 DEF ScanBus, Place
<1>3. Append(<<>>, f) # <<>> /\ Append(<<>>, f)[1] = f /\ f.bus = b
  BY <1>1
<1> QED
  BY <1>2, <1>3

(* scan goes on between two buses. *)
LEMMA BetweenBuses ==
  ASSUME NEW m, NEW t, NEW R, NEW F, NEW l, NEW md, NEW h,
         ScanInv(m, t, R, F, l, <<>>, md, h), NEW l2, NEW md2, NEW h2,
         HostInv(m, F, l2, <<>>, md2, h2)
  PROVE  ScanInv(m, t, R, F, l2, <<>>, md2, h2)
BY DEF ScanInv

(* One host: its bus is the only root. *)
LEMMA OneHost ==
  ASSUME NEW m \in Machines, NEW t, NEW R, NEW F, NEW md, NEW h,
         ScanInv(m, t, R, F, "hosts", <<>>, md, h),
         <<0, 0, 0>> \in DOMAIN m, m[<<0, 0, 0>>].header < 128
  PROVE  ScanInv(m, t, R, F, "slot", ScanBus(<<>>, 0).stack, md, h)
<1>1. h = 0 /\ md = "one"
  BY DEF ScanInv, HostInv
<1>2. Roots(m) = {0}
  BY DEF Roots
<1>3. PICK s2 : s2 = ScanBus(<<>>, 0).stack /\ s2 # <<>> /\ s2[1].bus = 0
  BY RootStack
<1>4. HostInv(m, F, "slot", s2, md, h)
  BY <1>1, <1>2, <1>3 DEF ScanInv, HostInv
<1> QED
  BY <1>1, <1>2, <1>3, <1>4, RootPushed DEF ScanInv

(* Several hosts, or none. *)
LEMMA SeveralHosts ==
  ASSUME NEW m \in Machines, NEW t, NEW R, NEW F, NEW md, NEW h,
         ScanInv(m, t, R, F, "hosts", <<>>, md, h),
         ~(<<0, 0, 0>> \in DOMAIN m /\ m[<<0, 0, 0>>].header < 128)
  PROVE  ScanInv(m, t, R, F, "hostFunc", <<>>, "hosts", h)
<1>1. h = 0
  BY DEF ScanInv, HostInv
<1>2. <<0, 0, 0>> \in DOMAIN m => Roots(m) = HostChain(m)
  BY DEF Roots, HostChain
<1>3. \A g \in 0 .. 0 - 1 : FALSE
  OBVIOUS
<1>4. h < Funcs
  BY <1>1, SizesAssumption
<1>5. HostInv(m, F, "hostFunc", <<>>, "hosts", h)
  BY <1>1, <1>2, <1>3, <1>4 DEF HostInv, Innermost
<1> QED
  BY <1>5, BetweenBuses

(* The next host is there. *)
LEMMA HostFound ==
  ASSUME NEW m \in Machines, NEW t, NEW R, NEW F, NEW md, NEW h,
         ScanInv(m, t, R, F, "hostFunc", <<>>, md, h), <<0, 0, h>> \in DOMAIN m
  PROVE  /\ ScanInv(m, t, R, F, "slot", ScanBus(<<>>, h).stack, md, h)
         /\ h \in Roots(m) /\ h \in Nat
<1>1. /\ md = "hosts" /\ h \in Nat /\ h < Funcs
      /\ \A g \in 0 .. h - 1 : <<0, 0, g>> \in DOMAIN m
      /\ Roots(m) = HostChain(m)
  BY DEF ScanInv, HostInv
<1>2. h \in Roots(m)
  <2>1. \A g \in 0 .. h : g = h \/ g \in 0 .. h - 1
    BY <1>1
  <2>2. h \in 0 .. Funcs - 1
    BY <1>1, SizesAssumption
  <2> QED
    BY <1>1, <2>1, <2>2 DEF HostChain
<1>3. PICK s2 : s2 = ScanBus(<<>>, h).stack /\ s2 # <<>> /\ s2[1].bus = h
  BY RootStack
<1>4. HostInv(m, F, "slot", s2, md, h)
  BY <1>1, <1>2, <1>3 DEF ScanInv, HostInv
<1> QED
  BY <1>1, <1>2, <1>3, <1>4, RootPushed DEF ScanInv

(* The chain of hosts ends before a function that is missing. *)
LEMMA HostsEnd ==
  ASSUME NEW m \in Machines, NEW t, NEW R, NEW F, NEW md, NEW h,
         ScanInv(m, t, R, F, "hostFunc", <<>>, md, h), <<0, 0, h>> \notin DOMAIN m, h > 0
  PROVE  ScanInv(m, t, R, F, "done", <<>>, md, h)
<1>1. /\ md = "hosts" /\ h \in Nat /\ Roots(m) = HostChain(m)
      /\ \A r \in 0 .. h - 1 : r \in F
  BY DEF ScanInv, HostInv
<1>2. ASSUME NEW r \in HostChain(m) PROVE r \in F
  <2>1. r \in 0 .. Funcs - 1 /\ \A g \in 0 .. r : <<0, 0, g>> \in DOMAIN m
    BY DEF HostChain
  <2>2. h \notin 0 .. r
    BY <2>1
  <2>3. r \in 0 .. h - 1
    BY <1>1, <2>1, <2>2, SizesAssumption
  <2> QED
    BY <1>1, <2>3
<1>3. HostInv(m, F, "done", <<>>, md, h)
  BY <1>1, <1>2 DEF HostInv, Innermost
<1> QED
  BY <1>3, BetweenBuses

(* Without a host every bus is a root. *)
LEMMA NoHost ==
  ASSUME NEW m \in Machines, NEW t, NEW R, NEW F, NEW md, NEW h,
         ScanInv(m, t, R, F, "hostFunc", <<>>, md, h), <<0, 0, h>> \notin DOMAIN m, ~(h > 0)
  PROVE  /\ ScanInv(m, t, R, F, "slot", ScanBus(<<>>, 0).stack, "all", h)
         /\ h = 0 /\ h \in Roots(m)
<1>1. h = 0
  BY DEF ScanInv, HostInv
<1>2. Roots(m) = 0 .. Buses - 1 /\ 0 \in Roots(m)
  BY <1>1, SizesAssumption DEF Roots
<1>3. PICK s2 : s2 = ScanBus(<<>>, 0).stack /\ s2 # <<>> /\ s2[1].bus = 0
  BY RootStack
<1>4. HostInv(m, F, "slot", s2, "all", h)
  BY <1>1, <1>2, <1>3 DEF ScanInv, HostInv
<1> QED
  BY <1>1, <1>2, <1>3, <1>4, RootPushed DEF ScanInv

(* The bus of a root is done: the next root, or the end. *)
LEMMA RootDone ==
  ASSUME NEW m \in Machines, NEW t, NEW R, NEW F, NEW md, NEW h,
         ScanInv(m, t, R, F, "return", <<>>, md, h)
  PROVE  /\ md = "one" => ScanInv(m, t, R, F, "done", <<>>, md, h)
         /\ md = "hosts" /\ h + 1 < Funcs =>
              ScanInv(m, t, R, F, "hostFunc", <<>>, md, h + 1)
         /\ md = "all" /\ h + 1 < Buses =>
              /\ ScanInv(m, t, R, F, "slot", ScanBus(<<>>, h + 1).stack, md, h + 1)
              /\ h + 1 \in Roots(m)
         /\ (md = "hosts" /\ ~(h + 1 < Funcs)) \/ (md = "all" /\ ~(h + 1 < Buses)) =>
              ScanInv(m, t, R, F, "done", <<>>, md, h + 1)
         /\ h \in Nat /\ md \in {"one", "hosts", "all"}
<1>1. /\ h \in Nat /\ h \in F /\ h \in Roots(m) /\ \A r \in 0 .. h - 1 : r \in F
      /\ md \in {"one", "hosts", "all"}
      /\ md = "one" => h = 0 /\ Roots(m) = {0}
      /\ md = "hosts" => Roots(m) = HostChain(m)
      /\ md = "all" => Roots(m) = 0 .. Buses - 1
  BY DEF ScanInv, HostInv
<1>2. PICK k \in Nat : k = h + 1
  BY <1>1
<1>3. \A r \in 0 .. k - 1 : r \in F
  <2>1. \A r \in 0 .. k - 1 : r = h \/ r \in 0 .. h - 1
    BY <1>1, <1>2
  <2> QED
    BY <1>1, <2>1
<1>4. ASSUME md = "one" PROVE ScanInv(m, t, R, F, "done", <<>>, md, h)
  <2>1. HostInv(m, F, "done", <<>>, md, h)
    BY <1>1, <1>4 DEF HostInv, Innermost
  <2> QED
    BY <2>1, BetweenBuses
<1>5. ASSUME md = "hosts", k < Funcs PROVE ScanInv(m, t, R, F, "hostFunc", <<>>, md, k)
  <2>1. \A g \in 0 .. h : <<0, 0, g>> \in DOMAIN m
    BY <1>1, <1>5 DEF HostChain
  <2>2. \A g \in 0 .. k - 1 : g \in 0 .. h
    BY <1>1, <1>2
  <2>3. HostInv(m, F, "hostFunc", <<>>, md, k)
    BY <1>1, <1>3, <1>5, <2>1, <2>2 DEF HostInv, Innermost
  <2> QED
    BY <2>3, BetweenBuses
<1>6. ASSUME md = "all", k < Buses
      PROVE  ScanInv(m, t, R, F, "slot", ScanBus(<<>>, k).stack, md, k) /\ k \in Roots(m)
  <2>1. k \in Roots(m)
    BY <1>1, <1>6, SizesAssumption
  <2>2. PICK s2 : s2 = ScanBus(<<>>, k).stack /\ s2 # <<>> /\ s2[1].bus = k
    BY RootStack
  <2>3. HostInv(m, F, "slot", s2, md, k)
    BY <1>1, <1>3, <1>6, <2>1, <2>2 DEF HostInv
  <2> QED
    BY <2>1, <2>2, <2>3, RootPushed DEF ScanInv
<1>7. ASSUME (md = "hosts" /\ ~(k < Funcs)) \/ (md = "all" /\ ~(k < Buses))
      PROVE  ScanInv(m, t, R, F, "done", <<>>, md, k)
  <2>1. Roots(m) \subseteq 0 .. k - 1
    <3>1. CASE md = "hosts" /\ ~(k < Funcs)
      <4>1. 0 .. Funcs - 1 \subseteq 0 .. k - 1
        BY <1>2, <3>1, SizesAssumption
      <4> QED
        BY <1>1, <3>1, <4>1 DEF HostChain
    <3>2. CASE md = "all" /\ ~(k < Buses)
      <4>1. 0 .. Buses - 1 \subseteq 0 .. k - 1
        BY <1>2, <3>2, SizesAssumption
      <4> QED
        BY <1>1, <3>2, <4>1
    <3> QED
      BY <1>7, <3>1, <3>2
  <2>2. Roots(m) \subseteq F
    BY <1>3, <2>1
  <2>3. HostInv(m, F, "done", <<>>, md, k)
    BY <1>1, <1>3, <1>7, <2>2 DEF HostInv, Innermost
  <2> QED
    BY <2>3, BetweenBuses
<1> QED
  BY <1>1, <1>2, <1>4, <1>5, <1>6, <1>7

-----------------------------------------------------------------------------
(* The picture *)

(* A product does not shrink with a factor. *)
LEMMA Multiplied ==
  ASSUME NEW a \in Nat, NEW b \in Nat, a <= b, NEW x \in Nat
  PROVE  a * x \in Nat /\ b * x \in Nat /\ a * x <= b * x
<1>1. PICK d \in Nat : b = a + d
  <2>1. b - a \in Nat /\ b = a + (b - a)
    OBVIOUS
  <2> QED
    BY <2>1
<1>2. b * x = a * x + d * x /\ a * x \in Nat /\ d * x \in Nat
  BY <1>1
<1> QED
  BY <1>2

(* The rows of a picture follow each other without a gap. *)
LEMMA Rows ==
  ASSUME NEW x \in Nat, NEW y \in Nat
  PROVE  /\ \A i \in 0 .. x - 1, j \in 0 .. y - 1 : i + j * x \in 0 .. x * y - 1
         /\ \A k \in 0 .. x * y - 1 :
              \E i \in 0 .. x - 1, j \in 0 .. y - 1 : k = i + j * x
<1>0. x * y = y * x /\ x * y \in Nat
  OBVIOUS
<1>1. ASSUME NEW i \in 0 .. x - 1, NEW j \in 0 .. y - 1
      PROVE  i + j * x \in 0 .. x * y - 1
  <2>1. (j + 1) * x <= y * x /\ (j + 1) * x = j * x + x /\ j * x \in Nat
    <3>1. j \in Nat /\ j + 1 \in Nat /\ j + 1 <= y
      OBVIOUS
    <3>2. (j + 1) * x <= y * x
      BY <3>1, Multiplied
    <3> QED
      BY <3>1, <3>2
  <2> QED
    BY <1>0, <2>1
<1>2. ASSUME NEW k \in 0 .. x * y - 1
      PROVE  \E i \in 0 .. x - 1, j \in 0 .. y - 1 : k = i + j * x
  <2>1. x > 0 /\ k \in Nat /\ k < y * x
    <3>1. k \in Nat /\ k < x * y
      BY <1>0
    <3>2. x # 0
      BY <3>1
    <3> QED
      BY <1>0, <3>1, <3>2
  <2>2. PICK i, j : i = k % x /\ j = k \div x
    OBVIOUS
  <2>3. i \in 0 .. x - 1 /\ j \in Nat /\ k = i + j * x
    BY <2>1, <2>2
  <2>4. j < y
    <3>1. SUFFICES ASSUME y <= j PROVE FALSE
      BY <2>3
    <3>2. y * x <= j * x /\ j * x \in Nat
      BY <2>3, <3>1, Multiplied
    <3> QED
      BY <1>0, <2>1, <2>3, <3>2
  <2> QED
    BY <2>3, <2>4
<1> QED
  BY <1>1, <1>2

Stored(b, x, y) == {b + 4 * (i + j * x) : i \in 0 .. x - 1, j \in 0 .. y - 1}

(* The loops over the rows and columns store to each pixel of the picture. *)
LEMMA Pixels ==
  ASSUME NEW b \in Int, NEW x \in Nat, NEW y \in Nat
  PROVE  Stored(b, x, y) = {b + 4 * k : k \in 0 .. x * y - 1}
<1>1. /\ \A i \in 0 .. x - 1, j \in 0 .. y - 1 : i + j * x \in 0 .. x * y - 1
      /\ \A k \in 0 .. x * y - 1 :
           \E i \in 0 .. x - 1, j \in 0 .. y - 1 : k = i + j * x
  BY Rows
<1> DEFINE A == Stored(b, x, y)
           B == {b + 4 * k : k \in 0 .. x * y - 1}
<1>2. ASSUME NEW v \in A PROVE v \in B
  <2>1. PICK i \in 0 .. x - 1, j \in 0 .. y - 1 : v = b + 4 * (i + j * x)
    BY DEF Stored
  <2>2. PICK k \in 0 .. x * y - 1 : k = i + j * x
    BY <1>1
  <2> QED
    BY <2>1, <2>2
<1>3. ASSUME NEW v \in B PROVE v \in A
  <2>1. PICK k \in 0 .. x * y - 1 : v = b + 4 * k
    OBVIOUS
  <2>2. PICK i \in 0 .. x - 1, j \in 0 .. y - 1 : k = i + j * x
    BY <1>1
  <2> QED
    BY <2>1, <2>2 DEF Stored
<1>4. A = B
  <2> HIDE DEF A, B
  <2> QED
    BY <1>2, <1>3
<1> QED
  BY <1>4

(* The registers of the one display hold its resolution. *)
LEMMA Resolution ==
  ASSUME machine \in Machines, OneDisplay(machine), NEW p \in DOMAIN machine,
         machine[p].screen # <<>>, Flagless(machine[p]), NEW r \in {XRes, YRes}
  PROVE  Mmio(addrOf(machine[p].bar2, r)) = machine[p].screen[r]
<1> DEFINE d == machine[p]
<1>1. d.bar2 \in Nat /\ DOMAIN d.screen = {XRes, YRes, BPP} /\ r \in Nat
  BY DEF OneDisplay, XRes, YRes
<1>2. PICK a : a = addrOf(d.bar2, r)
  OBVIOUS
<1>3. a = d.bar2 + 1280 + 2 * r
  BY <1>2 DEF addrOf
<1>4. BaseOf(d.bar2) = d.bar2
  BY <1>1 DEF Flagless, BaseOf
<1>5. BaseOf(d.bar2) \in 0 .. a - 1280 /\ (a - 1280 - BaseOf(d.bar2)) \div 2 = r
  <2>1. PICK v \in Nat : v = d.bar2
    BY <1>1
  <2>2. v \in 0 .. a - 1280 /\ (a - 1280 - v) \div 2 = r
    BY <1>1, <1>3, <2>1
  <2> QED
    BY <1>4, <2>1, <2>2
<1>6. Displays(a) = {p}
  <2>1. p \in Displays(a)
    BY <1>5 DEF Displays
  <2>2. \A q \in Displays(a) : q = p
    BY DEF Displays, OneDisplay
  <2> QED
    BY <2>1, <2>2
<1>7. Answering(a) = d /\ Displays(a) # {}
  <2>1. (CHOOSE q \in Displays(a) : TRUE) = p
    BY <1>6
  <2> QED
    BY <1>6, <2>1, Zenon DEF Answering
<1>8. Mmio(a) = IF ((a - 1280 - BaseOf(d.bar2)) \div 2) \in DOMAIN d.screen
                THEN d.screen[(a - 1280 - BaseOf(d.bar2)) \div 2] ELSE 0
  BY <1>7, SMT DEF Mmio
<1>9. Mmio(a) = d.screen[r]
  BY <1>1, <1>5, <1>8
<1> QED
  BY <1>2, <1>9

(* A callback that paints does so before the scan goes on. *)
LEMMA PaintLater ==
  ASSUME NEW m, NEW R, NEW l, l # "display", NEW pt, PaintInv(m, R, l, pt), NEW l2
  PROVE  PaintInv(m, R, l2, pt)
BY DEF PaintInv

(* Two functions have different entries. *)
LEMMA EntriesDiffer ==
  ASSUME NEW m \in Machines, NEW p \in DOMAIN m, NEW q \in DOMAIN m, Entry(m, p) = Entry(m, q)
  PROVE  p = q
<1>1. box(p[1], p[2], p[3]) = box(q[1], q[2], q[3])
  <2>1. Entry(m, p).dev = box(p[1], p[2], p[3]) /\ Entry(m, q).dev = box(q[1], q[2], q[3])
    BY DEF Entry
  <2> QED
    BY <2>1
<1>2. /\ p = <<p[1], p[2], p[3]>> /\ p[1] \in Nat /\ p[1] < 256 /\ p[2] \in Nat
      /\ p[2] < 32 /\ p[3] \in Nat /\ p[3] < 8
  BY PlaceBounds
<1>3. /\ q = <<q[1], q[2], q[3]>> /\ q[1] \in Nat /\ q[1] < 256 /\ q[2] \in Nat
      /\ q[2] < 32 /\ q[3] \in Nat /\ q[3] < 8
  BY PlaceBounds
<1>4. /\ busOf(box(p[1], p[2], p[3])) = p[1] /\ slotOf(box(p[1], p[2], p[3])) = p[2]
      /\ funcOf(box(p[1], p[2], p[3])) = p[3]
  BY <1>2, Unbox
<1>5. /\ busOf(box(q[1], q[2], q[3])) = q[1] /\ slotOf(box(q[1], q[2], q[3])) = q[2]
      /\ funcOf(box(q[1], q[2], q[3])) = q[3]
  BY <1>3, Unbox
<1> QED
  BY <1>1, <1>2, <1>3, <1>4, <1>5

(* The callback for the display leads to its painting. *)
LEMMA PaintReported ==
  ASSUME NEW m \in Machines, OneDisplay(m), NEW R, NEW pt, PaintInv(m, R, "hit", pt),
         NEW p \in DOMAIN m, NEW R2, R2 = R \union {Entry(m, p)}, NEW l2,
         l2 = IF IsBochs(m[p].vendor, m[p].device) THEN "display" ELSE "bridge"
  PROVE  PaintInv(m, R2, l2, pt)
<1> SUFFICES ASSUME NEW q \in DOMAIN m, m[q].screen # <<>>, Flagless(m[q])
             PROVE  /\ pt \subseteq Picture(m[q])
                    /\ Entry(m, q) \in R2 /\ l2 # "display" => pt = Picture(m[q])
  BY DEF PaintInv
<1>1. q = p => l2 = "display"
  BY DEF OneDisplay
<1>2. q # p => Entry(m, q) # Entry(m, p)
  BY EntriesDiffer
<1> QED
  BY <1>1, <1>2 DEF PaintInv

(* The whole picture is painted, by a display whose address registers have *)
(* no flag bits.                                                           *)
LEMMA PaintDone ==
  ASSUME machine \in Machines, OneDisplay(machine), NEW R, NEW pt,
         PaintInv(machine, R, "display", pt), NEW p \in DOMAIN machine,
         IsBochs(machine[p].vendor, machine[p].device),
         NEW x, x = Mmio(addrOf(machine[p].bar2, XRes)),
         NEW y, y = Mmio(addrOf(machine[p].bar2, YRes)),
         NEW pt2, pt2 = pt \union Stored(machine[p].bar0, x, y)
  PROVE  PaintInv(machine, R, "bridge", pt2)
<1> DEFINE d == machine[p]
<1>1. d.screen # <<>> /\ d.screen[XRes] \in Nat /\ d.screen[YRes] \in Nat
  BY DEF OneDisplay
<1>2. \A q \in DOMAIN machine : machine[q].screen # <<>> => q = p
  BY <1>1 DEF OneDisplay
<1>3. CASE ~Flagless(d)
  BY <1>2, <1>3 DEF PaintInv
<1> SUFFICES ASSUME Flagless(d) PROVE PaintInv(machine, R, "bridge", pt2)
  BY <1>3
<1>4. x = d.screen[XRes] /\ y = d.screen[YRes]
  BY <1>1, Resolution
<1>5. d.bar0 \in Int
  <2>1. d.bar0 \in Long
    BY MachinesAssumption
  <2> QED
    BY <2>1, SMT DEF Long
<1>6. Stored(d.bar0, x, y) = Picture(d)
  <2>1. PICK b \in Int : b = d.bar0
    BY <1>5
  <2>2. Stored(b, x, y) = {b + 4 * k : k \in 0 .. x * y - 1}
    <3>1. x \in Nat /\ y \in Nat
      BY <1>1, <1>4
    <3> QED
      BY <3>1, Pixels, Zenon
  <2>3. Picture(d) = {b + 4 * k : k \in 0 .. x * y - 1}
    BY <1>4, <2>1 DEF Picture
  <2> QED
    BY <2>1, <2>2, <2>3
<1>7. pt \subseteq Picture(d)
  BY <1>1 DEF PaintInv
<1>8. pt2 = Picture(d)
  BY <1>6, <1>7
<1> QED
  BY <1>2, <1>8 DEF PaintInv

-----------------------------------------------------------------------------
(* The reads *)

(* What each part of the scan reads. *)
LEMMA ReadsAre ==
  /\ DOMAIN Reads = Innermost \union {"hosts", "hostFunc"}
  /\ \A l \in {"hosts", "header"} : Reads[l] = <<<<HeaderType, 1>>>>
  /\ \A l \in {"hostFunc", "slot", "func"} : Reads[l] = <<<<VendorID, 2>>>>
  /\ \A l \in {"filter", "bridge"} : Reads[l] = <<<<Class, 1>>, <<Subclass, 1>>>>
  /\ Reads["hit"] = <<<<VendorID, 2>>, <<DeviceID, 2>>>>
  /\ Reads["display"] = <<<<Bar0, 4>>, <<Bar2, 4>>, <<Bar2, 4>>, <<Bar2, 4>>>>
  /\ Reads["secondary"] = <<<<SecondaryBus, 1>>>>
  /\ \A l \in DOMAIN Reads : Len(Reads[l]) \in Nat
<1>1. DOMAIN Reads = Innermost \union {"hosts", "hostFunc"}
  BY DEF Reads, Innermost
<1>2. \A l \in {"hosts", "header"} : Reads[l] = <<<<HeaderType, 1>>>>
  BY DEF Reads
<1>3. \A l \in {"hostFunc", "slot", "func"} : Reads[l] = <<<<VendorID, 2>>>>
  BY DEF Reads
<1>4. \A l \in {"filter", "bridge"} : Reads[l] = <<<<Class, 1>>, <<Subclass, 1>>>>
  BY DEF Reads
<1>5. Reads["hit"] = <<<<VendorID, 2>>, <<DeviceID, 2>>>>
  BY DEF Reads
<1>6. Reads["display"] = <<<<Bar0, 4>>, <<Bar2, 4>>, <<Bar2, 4>>, <<Bar2, 4>>>>
  BY DEF Reads
<1>7. Reads["secondary"] = <<<<SecondaryBus, 1>>>>
  BY DEF Reads
<1>8. \A l \in DOMAIN Reads : Len(Reads[l]) \in Nat
  BY <1>1, <1>2, <1>3, <1>4, <1>5, <1>6, <1>7 DEF Innermost
<1> QED
  BY <1>1, <1>2, <1>3, <1>4, <1>5, <1>6, <1>7, <1>8

(* The function that is asked. *)
Asked(c) == IF at[c] = "hosts" THEN <<0, 0, 0>>
            ELSE IF at[c] = "hostFunc" THEN <<0, 0, host[c]>> ELSE Here(Last(stack[c]))

(* Its device number is the one readField takes. *)
LEMMA DeviceAsked ==
  ASSUME NEW c
  PROVE  Device(c) = box(Asked(c)[1], Asked(c)[2], Asked(c)[3])
BY DEF Device, Asked, Here

(* It has a place on the buses. *)
LEMMA AskedPlace ==
  ASSUME NEW c, NEW F, at[c] \in DOMAIN Reads,
         LoopInv(machine, type[c], reported[c], F, at[c], stack[c], mode[c], host[c],
                 painted[c])
  PROVE  Asked(c) \in Place3
<1>1. HostInv(machine, F, at[c], stack[c], mode[c], host[c]) /\ stack[c] \in Seq(Frame)
  BY DEF LoopInv, ScanInv, StackInv
<1>2. 0 \in 0 .. Buses - 1 /\ 0 \in 0 .. Slots - 1 /\ 0 \in 0 .. Funcs - 1
  BY SizesAssumption
<1>3. CASE at[c] = "hosts"
  BY <1>2, <1>3 DEF Asked, Place3
<1>4. CASE at[c] = "hostFunc"
  <2>1. host[c] \in Nat /\ host[c] < Funcs
    BY <1>1, <1>4 DEF HostInv
  <2>2. host[c] \in 0 .. Funcs - 1
    BY <2>1, SizesAssumption
  <2> QED
    BY <1>2, <1>4, <2>2 DEF Asked, Place3
<1>5. CASE at[c] \notin {"hosts", "hostFunc"}
  <2>1. stack[c] # <<>>
    BY <1>1, <1>5, ReadsAre DEF HostInv
  <2>2. Last(stack[c]) \in Frame
    BY <1>1, <2>1, Popped
  <2> QED
    BY <1>5, <2>2 DEF Asked, Here, Place3, Frame
<1> QED
  BY <1>3, <1>4, <1>5

(* When a part of the scan goes on, its reads are done. *)
LEMMA AllRead ==
  ASSUME NEW c, ReadInv(c), NEW l \in DOMAIN Reads, Read(c, l)
  PROVE  /\ ~written[c] /\ at[c] = l
         /\ \A i \in 1 .. Len(Reads[l]) :
              got[c][i] = ValueOf(Asked(c), Reads[l][i][1], Reads[l][i][2])
<1>1. at[c] = l /\ Len(got[c]) = Len(Reads[l]) /\ Len(Reads[l]) \in Nat
  BY ReadsAre DEF Read
<1>2. ~written[c]
  BY <1>1 DEF ReadInv, Reading
<1>3. \A i \in 1 .. Len(got[c]) :
        got[c][i] = Answer(c, Reads[l][i])
  BY <1>1 DEF ReadInv
<1>4. \A r : Answer(c, r) = ValueOf(Asked(c), r[1], r[2])
  BY DeviceAsked DEF ValueOf, Answer
<1> QED
  BY <1>1, <1>2, <1>3, <1>4

(* The values of a function that is there. *)
LEMMA ReadPresent ==
  ASSUME NEW c, ReadInv(c), NEW l \in DOMAIN Reads, Read(c, l), machine \in Machines,
         NEW p \in DOMAIN machine, p = Asked(c)
  PROVE  /\ l \in {"hosts", "header"} => got[c][1] = machine[p].header
         /\ l \in {"hostFunc", "slot", "func"} => got[c][1] = machine[p].vendor
         /\ l \in {"filter", "bridge"} =>
              got[c][1] = machine[p].class /\ got[c][2] = machine[p].subclass
         /\ l = "hit" => got[c][1] = machine[p].vendor /\ got[c][2] = machine[p].device
         /\ l = "display" => /\ got[c][1] = machine[p].bar0
                             /\ got[c][2] = machine[p].bar2 /\ got[c][3] = machine[p].bar2
         /\ l = "secondary" => got[c][1] = Behind(machine[p])
<1>1. \A i \in 1 .. Len(Reads[l]) : got[c][i] = ValueOf(p, Reads[l][i][1], Reads[l][i][2])
  BY AllRead
<1>2. /\ ValueOf(p, VendorID, 2) = machine[p].vendor
      /\ ValueOf(p, DeviceID, 2) = machine[p].device
      /\ ValueOf(p, Class, 1) = machine[p].class
      /\ ValueOf(p, Subclass, 1) = machine[p].subclass
      /\ ValueOf(p, HeaderType, 1) = machine[p].header
      /\ ValueOf(p, Bar0, 4) = machine[p].bar0
      /\ ValueOf(p, Bar2, 4) = machine[p].bar2
      /\ ValueOf(p, SecondaryBus, 1) = Behind(machine[p])
  BY ValuesRead
<1>3. ASSUME l \in {"hosts", "header"} PROVE got[c][1] = machine[p].header
  <2>1. Reads[l] = <<<<HeaderType, 1>>>>
    BY <1>3, ReadsAre
  <2> QED
    BY <1>1, <1>2, <2>1
<1>4. ASSUME l \in {"hostFunc", "slot", "func"} PROVE got[c][1] = machine[p].vendor
  <2>1. Reads[l] = <<<<VendorID, 2>>>>
    BY <1>4, ReadsAre
  <2> QED
    BY <1>1, <1>2, <2>1
<1>5. ASSUME l \in {"filter", "bridge"}
      PROVE  got[c][1] = machine[p].class /\ got[c][2] = machine[p].subclass
  <2>1. Reads[l] = <<<<Class, 1>>, <<Subclass, 1>>>>
    BY <1>5, ReadsAre
  <2> QED
    BY <1>1, <1>2, <2>1
<1>6. ASSUME l = "hit"
      PROVE  got[c][1] = machine[p].vendor /\ got[c][2] = machine[p].device
  BY <1>1, <1>2, <1>6, ReadsAre
<1>7. ASSUME l = "display"
      PROVE  /\ got[c][1] = machine[p].bar0
             /\ got[c][2] = machine[p].bar2 /\ got[c][3] = machine[p].bar2
  BY <1>1, <1>2, <1>7, ReadsAre
<1>8. ASSUME l = "secondary" PROVE got[c][1] = Behind(machine[p])
  BY <1>1, <1>2, <1>8, ReadsAre
<1> QED
  BY <1>3, <1>4, <1>5, <1>6, <1>7, <1>8

(* And where there is none. *)
LEMMA ReadAbsent ==
  ASSUME NEW c, ReadInv(c), NEW l \in DOMAIN Reads, Read(c, l),
         NEW p \in Place3, p \notin DOMAIN machine, p = Asked(c)
  PROVE  /\ l = "hosts" => got[c][1] = 255
         /\ l \in {"hostFunc", "slot", "func"} => got[c][1] = PCINull
<1>1. \A i \in 1 .. Len(Reads[l]) : got[c][i] = ValueOf(p, Reads[l][i][1], Reads[l][i][2])
  BY AllRead
<1>2. ValueOf(p, VendorID, 2) = PCINull /\ ValueOf(p, HeaderType, 1) = 255
  BY AbsentRead
<1>3. ASSUME l = "hosts" PROVE got[c][1] = 255
  <2>1. Reads[l] = <<<<HeaderType, 1>>>>
    BY <1>3, ReadsAre
  <2> QED
    BY <1>1, <1>2, <2>1
<1>4. ASSUME l \in {"hostFunc", "slot", "func"} PROVE got[c][1] = PCINull
  <2>1. Reads[l] = <<<<VendorID, 2>>>>
    BY <1>4, ReadsAre
  <2> QED
    BY <1>1, <1>2, <2>1
<1> QED
  BY <1>3, <1>4

(* The value port does not change with the variables of the kernel. *)
LEMMA SameAnswers ==
  ASSUME NEW c, machine' = machine, Device(c)' = Device(c), NEW r
  PROVE  Answer(c, r)' = Answer(c, r)
<1>1. ASSUME NEW a, NEW k, NEW n PROVE in(a, k, n)' = in(a, k, n)
  BY DEF in, DataPort
<1> QED
  BY <1>1 DEF Answer

(* The address out. *)
LEMMA AddressOut ==
  ASSUME NEW c, Typed(c), AllInv(c), WriteAddress(c)
  PROVE  Typed(c)' /\ AllInv(c)'
<1>1. /\ machine' = machine /\ type' = type /\ at' = at /\ got' = got /\ stack' = stack
      /\ mode' = mode /\ host' = host /\ reported' = reported /\ painted' = painted
      /\ Reading(c) /\ port' = addressOf(Device(c), Field(c)[1])
      /\ written' = [written EXCEPT ![c] = TRUE]
  BY DEF WriteAddress
<1>2. Typed(c)'
  BY <1>1 DEF Typed
<1>3. Device(c)' = Device(c) /\ Field(c)' = Field(c) /\ Reading(c)' = Reading(c)
  BY <1>1 DEF Device, Field, Reading
<1>4. \A r : Answer(c, r)' = Answer(c, r)
  BY <1>1, <1>3, SameAnswers
<1>5. ReadInv(c)'
  <2>1. /\ at[c] \in DOMAIN Reads /\ Len(got[c]) <= Len(Reads[at[c]])
        /\ \A i \in 1 .. Len(got[c]) : got[c][i] = Answer(c, Reads[at[c]][i])
    BY <1>1 DEF AllInv, ReadInv, Reading
  <2> QED
    BY <1>1, <1>3, <1>4, <2>1, Zenon DEF ReadInv
<1> QED
  BY <1>1, <1>2, <1>5 DEF AllInv

(* The value in. *)
LEMMA ValueIn ==
  ASSUME NEW c, Typed(c), AllInv(c), ReadValue(c)
  PROVE  Typed(c)' /\ AllInv(c)'
<1>1. /\ machine' = machine /\ type' = type /\ at' = at /\ stack' = stack /\ port' = port
      /\ mode' = mode /\ host' = host /\ reported' = reported /\ painted' = painted
      /\ Reading(c) /\ written[c] /\ written' = [written EXCEPT ![c] = FALSE]
      /\ got' = [got EXCEPT ![c] = Append(@, in(port, Field(c)[1], Field(c)[2]))]
  BY DEF ReadValue
<1>2. PICK v : v = in(port, Field(c)[1], Field(c)[2])
  OBVIOUS
<1>3. got' = [got EXCEPT ![c] = Append(got[c], v)]
  BY <1>1, <1>2
<1>4. got'[c] = Append(got[c], v) /\ ~written'[c] /\ c \in DOMAIN got' /\ c \in DOMAIN written'
  BY <1>1, <1>3 DEF Typed
<1>5. PICK V : got[c] \in Seq(V)
  BY DEF Typed
<1>6. PICK W : W = V \union {v}
  OBVIOUS
<1>7. got[c] \in Seq(W) /\ v \in W
  BY <1>5, <1>6
<1> DEFINE n == Len(got[c])
<1>8. /\ got'[c] \in Seq(W) /\ Len(got'[c]) = n + 1 /\ n \in Nat
      /\ got'[c][n + 1] = v /\ \A i \in 1 .. n : got'[c][i] = got[c][i]
  BY <1>4, <1>7
<1>9. Typed(c)'
  BY <1>1, <1>4, <1>8 DEF Typed
<1>10. Device(c)' = Device(c)
  BY <1>1 DEF Device
<1>11. \A r : Answer(c, r)' = Answer(c, r)
  BY <1>1, <1>10, SameAnswers
<1>12. /\ at[c] \in DOMAIN Reads /\ n < Len(Reads[at[c]])
       /\ \A i \in 1 .. n : got[c][i] = Answer(c, Reads[at[c]][i])
       /\ port = addressOf(Device(c), Field(c)[1])
  BY <1>1 DEF AllInv, ReadInv, Reading
<1>13. v = Answer(c, Reads[at[c]][n + 1])
  BY <1>2, <1>12 DEF Answer, Field
<1>14. Len(Reads[at[c]]) \in Nat
  BY <1>12, ReadsAre
<1> HIDE DEF n
<1>15. \A i \in 1 .. n + 1 : got'[c][i] = Answer(c, Reads[at[c]][i])
  <2>1. \A i \in 1 .. n + 1 : i \in 1 .. n \/ i = n + 1
    BY <1>8
  <2> QED
    BY <1>8, <1>12, <1>13, <2>1, Zenon
<1>16. ReadInv(c)'
  <2>1. n + 1 <= Len(Reads[at[c]])
    BY <1>8, <1>12, <1>14
  <2>2. at'[c] = at[c] /\ Len(got'[c]) = n + 1
    BY <1>1, <1>8
  <2>3. \A i \in 1 .. n + 1 : got'[c][i] = Answer(c, Reads[at[c]][i])'
    BY <1>1, <1>11, <1>15, Zenon
  <2> QED
    BY <1>1, <1>4, <1>8, <1>12, <2>1, <2>2, <2>3, Zenon DEF ReadInv
<1> QED
  BY <1>1, <1>9, <1>16 DEF AllInv

-----------------------------------------------------------------------------
(* One lemma for each action *)

(* The scan goes on: what has been read is forgotten. *)
LEMMA Arrives ==
  ASSUME NEW c, Typed(c), ~written[c], NEW q, GoTo(c, q),
         c \in DOMAIN mode', c \in DOMAIN host', c \in DOMAIN reported', c \in DOMAIN painted',
         NEW V, reported'[c] \in Seq(V), NEW F,
         LoopInv(machine, type[c], reported'[c], F, q.at, q.stack, mode'[c], host'[c],
                 painted'[c])
  PROVE  Typed(c)' /\ AllInv(c)'
<1>1. /\ machine' = machine /\ type' = type /\ written' = written /\ port' = port
      /\ at'[c] = q.at /\ stack'[c] = q.stack /\ got'[c] = <<>>
      /\ c \in DOMAIN at' /\ c \in DOMAIN stack' /\ c \in DOMAIN got'
  BY DEF GoTo, Typed
<1>2. got'[c] \in Seq({}) /\ Len(got'[c]) = 0
  BY <1>1
<1>3. Typed(c)'
  BY <1>1, <1>2 DEF Typed
<1>4. ReadInv(c)'
  <2>1. \A i \in 1 .. 0 : FALSE
    OBVIOUS
  <2>2. at'[c] \in DOMAIN Reads => 0 <= Len(Reads[at'[c]])
    BY ReadsAre
  <2> QED
    BY <1>1, <1>2, <2>1, <2>2 DEF ReadInv
<1>5. F \subseteq 0 .. Buses - 1
  BY DEF LoopInv, ScanInv, Finished, Reached
<1> QED
  BY <1>1, <1>3, <1>4, <1>5 DEF AllInv

(* Most parts of the scan leave the hosts and the callbacks alone. *)
LEMMA GoesOn ==
  ASSUME NEW c, Typed(c), ~written[c], NEW q, GoTo(c, q), KeepHost, KeepLog, NEW F,
         LoopInv(machine, type[c], reported[c], F, q.at, q.stack, mode[c], host[c],
                 painted[c])
  PROVE  Typed(c)' /\ AllInv(c)'
<1>1. mode' = mode /\ host' = host /\ reported' = reported /\ painted' = painted
  BY DEF KeepHost, KeepLog
<1>2. PICK V : reported[c] \in Seq(V)
  BY DEF Typed
<1>3. /\ c \in DOMAIN mode' /\ c \in DOMAIN host' /\ c \in DOMAIN reported'
      /\ c \in DOMAIN painted' /\ reported'[c] \in Seq(V)
  BY <1>1, <1>2 DEF Typed
<1>4. LoopInv(machine, type[c], reported'[c], F, q.at, q.stack, mode'[c], host'[c],
              painted'[c])
  BY <1>1
<1> QED
  BY <1>3, <1>4, Arrives

(* The innermost call advances. *)
LEMMA LoopAdvances ==
  ASSUME NEW m \in Machines, NEW t, NEW rep, NEW F, NEW l, NEW s, NEW md, NEW h, NEW pt,
         LoopInv(m, t, rep, F, l, s, md, h, pt), l # "display", s # <<>>, NEW q,
         Advances(s, q), ScanInv(m, t, ToSet(rep), GrownBy(F, s, q), q.at, q.stack, md, h)
  PROVE  LoopInv(m, t, rep, GrownBy(F, s, q), q.at, q.stack, md, h, pt)
<1>1. s \in Seq(Frame)
  BY DEF LoopInv, ScanInv, StackInv
<1>2. Tree(m) => OnceInv(m, rep, GrownBy(F, s, q), q.at, q.stack, h)
  BY <1>1, OnceAdvances DEF LoopInv
<1>3. OneDisplay(m) => PaintInv(m, ToSet(rep), q.at, pt)
  BY PaintLater DEF LoopInv
<1> QED
  BY <1>2, <1>3 DEF LoopInv

(* It goes on to another part of the same function. *)
LEMMA LoopRelabelled ==
  ASSUME NEW m, NEW t, NEW rep, NEW F, NEW l, NEW s, NEW md, NEW h, NEW pt,
         LoopInv(m, t, rep, F, l, s, md, h, pt), l # "display",
         NEW l2, l2 \notin {"hosts", "hostFunc"},
         l \in Afterwards => l2 \in Afterwards, l \in Returned => l2 \in Returned,
         ScanInv(m, t, ToSet(rep), F, l2, s, md, h)
  PROVE  LoopInv(m, t, rep, F, l2, s, md, h, pt)
<1>1. Tree(m) => OnceInv(m, rep, F, l2, s, h)
  BY OnceRelabelled DEF LoopInv
<1>2. OneDisplay(m) => PaintInv(m, ToSet(rep), l2, pt)
  BY PaintLater DEF LoopInv
<1> QED
  BY <1>1, <1>2 DEF LoopInv

(* The function the innermost call is at. *)
LEMMA AtFunction ==
  ASSUME NEW c, Typed(c), AllInv(c), NEW l \in Innermost, Read(c, l), NEW F,
         LoopInv(machine, type[c], reported[c], F, at[c], stack[c], mode[c], host[c],
                 painted[c])
  PROVE  /\ ~written[c] /\ at[c] = l /\ stack[c] # <<>> /\ stack[c] \in Seq(Frame)
         /\ Asked(c) = Here(Last(stack[c])) /\ Asked(c) \in Place3
         /\ l \in DOMAIN Reads /\ ReadInv(c) /\ machine \in Machines
         /\ l \in {"filter", "hit", "display", "bridge", "secondary", "header"} =>
              Asked(c) \in DOMAIN machine
<1>1. l \in DOMAIN Reads /\ ReadInv(c)
  BY ReadsAre DEF AllInv
<1>2. ~written[c] /\ at[c] = l
  BY <1>1, AllRead
<1>3. stack[c] # <<>> /\ stack[c] \in Seq(Frame)
  BY <1>2 DEF LoopInv, ScanInv, HostInv, StackInv
<1>4. Asked(c) = Here(Last(stack[c]))
  BY <1>2 DEF Asked, Innermost
<1>5. Asked(c) \in Place3
  BY <1>1, <1>2, AskedPlace
<1>6. PlaceInv(machine, type[c], ToSet(reported[c]), F, l, Last(stack[c]))
  BY <1>2, <1>3 DEF LoopInv, ScanInv
<1> QED
  BY <1>1, <1>2, <1>3, <1>4, <1>5, <1>6 DEF PlaceInv, Visible, Typed

(* scanSlot has asked for the first function. *)
LEMMA SlotStep ==
  ASSUME NEW c, Typed(c), AllInv(c), ReadSlot(c)
  PROVE  Typed(c)' /\ AllInv(c)'
<1>0. PICK F : LoopInv(machine, type[c], reported[c], F, at[c], stack[c], mode[c], host[c],
                       painted[c])
  BY DEF AllInv
<1>1. "slot" \in Innermost /\ Read(c, "slot") /\ KeepHost /\ KeepLog
  BY DEF Innermost, ReadSlot
<1>2. /\ ~written[c] /\ at[c] = "slot" /\ stack[c] # <<>> /\ stack[c] \in Seq(Frame)
      /\ Asked(c) = Here(Last(stack[c])) /\ Asked(c) \in Place3
      /\ "slot" \in DOMAIN Reads /\ ReadInv(c) /\ machine \in Machines
  BY <1>0, <1>1, AtFunction
<1>3. CASE Asked(c) \in DOMAIN machine
  <2>1. got[c][1] = machine[Asked(c)].vendor
    BY <1>1, <1>2, <1>3, ReadPresent
  <2>2. got[c][1] # PCINull
    BY <1>2, <1>3, <2>1, MachinesAssumption
  <2>3. PICK q : q = Place(ScanFunc(type[c]), stack[c])
    OBVIOUS
  <2>4. GoTo(c, q) /\ q.at = ScanFunc(type[c]) /\ q.stack = stack[c]
    BY <2>2, <2>3 DEF ReadSlot, Stay, Place
  <2>5. ScanInv(machine, type[c], ToSet(reported[c]), F, q.at, stack[c], mode[c], host[c])
    BY <1>0, <1>2, <1>3, <2>4, FuncFound DEF LoopInv
  <2>6. q.at \in {"hit", "filter"}
    BY <2>4 DEF ScanFunc
  <2>7. LoopInv(machine, type[c], reported[c], F, q.at, stack[c], mode[c], host[c], painted[c])
    BY <1>0, <1>2, <2>5, <2>6, LoopRelabelled DEF Afterwards, Returned
  <2> QED
    BY <1>1, <1>2, <2>4, <2>7, GoesOn
<1>4. CASE Asked(c) \notin DOMAIN machine
  <2>1. got[c][1] = PCINull
    BY <1>1, <1>2, <1>4, ReadAbsent
  <2>2. PICK q : q = NextSlot(stack[c])
    OBVIOUS
  <2>3. GoTo(c, q)
    BY <2>1, <2>2 DEF ReadSlot
  <2>4. ScanInv(machine, type[c], ToSet(reported[c]), GrownBy(F, stack[c], q), q.at, q.stack,
                mode[c], host[c])
    BY <1>0, <1>2, <1>4, <2>2, SlotAbsent DEF LoopInv
  <2>5. Advances(stack[c], q)
    BY <1>2, <2>2, LoopsAdvance
  <2>6. LoopInv(machine, type[c], reported[c], GrownBy(F, stack[c], q), q.at, q.stack,
                mode[c], host[c], painted[c])
    BY <1>0, <1>2, <2>4, <2>5, LoopAdvances
  <2> QED
    BY <1>1, <1>2, <2>3, <2>6, GoesOn
<1> QED
  BY <1>3, <1>4

(* One more callback. *)
LEMMA AppendedSet ==
  ASSUME NEW W, NEW r \in Seq(W), NEW e \in W
  PROVE  Append(r, e) \in Seq(W) /\ ToSet(Append(r, e)) = ToSet(r) \union {e}
<1> DEFINE n == Len(r)  r2 == Append(r, e)
<1>1. /\ n \in Nat /\ DOMAIN r = 1 .. n /\ DOMAIN r2 = 1 .. n + 1 /\ r2 \in Seq(W)
      /\ r2[n + 1] = e /\ \A i \in 1 .. n : r2[i] = r[i]
  OBVIOUS
<1>2. n + 1 \in 1 .. n + 1 /\ \A i \in 1 .. n + 1 : i \in 1 .. n \/ i = n + 1
  BY <1>1
<1>3. \A i \in 1 .. n : i \in 1 .. n + 1
  BY <1>1
<1> HIDE DEF n, r2
<1>4. ToSet(r2) = ToSet(r) \union {e}
  BY <1>1, <1>2, <1>3 DEF ToSet
<1> QED
  BY <1>1, <1>4 DEF r2

(* scanSlot has asked for a further function. *)
LEMMA FuncStep ==
  ASSUME NEW c, Typed(c), AllInv(c), ReadFunc(c)
  PROVE  Typed(c)' /\ AllInv(c)'
<1>0. PICK F : LoopInv(machine, type[c], reported[c], F, at[c], stack[c], mode[c], host[c],
                       painted[c])
  BY DEF AllInv
<1>1. "func" \in Innermost /\ Read(c, "func") /\ KeepHost /\ KeepLog
  BY DEF Innermost, ReadFunc
<1>2. /\ ~written[c] /\ at[c] = "func" /\ stack[c] # <<>> /\ stack[c] \in Seq(Frame)
      /\ Asked(c) = Here(Last(stack[c])) /\ Asked(c) \in Place3
      /\ "func" \in DOMAIN Reads /\ ReadInv(c) /\ machine \in Machines
  BY <1>0, <1>1, AtFunction
<1>3. CASE Asked(c) \in DOMAIN machine
  <2>1. got[c][1] = machine[Asked(c)].vendor
    BY <1>1, <1>2, <1>3, ReadPresent
  <2>2. got[c][1] # PCINull
    BY <1>2, <1>3, <2>1, MachinesAssumption
  <2>3. PICK q : q = Place(ScanFunc(type[c]), stack[c])
    OBVIOUS
  <2>4. GoTo(c, q) /\ q.at = ScanFunc(type[c]) /\ q.stack = stack[c]
    BY <2>2, <2>3 DEF ReadFunc, Stay, Place
  <2>5. ScanInv(machine, type[c], ToSet(reported[c]), F, q.at, stack[c], mode[c], host[c])
    BY <1>0, <1>2, <1>3, <2>4, FuncFound DEF LoopInv
  <2>6. q.at \in {"hit", "filter"}
    BY <2>4 DEF ScanFunc
  <2>7. LoopInv(machine, type[c], reported[c], F, q.at, stack[c], mode[c], host[c], painted[c])
    BY <1>0, <1>2, <2>5, <2>6, LoopRelabelled DEF Afterwards, Returned
  <2> QED
    BY <1>1, <1>2, <2>4, <2>7, GoesOn
<1>4. CASE Asked(c) \notin DOMAIN machine
  <2>2. got[c][1] = PCINull
    BY <1>1, <1>2, <1>4, ReadAbsent
  <2>3. PICK q : q = NextFunc(stack[c])
    OBVIOUS
  <2>4. GoTo(c, q)
    BY <2>2, <2>3 DEF ReadFunc
  <2>5. ScanInv(machine, type[c], ToSet(reported[c]), GrownBy(F, stack[c], q), q.at, q.stack,
                mode[c], host[c])
    BY <1>0, <1>2, <1>4, <2>3, FuncAbsent DEF LoopInv
  <2>6. Advances(stack[c], q)
    BY <1>2, <2>3, LoopsAdvance
  <2>7. LoopInv(machine, type[c], reported[c], GrownBy(F, stack[c], q), q.at, q.stack,
                mode[c], host[c], painted[c])
    BY <1>0, <1>2, <2>5, <2>6, LoopAdvances
  <2> QED
    BY <1>1, <1>2, <2>4, <2>7, GoesOn
<1> QED
  BY <1>3, <1>4

(* findType has read the class of a function. *)
LEMMA FilterStep ==
  ASSUME NEW c, Typed(c), AllInv(c), ReadFilter(c)
  PROVE  Typed(c)' /\ AllInv(c)'
<1>0. PICK F : LoopInv(machine, type[c], reported[c], F, at[c], stack[c], mode[c], host[c],
                       painted[c])
  BY DEF AllInv
<1>1. "filter" \in Innermost /\ Read(c, "filter") /\ KeepHost /\ KeepLog
  BY DEF Innermost, ReadFilter
<1>2. /\ ~written[c] /\ at[c] = "filter" /\ stack[c] # <<>> /\ stack[c] \in Seq(Frame)
      /\ Asked(c) = Here(Last(stack[c])) /\ Asked(c) \in Place3
      /\ "filter" \in DOMAIN Reads /\ ReadInv(c) /\ machine \in Machines
      /\ Asked(c) \in DOMAIN machine
  BY <1>0, <1>1, AtFunction
<1>3. got[c][1] = machine[Asked(c)].class /\ got[c][2] = machine[Asked(c)].subclass
  BY <1>1, <1>2, ReadPresent
<1>4. type[c] # AnyType
  BY <1>0, <1>2 DEF LoopInv, ScanInv, PlaceInv
<1>5. findType(got[c], type[c]) <=> Matches(machine, type[c], Asked(c))
  BY <1>3, <1>4 DEF findType, Matches
<1>6. PICK l2 : l2 = IF Matches(machine, type[c], Asked(c)) THEN "hit" ELSE "bridge"
  OBVIOUS
<1>7. PICK q : q = Place(l2, stack[c])
  OBVIOUS
<1>8. GoTo(c, q) /\ q.at = l2 /\ q.stack = stack[c]
  BY <1>5, <1>6, <1>7 DEF ReadFilter, Stay, Place
<1>9. ScanInv(machine, type[c], ToSet(reported[c]), F, q.at, stack[c], mode[c], host[c])
  BY <1>0, <1>2, <1>6, <1>8, Filtered DEF LoopInv
<1>10. q.at \in {"hit", "bridge"}
  BY <1>6, <1>8
<1>11. LoopInv(machine, type[c], reported[c], F, q.at, stack[c], mode[c], host[c], painted[c])
  BY <1>0, <1>2, <1>9, <1>10, LoopRelabelled DEF Afterwards, Returned
<1> QED
  BY <1>1, <1>2, <1>8, <1>11, GoesOn

(* scanFunc has read the class of a function. *)
LEMMA BridgeStep ==
  ASSUME NEW c, Typed(c), AllInv(c), ReadBridge(c)
  PROVE  Typed(c)' /\ AllInv(c)'
<1>0. PICK F : LoopInv(machine, type[c], reported[c], F, at[c], stack[c], mode[c], host[c],
                       painted[c])
  BY DEF AllInv
<1>1. "bridge" \in Innermost /\ Read(c, "bridge") /\ KeepHost /\ KeepLog
  BY DEF Innermost, ReadBridge
<1>2. /\ ~written[c] /\ at[c] = "bridge" /\ stack[c] # <<>> /\ stack[c] \in Seq(Frame)
      /\ Asked(c) = Here(Last(stack[c])) /\ Asked(c) \in Place3
      /\ "bridge" \in DOMAIN Reads /\ ReadInv(c) /\ machine \in Machines
      /\ Asked(c) \in DOMAIN machine
  BY <1>0, <1>1, AtFunction
<1>3. got[c][1] = machine[Asked(c)].class /\ got[c][2] = machine[Asked(c)].subclass
  BY <1>1, <1>2, ReadPresent
<1>4. findType(got[c], BridgeType) <=> IsBridge(machine[Asked(c)])
  BY <1>3 DEF findType, IsBridge
<1>5. CASE IsBridge(machine[Asked(c)])
  <2>2. findType(got[c], BridgeType)
    BY <1>4, <1>5
  <2>3. PICK q : q = Place("secondary", stack[c])
    OBVIOUS
  <2>4. GoTo(c, q) /\ q.at = "secondary" /\ q.stack = stack[c]
    BY <2>2, <2>3 DEF ReadBridge, Stay, Place
  <2>5. ScanInv(machine, type[c], ToSet(reported[c]), F, q.at, stack[c], mode[c], host[c])
    BY <1>0, <1>2, <1>5, <2>4, BridgeFound DEF LoopInv
  <2>6. q.at \in {"secondary"}
    BY <2>4 DEF ScanFunc
  <2>7. LoopInv(machine, type[c], reported[c], F, q.at, stack[c], mode[c], host[c], painted[c])
    BY <1>0, <1>2, <2>5, <2>6, LoopRelabelled DEF Afterwards, Returned
  <2> QED
    BY <1>1, <1>2, <2>4, <2>7, GoesOn
<1>6. CASE ~IsBridge(machine[Asked(c)])
  <2>2. ~findType(got[c], BridgeType)
    BY <1>4, <1>6
  <2>3. PICK q : q = AfterFunc(stack[c])
    OBVIOUS
  <2>4. GoTo(c, q)
    BY <2>2, <2>3 DEF ReadBridge
  <2>5. ScanInv(machine, type[c], ToSet(reported[c]), GrownBy(F, stack[c], q), q.at, q.stack,
                mode[c], host[c])
    BY <1>0, <1>2, <1>6, <2>3, NoBridge DEF LoopInv
  <2>6. Advances(stack[c], q)
    BY <1>2, <2>3, LoopsAdvance
  <2>7. LoopInv(machine, type[c], reported[c], GrownBy(F, stack[c], q), q.at, q.stack,
                mode[c], host[c], painted[c])
    BY <1>0, <1>2, <2>5, <2>6, LoopAdvances
  <2> QED
    BY <1>1, <1>2, <2>4, <2>7, GoesOn
<1> QED
  BY <1>5, <1>6

(* scanSlot has read the header type. *)
LEMMA HeaderStep ==
  ASSUME NEW c, Typed(c), AllInv(c), ReadHeader(c)
  PROVE  Typed(c)' /\ AllInv(c)'
<1>0. PICK F : LoopInv(machine, type[c], reported[c], F, at[c], stack[c], mode[c], host[c],
                       painted[c])
  BY DEF AllInv
<1>1. "header" \in Innermost /\ Read(c, "header") /\ KeepHost /\ KeepLog
  BY DEF Innermost, ReadHeader
<1>2. /\ ~written[c] /\ at[c] = "header" /\ stack[c] # <<>> /\ stack[c] \in Seq(Frame)
      /\ Asked(c) = Here(Last(stack[c])) /\ Asked(c) \in Place3
      /\ "header" \in DOMAIN Reads /\ ReadInv(c) /\ machine \in Machines
      /\ Asked(c) \in DOMAIN machine
  BY <1>0, <1>1, AtFunction
<1>3. got[c][1] = machine[Asked(c)].header
  BY <1>1, <1>2, ReadPresent
<1>5. CASE machine[Asked(c)].header = 0
  <2>2. SingleFunction(got[c][1])
    BY <1>3, <1>5 DEF SingleFunction
  <2>3. PICK q : q = NextSlot(stack[c])
    OBVIOUS
  <2>4. GoTo(c, q)
    BY <2>2, <2>3 DEF ReadHeader
  <2>5. ScanInv(machine, type[c], ToSet(reported[c]), GrownBy(F, stack[c], q), q.at, q.stack,
                mode[c], host[c])
    BY <1>0, <1>2, <1>5, <2>3, OneFunc DEF LoopInv
  <2>6. Advances(stack[c], q)
    BY <1>2, <2>3, LoopsAdvance
  <2>7. LoopInv(machine, type[c], reported[c], GrownBy(F, stack[c], q), q.at, q.stack,
                mode[c], host[c], painted[c])
    BY <1>0, <1>2, <2>5, <2>6, LoopAdvances
  <2> QED
    BY <1>1, <1>2, <2>4, <2>7, GoesOn
<1>6. CASE machine[Asked(c)].header # 0
  <2>2. ~SingleFunction(got[c][1])
    BY <1>3, <1>6 DEF SingleFunction
  <2>3. PICK q : q = NextFunc(stack[c])
    OBVIOUS
  <2>4. GoTo(c, q)
    BY <2>2, <2>3 DEF ReadHeader
  <2>5. ScanInv(machine, type[c], ToSet(reported[c]), GrownBy(F, stack[c], q), q.at, q.stack,
                mode[c], host[c])
    BY <1>0, <1>2, <1>6, <2>3, SeveralFuncs DEF LoopInv
  <2>6. Advances(stack[c], q)
    BY <1>2, <2>3, LoopsAdvance
  <2>7. LoopInv(machine, type[c], reported[c], GrownBy(F, stack[c], q), q.at, q.stack,
                mode[c], host[c], painted[c])
    BY <1>0, <1>2, <2>5, <2>6, LoopAdvances
  <2> QED
    BY <1>1, <1>2, <2>4, <2>7, GoesOn
<1> QED
  BY <1>5, <1>6

(* scanFunc calls scanBus. *)
LEMMA SecondaryStep ==
  ASSUME NEW c, Typed(c), AllInv(c), ReadSecondary(c)
  PROVE  Typed(c)' /\ AllInv(c)'
<1>0. PICK F : LoopInv(machine, type[c], reported[c], F, at[c], stack[c], mode[c], host[c],
                       painted[c])
  BY DEF AllInv
<1>1. "secondary" \in Innermost /\ Read(c, "secondary") /\ KeepHost /\ KeepLog
  BY DEF Innermost, ReadSecondary
<1>2. /\ ~written[c] /\ at[c] = "secondary" /\ stack[c] # <<>> /\ stack[c] \in Seq(Frame)
      /\ Asked(c) = Here(Last(stack[c])) /\ Asked(c) \in Place3
      /\ "secondary" \in DOMAIN Reads /\ ReadInv(c) /\ machine \in Machines
      /\ Asked(c) \in DOMAIN machine
  BY <1>0, <1>1, AtFunction
<1>3. got[c][1] = Behind(machine[Asked(c)])
  BY <1>1, <1>2, ReadPresent
<1>4. PICK b : b = Behind(machine[Asked(c)])
  OBVIOUS
<1>5. PICK q : q = ScanBus(stack[c], b)
  OBVIOUS
<1>6. GoTo(c, q) /\ q.at = "slot"
  BY <1>3, <1>4, <1>5 DEF ReadSecondary, ScanBus, Place
<1>7. ScanInv(machine, type[c], ToSet(reported[c]), F, "secondary", stack[c], mode[c], host[c])
  BY <1>0, <1>2 DEF LoopInv
<1>8. ScanInv(machine, type[c], ToSet(reported[c]), F, "slot", q.stack, mode[c], host[c])
  BY <1>2, <1>4, <1>5, <1>7, BridgePushed
<1>9. /\ IsBridge(machine[Asked(c)]) /\ Visible(machine, Asked(c))
  BY <1>2, <1>7 DEF ScanInv, PlaceInv
<1>10. Asked(c)[1] \in Reached(machine)
  <2>1. Last(stack[c]) = stack[c][Len(stack[c])] /\ Len(stack[c]) \in 1 .. Len(stack[c])
    BY <1>2, Popped
  <2>2. Last(stack[c]).bus \in Reached(machine)
    BY <1>7, <2>1 DEF ScanInv, StackInv, FrameInv
  <2> QED
    BY <1>2, <2>2 DEF Here
<1>11. b \in 0 .. Buses - 1
  BY <1>2, <1>4, <1>9, <1>10, BehindReached
<1>12. Tree(machine) => OnceInv(machine, reported[c], F, "slot", q.stack, host[c])
  BY <1>0, <1>2, <1>4, <1>5, <1>9, <1>11, OnceBehind DEF LoopInv
<1>13. OneDisplay(machine) => PaintInv(machine, ToSet(reported[c]), "slot", painted[c])
  BY <1>0, <1>2, PaintLater DEF LoopInv
<1>14. LoopInv(machine, type[c], reported[c], F, q.at, q.stack, mode[c], host[c], painted[c])
  BY <1>6, <1>8, <1>12, <1>13 DEF LoopInv
<1> QED
  BY <1>1, <1>2, <1>6, <1>14, GoesOn

(* The callback is called. *)
LEMMA ReportStep ==
  ASSUME NEW c, Typed(c), AllInv(c), Report(c)
  PROVE  Typed(c)' /\ AllInv(c)'
<1>0. PICK F : LoopInv(machine, type[c], reported[c], F, at[c], stack[c], mode[c], host[c],
                       painted[c])
  BY DEF AllInv
<1>1. "hit" \in Innermost /\ Read(c, "hit") /\ KeepHost
  BY DEF Innermost, Report
<1>2. /\ ~written[c] /\ at[c] = "hit" /\ stack[c] # <<>> /\ stack[c] \in Seq(Frame)
      /\ Asked(c) = Here(Last(stack[c])) /\ Asked(c) \in Place3
      /\ "hit" \in DOMAIN Reads /\ ReadInv(c) /\ machine \in Machines
      /\ Asked(c) \in DOMAIN machine
  BY <1>0, <1>1, AtFunction
<1>3. got[c][1] = machine[Asked(c)].vendor /\ got[c][2] = machine[Asked(c)].device
  BY <1>1, <1>2, ReadPresent
<1>4. PICK p : p = Asked(c)
  OBVIOUS
<1>5. PICK e : e = Entry(machine, p)
  OBVIOUS
<1>6. PICK l2 : l2 = IF IsBochs(machine[p].vendor, machine[p].device)
                     THEN "display" ELSE "bridge"
  OBVIOUS
<1>7. PICK q : q = Place(l2, stack[c])
  OBVIOUS
<1>8. GoTo(c, q) /\ q.at = l2 /\ q.stack = stack[c]
  BY <1>3, <1>4, <1>6, <1>7 DEF Report, Stay, Place
<1>9. mode' = mode /\ host' = host /\ painted' = painted
  BY <1>1 DEF Report, KeepHost
<1>10. [dev |-> Device(c), vid |-> got[c][1], did |-> got[c][2]] = e
  BY <1>3, <1>4, <1>5, DeviceAsked DEF Entry
<1>11. reported' = [reported EXCEPT ![c] = Append(reported[c], e)]
  BY <1>10 DEF Report
<1>12. reported'[c] = Append(reported[c], e) /\ c \in DOMAIN reported'
  BY <1>11 DEF Typed
<1>13. PICK V : reported[c] \in Seq(V)
  BY DEF Typed
<1>14. PICK W : W = V \union {e}
  OBVIOUS
<1>15. reported[c] \in Seq(W) /\ e \in W
  BY <1>13, <1>14
<1>16. PICK rep \in Seq(W) : rep = reported[c]
  BY <1>15
<1>17. PICK rep2 \in Seq(W) : rep2 = Append(rep, e) /\ ToSet(rep2) = ToSet(rep) \union {e}
  BY <1>15, AppendedSet
<1>18. LoopInv(machine, type[c], rep, F, "hit", stack[c], mode[c], host[c], painted[c])
  BY <1>0, <1>2, <1>16
<1>19. ScanInv(machine, type[c], ToSet(rep2), F, l2, stack[c], mode[c], host[c])
  BY <1>2, <1>4, <1>5, <1>6, <1>17, <1>18, ReportedOn DEF LoopInv
<1>20. l2 \in {"display", "bridge"}
  BY <1>6
<1>21. Tree(machine) => OnceInv(machine, rep2, F, l2, stack[c], host[c])
  BY <1>2, <1>4, <1>5, <1>17, <1>18, <1>20, OnceReported DEF LoopInv
<1>22. OneDisplay(machine) => PaintInv(machine, ToSet(rep2), l2, painted[c])
  BY <1>2, <1>4, <1>5, <1>6, <1>17, <1>18, PaintReported DEF LoopInv
<1>23. LoopInv(machine, type[c], rep2, F, q.at, q.stack, mode[c], host[c], painted[c])
  BY <1>8, <1>19, <1>21, <1>22 DEF LoopInv
<1>24. /\ c \in DOMAIN mode' /\ c \in DOMAIN host' /\ c \in DOMAIN painted'
       /\ reported'[c] \in Seq(W)
       /\ LoopInv(machine, type[c], reported'[c], F, q.at, q.stack, mode'[c], host'[c],
                  painted'[c])
  BY <1>9, <1>12, <1>16, <1>17, <1>23 DEF Typed
<1> QED
  BY <1>2, <1>8, <1>12, <1>24, Arrives

(* The callback paints. *)
LEMMA PaintStep ==
  ASSUME NEW c, Typed(c), AllInv(c), Paint(c)
  PROVE  Typed(c)' /\ AllInv(c)'
<1>0. PICK F : LoopInv(machine, type[c], reported[c], F, at[c], stack[c], mode[c], host[c],
                       painted[c])
  BY DEF AllInv
<1>1. "display" \in Innermost /\ Read(c, "display") /\ KeepHost
  BY DEF Innermost, Paint
<1>2. /\ ~written[c] /\ at[c] = "display" /\ stack[c] # <<>> /\ stack[c] \in Seq(Frame)
      /\ Asked(c) = Here(Last(stack[c])) /\ Asked(c) \in Place3
      /\ "display" \in DOMAIN Reads /\ ReadInv(c) /\ machine \in Machines
      /\ Asked(c) \in DOMAIN machine
  BY <1>0, <1>1, AtFunction
<1>3. /\ got[c][1] = machine[Asked(c)].bar0 /\ got[c][2] = machine[Asked(c)].bar2
      /\ got[c][3] = machine[Asked(c)].bar2
  BY <1>1, <1>2, ReadPresent
<1>4. PICK p \in DOMAIN machine : p = Asked(c)
  BY <1>2
<1>5. PICK x, y : /\ x = Mmio(addrOf(machine[p].bar2, XRes))
                  /\ y = Mmio(addrOf(machine[p].bar2, YRes))
  OBVIOUS
<1>6. PICK pt2 : pt2 = painted[c] \union Stored(machine[p].bar0, x, y)
  OBVIOUS
<1>7. PICK q : q = Place("bridge", stack[c])
  OBVIOUS
<1>8. GoTo(c, q) /\ q.at = "bridge" /\ q.stack = stack[c]
  BY <1>7 DEF Paint, Stay, Place
<1>9. mode' = mode /\ host' = host /\ reported' = reported
  BY <1>1 DEF Paint, KeepHost
<1>10. painted' = [painted EXCEPT ![c] = pt2]
  BY <1>3, <1>4, <1>5, <1>6 DEF Paint, Stored, framebufferAddress
<1>11. painted'[c] = pt2 /\ c \in DOMAIN painted'
  BY <1>10 DEF Typed
<1>12. ScanInv(machine, type[c], ToSet(reported[c]), F, "bridge", stack[c], mode[c], host[c])
  BY <1>0, <1>2, PaintedOn DEF LoopInv
<1>13. Tree(machine) => OnceInv(machine, reported[c], F, "bridge", stack[c], host[c])
  BY <1>0, <1>2, OnceRelabelled DEF LoopInv, Afterwards, Returned
<1>14. IsBochs(machine[p].vendor, machine[p].device)
  BY <1>0, <1>2, <1>4 DEF LoopInv, ScanInv, PlaceInv
<1>15. OneDisplay(machine) => PaintInv(machine, ToSet(reported[c]), "bridge", pt2)
  BY <1>0, <1>2, <1>5, <1>6, <1>14, PaintDone DEF LoopInv
<1>16. LoopInv(machine, type[c], reported[c], F, q.at, q.stack, mode[c], host[c], pt2)
  BY <1>8, <1>12, <1>13, <1>15 DEF LoopInv
<1>17. PICK V : reported[c] \in Seq(V)
  BY DEF Typed
<1>18. /\ c \in DOMAIN mode' /\ c \in DOMAIN host' /\ c \in DOMAIN reported'
       /\ reported'[c] \in Seq(V)
       /\ LoopInv(machine, type[c], reported'[c], F, q.at, q.stack, mode'[c], host'[c],
                  painted'[c])
  BY <1>9, <1>11, <1>16, <1>17 DEF Typed
<1> QED
  BY <1>2, <1>8, <1>11, <1>18, Arrives

(* The scan is between two buses. *)
LEMMA AtHost ==
  ASSUME NEW c, Typed(c), AllInv(c), NEW l \in {"hosts", "hostFunc"}, Read(c, l), NEW F,
         LoopInv(machine, type[c], reported[c], F, at[c], stack[c], mode[c], host[c],
                 painted[c])
  PROVE  /\ ~written[c] /\ at[c] = l /\ stack[c] = <<>>
         /\ Asked(c) \in Place3 /\ l \in DOMAIN Reads /\ ReadInv(c) /\ machine \in Machines
         /\ l = "hosts" => host[c] = 0 /\ Asked(c) = <<0, 0, 0>>
         /\ l = "hostFunc" => host[c] \in Nat /\ Asked(c) = <<0, 0, host[c]>>
         /\ LoopInv(machine, type[c], reported[c], F, l, <<>>, mode[c], host[c], painted[c])
<1>1. l \in DOMAIN Reads /\ ReadInv(c)
  BY ReadsAre DEF AllInv
<1>2. ~written[c] /\ at[c] = l
  BY <1>1, AllRead
<1>3. HostInv(machine, F, l, stack[c], mode[c], host[c])
  BY <1>2 DEF LoopInv, ScanInv
<1>4. Asked(c) \in Place3
  BY <1>1, <1>2, AskedPlace
<1> QED
  BY <1>1, <1>2, <1>3, <1>4 DEF HostInv, Asked, Typed

(* scan begins with the bus of a root. *)
LEMMA LoopRoot ==
  ASSUME NEW m \in Machines, NEW t, NEW rep, NEW F, NEW l, l # "display", NEW md, NEW h, NEW pt,
         LoopInv(m, t, rep, F, l, <<>>, md, h, pt), NEW b \in Roots(m), NEW md2,
         NEW h2 \in Nat, b <= h2, \A r \in Roots(m) : r <= h => r <= h2,
         ~(b <= h /\ (l \in {"hosts", "hostFunc"} => b < h)),
         NEW q, q = ScanBus(<<>>, b),
         ScanInv(m, t, ToSet(rep), F, "slot", ScanBus(<<>>, b).stack, md2, h2)
  PROVE  LoopInv(m, t, rep, F, q.at, q.stack, md2, h2, pt)
<1>1. q.at = "slot" /\ q.stack = ScanBus(<<>>, b).stack
  BY RootStack
<1>2. PICK s2 : s2 = ScanBus(<<>>, b).stack
  OBVIOUS
<1>3. Tree(m) => OnceInv(m, rep, F, "slot", s2, h2)
  BY <1>2, OnceRoot DEF LoopInv
<1>4. OneDisplay(m) => PaintInv(m, ToSet(rep), "slot", pt)
  BY PaintLater DEF LoopInv
<1> QED
  BY <1>1, <1>2, <1>3, <1>4 DEF LoopInv

(* scan goes on between two buses. *)
LEMMA LoopBetween ==
  ASSUME NEW m \in Machines, NEW t, NEW rep, NEW F, NEW l, l # "display", NEW md, NEW h, NEW pt,
         LoopInv(m, t, rep, F, l, <<>>, md, h, pt), NEW l2, NEW md2, NEW h2,
         \A b \in Roots(m) : b <= h /\ (l \in {"hosts", "hostFunc"} => b < h) =>
                               b <= h2 /\ (l2 \in {"hosts", "hostFunc"} => b < h2),
         ScanInv(m, t, ToSet(rep), F, l2, <<>>, md2, h2),
         NEW q, q = Place(l2, <<>>)
  PROVE  LoopInv(m, t, rep, F, q.at, q.stack, md2, h2, pt)
<1>1. q.at = l2 /\ q.stack = <<>>
  BY DEF Place
<1>2. Tree(m) => OnceInv(m, rep, F, l2, <<>>, h2)
  BY OnceBetween DEF LoopInv
<1>3. OneDisplay(m) => PaintInv(m, ToSet(rep), l2, pt)
  BY PaintLater DEF LoopInv
<1> QED
  BY <1>1, <1>2, <1>3 DEF LoopInv

(* The loops of scan change only the mode and the host. *)
LEMMA HostsGoOn ==
  ASSUME NEW c, Typed(c), ~written[c], NEW q, GoTo(c, q), KeepLog,
         c \in DOMAIN mode', c \in DOMAIN host', NEW F, NEW md2, md2 = mode'[c],
         NEW h2, h2 = host'[c],
         LoopInv(machine, type[c], reported[c], F, q.at, q.stack, md2, h2, painted[c])
  PROVE  Typed(c)' /\ AllInv(c)'
<1>1. reported' = reported /\ painted' = painted
  BY DEF KeepLog
<1>2. PICK V : reported[c] \in Seq(V)
  BY DEF Typed
<1>3. /\ c \in DOMAIN reported' /\ c \in DOMAIN painted' /\ reported'[c] \in Seq(V)
  BY <1>1, <1>2 DEF Typed
<1>4. LoopInv(machine, type[c], reported'[c], F, q.at, q.stack, mode'[c], host'[c],
              painted'[c])
  BY <1>1
<1> QED
  BY <1>3, <1>4, Arrives

(* Roots are numbers. *)
LEMMA RootNumber ==
  ASSUME NEW m, NEW r \in Roots(m)
  PROVE  r \in Nat
BY SizesAssumption, RootReached

(* scan has read the header type of the first host. *)
LEMMA HostsStep ==
  ASSUME NEW c, Typed(c), AllInv(c), ReadHosts(c)
  PROVE  Typed(c)' /\ AllInv(c)'
<1>0. PICK F : LoopInv(machine, type[c], reported[c], F, at[c], stack[c], mode[c], host[c],
                       painted[c])
  BY DEF AllInv
<1>1. Read(c, "hosts") /\ KeepLog /\ host' = host
  BY DEF ReadHosts
<1>2. /\ ~written[c] /\ at[c] = "hosts" /\ stack[c] = <<>>
      /\ Asked(c) \in Place3 /\ "hosts" \in DOMAIN Reads /\ ReadInv(c) /\ machine \in Machines
      /\ host[c] = 0 /\ Asked(c) = <<0, 0, 0>>
      /\ LoopInv(machine, type[c], reported[c], F, "hosts", <<>>, mode[c], 0, painted[c])
  BY <1>0, <1>1, AtHost
<1>3. got[c][1] < 128 <=> <<0, 0, 0>> \in DOMAIN machine /\ machine[<<0, 0, 0>>].header < 128
  <2>1. CASE <<0, 0, 0>> \in DOMAIN machine
    BY <1>1, <1>2, <2>1, ReadPresent
  <2>2. CASE <<0, 0, 0>> \notin DOMAIN machine
    <3>1. got[c][1] = 255
      BY <1>1, <1>2, <2>2, ReadAbsent
    <3> QED
      BY <2>2, <3>1
  <2> QED
    BY <2>1, <2>2
<1>4. c \in DOMAIN host' /\ host'[c] = 0
  BY <1>1, <1>2 DEF Typed
<1>5. CASE got[c][1] < 128
  <2>1. PICK q : q = ScanBus(<<>>, 0)
    OBVIOUS
  <2>2. GoTo(c, q) /\ mode' = mode
    BY <1>5, <2>1 DEF ReadHosts
  <2>3. ScanInv(machine, type[c], ToSet(reported[c]), F, "slot", ScanBus(<<>>, 0).stack, mode[c], 0)
    BY <1>2, <1>3, <1>5, OneHost DEF LoopInv
  <2>4. 0 \in Roots(machine)
    BY <1>3, <1>5 DEF Roots
  <2>5. LoopInv(machine, type[c], reported[c], F, q.at, q.stack, mode[c], 0, painted[c])
    <3>1. 0 \in Nat /\ 0 <= 0 /\ ~(0 < 0)
      OBVIOUS
    <3> QED
      BY <1>2, <2>1, <2>3, <2>4, <3>1, LoopRoot
  <2>6. c \in DOMAIN mode' /\ mode'[c] = mode[c]
    BY <2>2 DEF Typed
  <2> QED
    BY <1>1, <1>2, <1>4, <2>2, <2>5, <2>6, HostsGoOn
<1>6. CASE ~(got[c][1] < 128)
  <2>1. PICK q : q = Place("hostFunc", <<>>)
    OBVIOUS
  <2>2. GoTo(c, q) /\ mode' = [mode EXCEPT ![c] = "hosts"]
    BY <1>2, <1>6, <2>1 DEF ReadHosts, Stay
  <2>3. ScanInv(machine, type[c], ToSet(reported[c]), F, "hostFunc", <<>>, "hosts", 0)
    BY <1>2, <1>3, <1>6, SeveralHosts DEF LoopInv
  <2>4. LoopInv(machine, type[c], reported[c], F, q.at, q.stack, "hosts", 0, painted[c])
    BY <1>2, <2>1, <2>3, LoopBetween
  <2>5. c \in DOMAIN mode' /\ mode'[c] = "hosts"
    BY <2>2 DEF Typed
  <2> QED
    BY <1>1, <1>2, <1>4, <2>2, <2>4, <2>5, HostsGoOn
<1> QED
  BY <1>5, <1>6

(* scan has asked for a host. *)
LEMMA HostFuncStep ==
  ASSUME NEW c, Typed(c), AllInv(c), ReadHostFunc(c)
  PROVE  Typed(c)' /\ AllInv(c)'
<1>0. PICK F : LoopInv(machine, type[c], reported[c], F, at[c], stack[c], mode[c], host[c],
                       painted[c])
  BY DEF AllInv
<1>1. Read(c, "hostFunc") /\ KeepLog /\ host' = host
  BY DEF ReadHostFunc
<1>2. /\ ~written[c] /\ at[c] = "hostFunc" /\ stack[c] = <<>>
      /\ Asked(c) \in Place3 /\ "hostFunc" \in DOMAIN Reads /\ ReadInv(c) /\ machine \in Machines
      /\ host[c] \in Nat /\ Asked(c) = <<0, 0, host[c]>>
      /\ LoopInv(machine, type[c], reported[c], F, "hostFunc", <<>>, mode[c], host[c], painted[c])
  BY <1>0, <1>1, AtHost
<1>3. ScanInv(machine, type[c], ToSet(reported[c]), F, "hostFunc", <<>>, mode[c], host[c])
  BY <1>2 DEF LoopInv
<1>4. c \in DOMAIN host' /\ host'[c] = host[c]
  BY <1>1 DEF Typed
<1>5. CASE Asked(c) \in DOMAIN machine
  <2>1. got[c][1] = machine[Asked(c)].vendor
    BY <1>1, <1>2, <1>5, ReadPresent
  <2>2. got[c][1] # PCINull
    BY <1>2, <1>5, <2>1, MachinesAssumption
  <2>3. PICK q : q = ScanBus(<<>>, host[c])
    OBVIOUS
  <2>4. GoTo(c, q) /\ mode' = mode
    BY <2>2, <2>3 DEF ReadHostFunc
  <2>5. /\ ScanInv(machine, type[c], ToSet(reported[c]), F, "slot",
                   ScanBus(<<>>, host[c]).stack, mode[c], host[c])
        /\ host[c] \in Roots(machine)
    BY <1>2, <1>3, <1>5, HostFound
  <2>6. LoopInv(machine, type[c], reported[c], F, q.at, q.stack, mode[c], host[c], painted[c])
    <3>1. host[c] <= host[c] /\ ~(host[c] < host[c])
      BY <1>2
    <3> QED
      BY <1>2, <2>3, <2>5, <3>1, LoopRoot
  <2>7. c \in DOMAIN mode' /\ mode'[c] = mode[c]
    BY <2>4 DEF Typed
  <2> QED
    BY <1>1, <1>2, <1>4, <2>4, <2>6, <2>7, HostsGoOn
<1>6. CASE Asked(c) \notin DOMAIN machine /\ host[c] > 0
  <2>1. got[c][1] = PCINull
    BY <1>1, <1>2, <1>6, ReadAbsent
  <2>2. PICK q : q = Place("done", <<>>)
    OBVIOUS
  <2>3. GoTo(c, q) /\ mode' = mode
    BY <1>2, <1>6, <2>1, <2>2 DEF ReadHostFunc, Stay, Hit, AfterHosts
  <2>4. ScanInv(machine, type[c], ToSet(reported[c]), F, "done", <<>>, mode[c], host[c])
    BY <1>2, <1>3, <1>6, HostsEnd
  <2>5. LoopInv(machine, type[c], reported[c], F, q.at, q.stack, mode[c], host[c], painted[c])
    BY <1>2, <2>2, <2>4, LoopBetween
  <2>6. c \in DOMAIN mode' /\ mode'[c] = mode[c]
    BY <2>3 DEF Typed
  <2> QED
    BY <1>1, <1>2, <1>4, <2>3, <2>5, <2>6, HostsGoOn
<1>7. CASE Asked(c) \notin DOMAIN machine /\ ~(host[c] > 0)
  <2>1. got[c][1] = PCINull
    BY <1>1, <1>2, <1>7, ReadAbsent
  <2>2. PICK q : q = ScanBus(<<>>, 0)
    OBVIOUS
  <2>3. GoTo(c, q) /\ mode' = [mode EXCEPT ![c] = "all"]
    BY <1>7, <2>1, <2>2 DEF ReadHostFunc, Hit
  <2>4. /\ ScanInv(machine, type[c], ToSet(reported[c]), F, "slot", ScanBus(<<>>, 0).stack,
                   "all", host[c])
        /\ host[c] = 0 /\ host[c] \in Roots(machine)
    BY <1>2, <1>3, <1>7, NoHost
  <2>5. LoopInv(machine, type[c], reported[c], F, q.at, q.stack, "all", host[c], painted[c])
    <3>1. 0 \in Nat /\ 0 <= 0 /\ ~(0 < 0)
      OBVIOUS
    <3> QED
      BY <1>2, <2>2, <2>4, <3>1, LoopRoot
  <2>6. c \in DOMAIN mode' /\ mode'[c] = "all"
    BY <2>3 DEF Typed
  <2> QED
    BY <1>1, <1>2, <1>4, <2>3, <2>5, <2>6, HostsGoOn
<1> QED
  BY <1>5, <1>6, <1>7

(* scanBus returns. *)
LEMMA ReturnStep ==
  ASSUME NEW c, Typed(c), AllInv(c), Return(c)
  PROVE  Typed(c)' /\ AllInv(c)'
<1>0. PICK F : LoopInv(machine, type[c], reported[c], F, at[c], stack[c], mode[c], host[c],
                       painted[c])
  BY DEF AllInv
<1>1. at[c] = "return" /\ KeepLog /\ machine \in Machines
  BY DEF Return, Typed
<1>2. ~written[c]
  <2>1. "return" \notin DOMAIN Reads
    BY ReadsAre DEF Innermost
  <2> QED
    BY <1>1, <2>1 DEF AllInv, ReadInv, Reading
<1>3. LoopInv(machine, type[c], reported[c], F, "return", stack[c], mode[c], host[c], painted[c])
  BY <1>0, <1>1
<1>4. ScanInv(machine, type[c], ToSet(reported[c]), F, "return", stack[c], mode[c], host[c])
  BY <1>3 DEF LoopInv
<1>5. CASE stack[c] # <<>>
  <2>1. PICK q : q = AfterFunc(stack[c])
    OBVIOUS
  <2>2. GoTo(c, q) /\ KeepHost
    BY <1>5, <2>1 DEF Return
  <2>3. ScanInv(machine, type[c], ToSet(reported[c]), GrownBy(F, stack[c], q), q.at, q.stack,
                mode[c], host[c])
    BY <1>1, <1>4, <1>5, <2>1, ReturnedTo
  <2>4. Advances(stack[c], q)
    <3>1. stack[c] \in Seq(Frame)
      BY <1>4 DEF ScanInv, StackInv
    <3> QED
      BY <1>5, <2>1, <3>1, LoopsAdvance
  <2>5. LoopInv(machine, type[c], reported[c], GrownBy(F, stack[c], q), q.at, q.stack,
                mode[c], host[c], painted[c])
    BY <1>1, <1>3, <1>5, <2>3, <2>4, LoopAdvances
  <2> QED
    BY <1>1, <1>2, <2>2, <2>5, GoesOn
<1>6. CASE stack[c] = <<>>
  <2> DEFINE md == mode[c]  h == host[c]
  <2>0. ScanInv(machine, type[c], ToSet(reported[c]), F, "return", <<>>, md, h)
    BY <1>4, <1>6
  <2>1. h \in Nat /\ md \in {"one", "hosts", "all"}
    BY <1>1, <2>0, RootDone
  <2>2. LoopInv(machine, type[c], reported[c], F, "return", <<>>, md, h, painted[c])
    BY <1>3, <1>6
  <2>3. \A b \in Roots(machine) : b <= h => b <= h + 1 /\ b < h + 1
    BY <2>1, RootNumber
  <2>4. CASE md = "one"
    <3>1. PICK q : q = Place("done", <<>>)
      OBVIOUS
    <3>2. GoTo(c, q) /\ mode' = mode /\ host' = host
      BY <1>6, <2>4, <3>1 DEF Return, Stay, KeepHost
    <3>3. ScanInv(machine, type[c], ToSet(reported[c]), F, "done", <<>>, md, h)
      BY <1>1, <2>0, <2>4, RootDone
    <3>4. LoopInv(machine, type[c], reported[c], F, q.at, q.stack, md, h, painted[c])
      BY <1>1, <2>2, <3>1, <3>3, LoopBetween
    <3>5. c \in DOMAIN mode' /\ mode'[c] = md /\ c \in DOMAIN host' /\ host'[c] = h
      BY <3>2 DEF Typed
    <3> QED
      BY <1>1, <1>2, <3>2, <3>4, <3>5, HostsGoOn
  <2>5. CASE md # "one"
    <3>1. PICK k \in Nat : k = h + 1
      BY <2>1
    <3>2. host' = [host EXCEPT ![c] = k] /\ mode' = mode
      BY <1>6, <2>5, <3>1 DEF Return
    <3>3. host'[c] = k /\ c \in DOMAIN host' /\ c \in DOMAIN mode' /\ mode'[c] = md
      BY <3>2 DEF Typed
    <3>4. GoTo(c, CASE md = "hosts" /\ k < Funcs -> Place("hostFunc", <<>>)
                    [] md = "all" /\ k < Buses -> ScanBus(<<>>, k)
                    [] OTHER -> Place("done", <<>>))
      BY <1>6, <2>5, <3>3 DEF Return
    <3>5. CASE md = "hosts" /\ k < Funcs
      <4>1. PICK q : q = Place("hostFunc", <<>>)
        OBVIOUS
      <4>2. GoTo(c, q)
        BY <3>4, <3>5, <4>1
      <4>3. ScanInv(machine, type[c], ToSet(reported[c]), F, "hostFunc", <<>>, md, k)
        BY <1>1, <2>0, <3>1, <3>5, RootDone
      <4>4. LoopInv(machine, type[c], reported[c], F, q.at, q.stack, md, k, painted[c])
        BY <1>1, <2>2, <2>3, <3>1, <4>1, <4>3, LoopBetween
      <4> QED
        BY <1>1, <1>2, <3>3, <4>2, <4>4, HostsGoOn
    <3>6. CASE md = "all" /\ k < Buses
      <4>1. PICK q : q = ScanBus(<<>>, k)
        OBVIOUS
      <4>2. GoTo(c, q)
        BY <3>4, <3>6, <4>1
      <4>3. /\ ScanInv(machine, type[c], ToSet(reported[c]), F, "slot",
                       ScanBus(<<>>, k).stack, md, k)
            /\ k \in Roots(machine)
        BY <1>1, <2>0, <3>1, <3>6, RootDone
      <4>4. ~(k <= h) /\ k <= k /\ \A r \in Roots(machine) : r <= h => r <= k
        BY <2>1, <2>3, <3>1
      <4>5. LoopInv(machine, type[c], reported[c], F, q.at, q.stack, md, k, painted[c])
        BY <1>1, <2>2, <4>1, <4>3, <4>4, LoopRoot
      <4> QED
        BY <1>1, <1>2, <3>3, <4>2, <4>5, HostsGoOn
    <3>7. CASE (md = "hosts" /\ ~(k < Funcs)) \/ (md = "all" /\ ~(k < Buses))
      <4>1. PICK q : q = Place("done", <<>>)
        OBVIOUS
      <4>2. GoTo(c, q)
        BY <3>4, <3>7, <4>1
      <4>3. ScanInv(machine, type[c], ToSet(reported[c]), F, "done", <<>>, md, k)
        BY <1>1, <2>0, <3>1, <3>7, RootDone
      <4>4. LoopInv(machine, type[c], reported[c], F, q.at, q.stack, md, k, painted[c])
        BY <1>1, <2>2, <2>3, <3>1, <4>1, <4>3, LoopBetween
      <4> QED
        BY <1>1, <1>2, <3>3, <4>2, <4>4, HostsGoOn
    <3> QED
      BY <2>1, <2>5, <3>5, <3>6, <3>7
  <2> QED
    BY <2>4, <2>5
<1> QED
  BY <1>5, <1>6

-----------------------------------------------------------------------------
(* The theorems *)

(* The scan begins with nothing read, reported or painted. *)
LEMMA ScanBegins ==
  ASSUME NEW c, CPUs = {c}, Init
  PROVE  Typed(c) /\ AllInv(c)
<1>1. /\ machine \in Machines /\ at[c] = "hosts" /\ written[c] = FALSE /\ got[c] = <<>>
      /\ stack[c] = <<>> /\ mode[c] = "one" /\ host[c] = 0 /\ reported[c] = <<>>
      /\ painted[c] = {}
  BY DEF Init
<1>2. Len(<<>>) = 0 /\ (\A i \in 1 .. 0 : FALSE) /\ (\A i \in 1 .. 0 - 1 : FALSE)
  OBVIOUS
<1>3. <<>> \in Seq({}) /\ <<>> \in Seq(Frame) /\ DOMAIN <<>> = {}
  OBVIOUS
<1>4. Typed(c)
  <2>1. /\ c \in DOMAIN at /\ c \in DOMAIN written /\ c \in DOMAIN got /\ c \in DOMAIN stack
        /\ c \in DOMAIN mode /\ c \in DOMAIN host /\ c \in DOMAIN reported
        /\ c \in DOMAIN painted
    BY DEF Init
  <2> QED
    BY <1>1, <1>3, <2>1 DEF Typed
<1>5. ReadInv(c)
  <2>1. at[c] \in DOMAIN Reads => 0 <= Len(Reads[at[c]])
    BY ReadsAre
  <2> QED
    BY <1>1, <1>2, <2>1 DEF ReadInv
<1>6. ToSet(<<>>) = {} /\ IsInjective(<<>>)
  BY <1>3 DEF ToSet, IsInjective
<1>7. ScanInv(machine, type[c], {}, {}, "hosts", <<>>, "one", 0)
  <2>1. Finished(machine, type[c], {}, {})
    BY DEF Finished
  <2>2. StackInv(machine, type[c], {}, {}, <<>>)
    BY <1>2, <1>3 DEF StackInv
  <2>3. HostInv(machine, {}, "hosts", <<>>, "one", 0)
    BY <1>2 DEF HostInv, Innermost
  <2> QED
    BY <2>1, <2>2, <2>3 DEF ScanInv
<1>8. OnceInv(machine, <<>>, {}, "hosts", <<>>, 0)
  BY <1>2, <1>3, <1>6 DEF OnceInv
<1>9. PaintInv(machine, {}, "hosts", {})
  BY DEF PaintInv
<1>10. LoopInv(machine, type[c], <<>>, {}, "hosts", <<>>, "one", 0, {})
  BY <1>6, <1>7, <1>8, <1>9 DEF LoopInv
<1> QED
  BY <1>1, <1>4, <1>5, <1>10 DEF AllInv

(* Every step of a lone processor keeps to the invariant. *)
LEMMA ScanGoesOn ==
  ASSUME NEW c, CPUs = {c}, Typed(c), AllInv(c), [Next]_vars
  PROVE  Typed(c)' /\ AllInv(c)'
<1>1. CASE UNCHANGED vars
  <2>1. /\ machine' = machine /\ port' = port /\ type' = type /\ at' = at
        /\ written' = written /\ got' = got /\ stack' = stack /\ mode' = mode
        /\ host' = host /\ reported' = reported /\ painted' = painted
    BY <1>1 DEF vars
  <2>2. Device(c)' = Device(c) /\ Field(c)' = Field(c) /\ Reading(c)' = Reading(c)
    BY <2>1 DEF Device, Field, Reading
  <2>3. \A r : Answer(c, r)' = Answer(c, r)
    BY <2>1, <2>2, SameAnswers
  <2>4. ReadInv(c)'
    BY <2>1, <2>2, <2>3, Zenon DEF AllInv, ReadInv
  <2> QED
    BY <2>1, <2>4 DEF Typed, AllInv
<1>2. CASE Next
  <2>1. Step(c)
    BY <1>2 DEF Next
  <2> QED
    BY <2>1, AddressOut, ValueIn, HostsStep, HostFuncStep, SlotStep, FilterStep, ReportStep,
       PaintStep, BridgeStep, SecondaryStep, HeaderStep, FuncStep, ReturnStep DEF Step
<1> QED
  BY <1>1, <1>2

(* Only one processor scans. *)
OneProcessor == \E c : CPUs = {c}

(* What a processor alone relies on, for whatever is plugged in: finished  *)
(* buses are closed under bridges and told of, the stack is a path of      *)
(* bridges, and each value that was read is that of the register.          *)
THEOREM Scans ==
  ASSUME NEW c, CPUs = {c}
  PROVE  Spec => [](Typed(c) /\ AllInv(c))
<1>1. Init => Typed(c) /\ AllInv(c)
  BY ScanBegins
<1>2. (Typed(c) /\ AllInv(c)) /\ [Next]_vars => (Typed(c) /\ AllInv(c))'
  BY ScanGoesOn
<1> QED
  BY <1>1, <1>2, PTL DEF Spec

(* At the end everything that can be reached has been told of. *)
LEMMA EverythingFound ==
  ASSUME NEW c, Typed(c), AllInv(c), at[c] = "done"
  PROVE  ToSet(reported[c]) = Wanted(machine, type[c])
<1> DEFINE m == machine  t == type[c]  R == ToSet(reported[c])
<1>1. PICK F \in SUBSET (0 .. Buses - 1) :
        LoopInv(m, t, reported[c], F, at[c], stack[c], mode[c], host[c], painted[c])
  BY DEF AllInv
<1>2. /\ Finished(m, t, R, F) /\ Roots(m) \subseteq F /\ R \subseteq Wanted(m, t)
  BY <1>1 DEF LoopInv, ScanInv, HostInv
<1>3. Closed(m, F)
  BY <1>2 DEF Finished, Handled, Closed
<1>4. Reached(m) \subseteq F
  BY <1>1, <1>3 DEF Reached
<1>5. ASSUME NEW e \in Wanted(m, t) PROVE e \in R
  <2>1. PICK p \in DOMAIN m : /\ p[1] \in Reached(m) /\ Visible(m, p) /\ Matches(m, t, p)
                              /\ e = Entry(m, p)
    BY DEF Wanted, Matches, Entry
  <2>2. Told(m, t, R, p)
    BY <1>2, <1>4, <2>1 DEF Finished, Handled
  <2> QED
    BY <2>1, <2>2 DEF Told
<1> QED
  BY <1>2, <1>5

(* A scan that no other disturbs calls back for what can be reached and    *)
(* matches, and for nothing else, on every machine (scan, scanBus,         *)
(* scanSlot, scanFunc).                                                    *)
THEOREM ScanCompleteHolds ==
  ASSUME OneProcessor
  PROVE  Spec => []ScanComplete
<1>1. PICK c : CPUs = {c}
  BY DEF OneProcessor
<1>2. Spec => [](Typed(c) /\ AllInv(c))
  BY <1>1, Scans
<1>3. Typed(c) /\ AllInv(c) => ScanComplete
  BY <1>1, EverythingFound DEF ScanComplete
<1> QED
  BY <1>2, <1>3, PTL

(* It calls back once for each function if no bus has two parents.         *)
THEOREM ReportedOnceHolds ==
  ASSUME OneProcessor
  PROVE  Spec => []ReportedOnce
<1>1. PICK c : CPUs = {c}
  BY DEF OneProcessor
<1>2. Spec => [](Typed(c) /\ AllInv(c))
  BY <1>1, Scans
<1>3. Typed(c) /\ AllInv(c) => ReportedOnce
  BY <1>1 DEF AllInv, LoopInv, OnceInv, ReportedOnce
<1> QED
  BY <1>2, <1>3, PTL

(* And it paints each pixel of a machine's only display, and nothing else, *)
(* if the address registers of the display have no flag bits set.          *)
THEOREM PictureWholeHolds ==
  ASSUME OneProcessor, \A m \in Machines : OneDisplay(m)
  PROVE  Spec => []PictureWhole
<1>1. PICK c : CPUs = {c}
  BY DEF OneProcessor
<1>2. Spec => [](Typed(c) /\ AllInv(c))
  BY <1>1, Scans
<1>3. ASSUME Typed(c), AllInv(c) PROVE PictureWhole
  <2> SUFFICES ASSUME NEW p \in DOMAIN machine, machine[p].screen # <<>>, at[c] = "done",
                      type[c] = AnyType, p[1] \in Reached(machine), Visible(machine, p),
                      Flagless(machine[p])
               PROVE  painted[c] = {BaseOf(machine[p].bar0) + 4 * i :
                        i \in 0 .. machine[p].screen[XRes] * machine[p].screen[YRes] - 1}
    BY <1>1, Zenon DEF PictureWhole
  <2>1. OneDisplay(machine)
    BY <1>3 DEF Typed
  <2>2. PaintInv(machine, ToSet(reported[c]), "done", painted[c])
    BY <1>3, <2>1 DEF AllInv, LoopInv
  <2>3. Entry(machine, p) \in Wanted(machine, type[c])
    BY DEF Wanted, Entry
  <2>4. Entry(machine, p) \in ToSet(reported[c])
    BY <1>3, <2>3, EverythingFound
  <2>5. painted[c] = Picture(machine[p])
    BY <2>2, <2>4 DEF PaintInv
  <2>6. BaseOf(machine[p].bar0) = machine[p].bar0
    <3>1. machine[p].bar0 \in Long
      BY <1>3, MachinesAssumption DEF Typed
    <3> QED
      BY <3>1 DEF Flagless, BaseOf, Long
  <2> QED
    BY <2>5, <2>6, Zenon DEF Picture
<1> QED
  BY <1>2, <1>3, PTL
=============================================================================

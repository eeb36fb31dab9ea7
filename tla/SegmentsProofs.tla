-------------------------- MODULE SegmentsProofs ----------------------------
(***************************************************************************)
(* The properties of Segments wherever the linker put the stubs and the    *)
(* task state segment, and whatever vectors are raised.                    *)
(***************************************************************************)
EXTENDS Segments, SequenceTheorems, TLAPS

(* The one-line parts of the model. *)
USE DEF Ring0, Ring3, KernelCode, KernelData, UserCode32, UserData32,
        UserCode64, UserData64, TssEntry, TableSize, AvailableTSS, BusyTSS,
        TaskSelector, KernelSelector, UserSelector, FirstUserCode

Address == [1 .. 8 -> 0 .. 255]

(* The access bytes and flags of the segments the processor loads, and the *)
(* TSS entry with every byte of its base; of the latter's access byte, the *)
(* type changes when the task register is loaded.                          *)
Described(t, base, access) ==
  /\ t[8][6] = 154 /\ t[8][7] = 47
  /\ t[16][6] = 146
  /\ t[32][6] = 242
  /\ t[40][6] = 250 /\ t[40][7] = 47
  /\ t[48][6] = 242
  /\ t[56] = <<104, 0, base[1], base[2], base[3], access, 0, base[4]>>
  /\ t[64] = <<base[5], base[6], base[7], base[8], 0, 0, 0, 0>>

(* The steps before the task register is loaded. *)
Installing == {"init", "lgdt", "lretq", "data", "ltr"}

(* What the tables and the registers that name them hold. *)
TablesSet ==
  /\ tss \in TssAddresses
  /\ pc \in {"lgdt", "lretq", "data", "ltr"} => table = init(tss)
  /\ pc \notin Installing => Described(table, tss, 139)
  /\ pc # "init" => idt = setupIDTTable
  /\ pc \notin {"init", "lgdt"} => gdt = TableSize - 1
  /\ tr = IF pc \in Installing THEN 0 ELSE TaskSelector
  /\ pc \notin Installing \union {"star"} =>
       star = <<KernelSelector, UserSelector>>

(* The selectors code runs with: user code's data segment is the 64-bit    *)
(* one after the first return and the 32-bit one after a sysretq, and an   *)
(* interrupt from user code leaves a null selector that the scheduler      *)
(* keeps when it ends the process.                                         *)
UserSelectors(c, s) ==
  c = UserCode64 + 3 /\ s \in {UserData64 + 3, UserData32 + 3}
KernelSelectors(c, s) == c = KernelCode /\ s \in {0, KernelData}

Segmented ==
  /\ pc \in {"data", "ltr", "star"} => cs = KernelCode
  /\ pc \in {"ltr", "star"} => ss = KernelData
  /\ pc = "user" => UserSelectors(cs, ss)
  /\ pc \in {"kernel", "syscall", "handler", "panic"} => KernelSelectors(cs, ss)

(* The frames on the interrupt stack hold the selectors of the code they   *)
(* interrupted, and the vector that was entered for it.                    *)
Interruptible == {"user", "syscall", "kernel", "handler"}
Frame == [cs : Nat, ss : Nat, back : Interruptible, software : BOOLEAN,
          called : Vectors, vector : 0 .. 255]
FrameOK(f) ==
  /\ f.back = "user" => UserSelectors(f.cs, f.ss)
  /\ f.back # "user" => KernelSelectors(f.cs, f.ss)
  /\ f.software => f.vector \in {SyscallInterrupt, 13}
Stacked ==
  /\ frames \in Seq(Frame)
  /\ \A i \in DOMAIN frames : FrameOK(frames[i])
  /\ pc = "handler" => frames # <<>>
  /\ frames # <<>> => frames[1].back # "handler"

Steps == Installing \union {"star", "panic"} \union Interruptible

(* The inductive invariant. *)
SegmentsInv ==
  /\ pc \in Steps /\ fault = FALSE
  /\ TablesSet /\ Segmented /\ Stacked
  /\ entered # <<>> => entered[2] = Stub[entered[1]]

-----------------------------------------------------------------------------
(* Table::init stores the bytes that Described names. *)
LEMMA InitTable ==
  ASSUME NEW base \in Address
  PROVE  Described(init(base), base, 137)
<1> DEFINE Offsets == {8 * i : i \in 0 .. 8}
<1>1. /\ 8 \in Offsets /\ 16 \in Offsets /\ 32 \in Offsets /\ 40 \in Offsets
      /\ 48 \in Offsets /\ 56 \in Offsets /\ 64 \in Offsets
  <2>1. /\ 8 = 8 * 1 /\ 16 = 8 * 2 /\ 32 = 8 * 4 /\ 40 = 8 * 5 /\ 48 = 8 * 6
        /\ 56 = 8 * 7 /\ 64 = 8 * 8
    OBVIOUS
  <2>2. /\ 1 \in 0 .. 8 /\ 2 \in 0 .. 8 /\ 4 \in 0 .. 8 /\ 5 \in 0 .. 8
        /\ 6 \in 0 .. 8 /\ 7 \in 0 .. 8 /\ 8 \in 0 .. 8
    OBVIOUS
  <2> QED
    BY <2>1, <2>2
<1>2. /\ UserAccessByte(1, 1, 0) = 154 /\ UserAccessByte(1, 1, 3) = 250
      /\ UserAccessByte(1, 0, 0) = 146 /\ UserAccessByte(1, 0, 3) = 242
      /\ SystemAccessByte(9, 0) = 137
      /\ Flags(1, 0, 0) = 2 /\ Flags(0, 1, 0) = 4
  BY DEF UserAccessByte, SystemAccessByte, Flags
<1>3. ASSUME NEW access, NEW flags
      PROVE  /\ UserEntry(AllBytes, NoBytes, access, flags)[6] = access
             /\ UserEntry(AllBytes, NoBytes, access, flags)[7]
                  = 15 + 16 * (flags % 16)
  BY DEF UserEntry, AllBytes, NoBytes
<1> HIDE DEF Offsets
<1>4. /\ init(base)[8] = UserEntry(AllBytes, NoBytes, 154, 2)
      /\ init(base)[40] = UserEntry(AllBytes, NoBytes, 250, 2)
  BY <1>1, <1>2 DEF init, LongModeCode, Offsets
<1>5. /\ init(base)[16] = UserEntry(AllBytes, NoBytes, 146, 4)
      /\ init(base)[32] = UserEntry(AllBytes, NoBytes, 242, 4)
      /\ init(base)[48] = UserEntry(AllBytes, NoBytes, 242, 4)
  BY <1>1, <1>2 DEF init, LongModeCode, Offsets
<1>6. /\ init(base)[56] = UserEntry(TssSize, SubSeq(base, 1, 4), 137, 0)
      /\ init(base)[64] = HighHalf(base)
  BY <1>1, <1>2 DEF init, Offsets
<1>7. /\ SubSeq(base, 1, 4)[1] = base[1] /\ SubSeq(base, 1, 4)[2] = base[2]
      /\ SubSeq(base, 1, 4)[3] = base[3] /\ SubSeq(base, 1, 4)[4] = base[4]
  BY DEF Address
<1>8. UserEntry(TssSize, SubSeq(base, 1, 4), 137, 0)
        = <<104, 0, base[1], base[2], base[3], 137, 0, base[4]>>
  BY <1>7 DEF UserEntry, TssSize
<1> QED
  BY <1>3, <1>4, <1>5, <1>6, <1>8 DEF Described, HighHalf

(* setGate takes an address apart and getGate puts it together again. *)
LEMMA GateRoundTrip ==
  ASSUME NEW h \in Address, NEW selector, NEW flags, NEW user
  PROVE  getGate(setGate(h, selector, flags, user)) = h
<1> DEFINE low == SubSeq(h, 1, 2)
           mid == SubSeq(h, 3, 4)
           high == SubSeq(h, 5, 8)
<1>1. /\ low \in Seq(0 .. 255) /\ Len(low) = 2
      /\ mid \in Seq(0 .. 255) /\ Len(mid) = 2
      /\ high \in Seq(0 .. 255) /\ Len(high) = 4
  BY DEF Address
<1>2. /\ low[1] = h[1] /\ low[2] = h[2] /\ mid[1] = h[3] /\ mid[2] = h[4]
      /\ high[1] = h[5] /\ high[2] = h[6] /\ high[3] = h[7] /\ high[4] = h[8]
  BY DEF Address
<1> HIDE DEF low, mid, high
<1> DEFINE lowmid == low \o mid
           all == lowmid \o high
<1>3. /\ lowmid \in Seq(0 .. 255) /\ Len(lowmid) = 4
      /\ lowmid[1] = h[1] /\ lowmid[2] = h[2]
      /\ lowmid[3] = h[3] /\ lowmid[4] = h[4]
  <2>1. /\ lowmid \in Seq(0 .. 255) /\ Len(lowmid) = Len(low) + Len(mid)
        /\ \A i \in 1 .. Len(low) + Len(mid) :
             lowmid[i] = IF i =< Len(low) THEN low[i] ELSE mid[i - Len(low)]
    <3>1. low \in Seq(0 .. 255) /\ mid \in Seq(0 .. 255)
      BY <1>1
    <3> QED
      BY <3>1, ConcatProperties, ZenonT(30)
  <2>2. \A i \in 1 .. 4 : lowmid[i] = IF i =< 2 THEN low[i] ELSE mid[i - 2]
    BY <1>1, <2>1
  <2> HIDE DEF lowmid
  <2> QED
    BY <1>1, <1>2, <2>1, <2>2
<1> HIDE DEF lowmid
<1>4. /\ all \in Seq(0 .. 255) /\ Len(all) = 8
      /\ \A i \in 1 .. 8 : all[i] = IF i =< 4 THEN lowmid[i] ELSE high[i - 4]
  <2>1. /\ all \in Seq(0 .. 255) /\ Len(all) = Len(lowmid) + Len(high)
        /\ \A i \in 1 .. Len(lowmid) + Len(high) :
             all[i] = IF i =< Len(lowmid) THEN lowmid[i]
                                          ELSE high[i - Len(lowmid)]
    <3>1. lowmid \in Seq(0 .. 255) /\ high \in Seq(0 .. 255)
      BY <1>1, <1>3
    <3> QED
      BY <3>1, ConcatProperties, ZenonT(30)
  <2> HIDE DEF all
  <2> QED
    BY <1>1, <1>3, <2>1
<1> HIDE DEF all
<1>5. all \in [1 .. 8 -> 0 .. 255]
  <2>1. all \in [1 .. Len(all) -> 0 .. 255]
    BY <1>4, LenProperties
  <2> QED
    BY <1>4, <2>1
<1>6. /\ all[1] = h[1] /\ all[2] = h[2] /\ all[3] = h[3] /\ all[4] = h[4]
      /\ all[5] = h[5] /\ all[6] = h[6] /\ all[7] = h[7] /\ all[8] = h[8]
  BY <1>2, <1>3, <1>4
<1>7. \A i \in 1 .. 8 : all[i] = h[i]
  <2>1. \A i \in 1 .. 8 : i = 1 \/ i = 2 \/ i = 3 \/ i = 4 \/ i = 5 \/ i = 6
                          \/ i = 7 \/ i = 8
    OBVIOUS
  <2> QED
    BY <1>6, <2>1
<1>8. all = h
  BY <1>5, <1>7 DEF Address
<1> QED
  BY <1>8 DEF getGate, setGate, low, mid, high, lowmid, all

-----------------------------------------------------------------------------
(* The selectors that the code names and the hardware computes load. *)
LEMMA SelectorFacts ==
  /\ Offset(8) = 8 /\ Offset(16) = 16 /\ Offset(35) = 32 /\ Offset(43) = 40
  /\ Offset(51) = 48 /\ Offset(59) = 56
  /\ RPL(0) = 0 /\ RPL(8) = 0 /\ RPL(16) = 0 /\ RPL(35) = 3 /\ RPL(43) = 3
  /\ RPL(51) = 3
  BY DEF Offset, RPL

(* With the table that init stores, in memory and in gdt, every selector   *)
(* passes the checks of the load it is used for.                           *)
LEMMA Loads ==
  ASSUME NEW base, NEW access, gdt = TableSize - 1,
         Described(table, base, access)
  PROVE  /\ CodeLoads(8, 0) /\ CodeLoads(43, 3)
         /\ StackLoads(0, 0) /\ StackLoads(16, 0) /\ DataLoads(16)
         /\ StackLoads(35, 3) /\ StackLoads(51, 3)
         /\ IsLong(8) /\ IsLong(43)
         /\ access = 137 => TaskLoads(59)
         /\ access = 139 => SystemType(59) = 11
<1> USE SelectorFacts DEF Inside, Present, IsUserSegment, IsCode, IsData,
        IsLong, DPL, Access
<1>1. CodeLoads(8, 0) /\ CodeLoads(43, 3)
  BY DEF CodeLoads, Described
<1>2. StackLoads(0, 0) /\ StackLoads(16, 0) /\ DataLoads(16)
  BY DEF StackLoads, DataLoads, Described
<1>3. StackLoads(35, 3) /\ StackLoads(51, 3)
  BY DEF StackLoads, Described
<1>4. IsLong(8) /\ IsLong(43)
  BY DEF Described
<1>5. /\ access = 137 => TaskLoads(59)
      /\ access = 139 => SystemType(59) = 11
  BY DEF TaskLoads, SystemType, Described
<1> QED
  BY <1>1, <1>2, <1>3, <1>4, <1>5

(* The gates: every vector that can be entered has one that leads to its   *)
(* stub with the kernel's code segment, and only that of the system call   *)
(* may be called by user code.                                             *)
LEMMA Gates ==
  ASSUME idt = setupIDTTable, NEW v \in 0 .. 255
  PROVE  /\ GatePresent(idt[v]) =>
              idt[v].selector = 8 /\ getGate(idt[v]) = Stub[v]
         /\ v \in {11, 13} => GatePresent(idt[v])
         /\ ~(GateDPL(idt[v]) < 3) => v = SyscallInterrupt
<1> DEFINE Set == 0 .. 47 \union 123 .. 126 \union {SyscallInterrupt}
<1>1. Stub[v] \in Address
  BY SegmentsAssumption DEF Address
<1>2. CASE v \in Set
  <2>1. idt[v] = setGate(Stub[v], 8, 142, v = SyscallInterrupt)
    BY <1>2 DEF setupIDTTable, InterruptGate
  <2>2. /\ idt[v].selector = 8
        /\ idt[v].flags = IF v = SyscallInterrupt THEN 238 ELSE 142
    BY <2>1 DEF setGate, GateFlags
  <2>3. getGate(idt[v]) = Stub[v]
    BY <1>1, <2>1, GateRoundTrip
  <2> QED
    BY <2>2, <2>3 DEF GatePresent, GateDPL, SyscallInterrupt
<1>3. CASE v \notin Set
  <2>1. idt[v] = NoGate
    BY <1>3 DEF setupIDTTable
  <2>2. idt[v].flags = 0
    BY <2>1 DEF NoGate
  <2>3. v \notin {11, 13}
    BY <1>3 DEF SyscallInterrupt
  <2> QED
    BY <2>2, <2>3 DEF GatePresent, GateDPL
<1> QED
  BY <1>2, <1>3

(* The invariant holds when the boot loader calls the kernel. *)
LEMMA SegmentsInit == Init => SegmentsInv
<1> SUFFICES ASSUME Init PROVE SegmentsInv
  OBVIOUS
<1>1. TablesSet
  BY DEF Init, TablesSet, Installing
<1>2. Segmented /\ Stacked
  BY DEF Init, Segmented, Stacked
<1> QED
  BY <1>1, <1>2 DEF Init, SegmentsInv, Steps, Installing

(* A step that leaves the tables alone keeps what they hold. *)
LEMMA TablesKept ==
  ASSUME TablesSet, UNCHANGED <<tss, table, gdt, idt, star, tr>>,
         pc \notin Installing \union {"star"},
         pc' \notin Installing \union {"star"}
  PROVE  TablesSet'
  BY DEF TablesSet, Installing

(* Every step keeps the invariant: no load of a segment raises an          *)
(* exception, and every change of privilege ends with the selectors of the *)
(* code it goes to.                                                        *)
LEMMA SegmentsNext == SegmentsInv /\ [Next]_vars => SegmentsInv'
<1> SUFFICES ASSUME SegmentsInv, [Next]_vars PROVE SegmentsInv'
  OBVIOUS
<1>0. /\ pc \in Steps /\ fault = FALSE
      /\ TablesSet /\ Segmented /\ Stacked
      /\ entered # <<>> => entered[2] = Stub[entered[1]]
  BY DEF SegmentsInv
<1> USE DEF Installing, Interruptible, Steps
<1>1. CASE UNCHANGED vars
  BY <1>0, <1>1 DEF vars, SegmentsInv, TablesSet, Segmented, Stacked
<1>2. CASE InitTables
  <2>1. TablesSet'
    BY <1>0, <1>2 DEF InitTables, TablesSet
  <2> QED
    BY <1>0, <1>2, <2>1 DEF InitTables, SegmentsInv, Segmented, Stacked
<1>3. CASE LoadGDT
  <2>1. TablesSet'
    BY <1>0, <1>3 DEF LoadGDT, TablesSet
  <2> QED
    BY <1>0, <1>3, <2>1 DEF LoadGDT, SegmentsInv, Segmented, Stacked
<1>4. ASSUME pc \in {"lretq", "data", "ltr"}
      PROVE  gdt = TableSize - 1 /\ Described(table, tss, 137)
  <2>1. tss \in Address
    BY <1>0, SegmentsAssumption DEF TablesSet, Address
  <2> QED
    BY <1>0, <1>4, <2>1, InitTable DEF TablesSet
<1>5. CASE FarReturn
  <2>1. CodeLoads(8, 0)
    BY <1>4, <1>5, Loads DEF FarReturn
  <2>2. TablesSet'
    BY <1>0, <1>5 DEF FarReturn, TablesSet
  <2>3. fault' = FALSE
    BY <1>0, <1>5, <2>1 DEF FarReturn, Load
  <2> QED
    BY <1>0, <1>5, <2>2, <2>3 DEF FarReturn, SegmentsInv, Segmented, Stacked
<1>6. CASE LoadData
  <2>1. DataLoads(16) /\ StackLoads(16, 0)
    BY <1>4, <1>6, Loads DEF LoadData
  <2>2. TablesSet'
    BY <1>0, <1>6 DEF LoadData, TablesSet
  <2>3. fault' = FALSE
    BY <1>0, <1>6, <2>1 DEF LoadData, Load
  <2> QED
    BY <1>0, <1>6, <2>2, <2>3 DEF LoadData, SegmentsInv, Segmented, Stacked
<1>7. CASE LoadTask
  <2>1. TaskLoads(59) /\ Described(table, tss, 137) /\ gdt = TableSize - 1
    BY <1>4, <1>7, Loads DEF LoadTask
  <2>2. fault' = FALSE
    BY <1>0, <1>7, <2>1 DEF LoadTask, Load
  <2>3. table' = [table EXCEPT ![56][6] = @ + 11 - 9]
    BY <1>7, SelectorFacts DEF LoadTask
  <2>4. Described(table', tss, 139)
    <3>1. table = [o \in {8 * i : i \in 0 .. 8} |-> table[o]]
      BY <1>0, <1>7 DEF LoadTask, TablesSet, init
    <3>2. 56 \in {8 * i : i \in 0 .. 8}
      <4>1. 56 = 8 * 7 /\ 7 \in 0 .. 8
        OBVIOUS
      <4> QED
        BY <4>1
    <3>3. /\ \A o \in {8, 16, 32, 40, 48, 64} : table'[o] = table[o]
          /\ table'[56] = [table[56] EXCEPT ![6] = @ + 11 - 9]
      BY <2>3, <3>1, <3>2
    <3>4. table'[56] = <<104, 0, tss[1], tss[2], tss[3], 139, 0, tss[4]>>
      BY <2>1, <3>3 DEF Described
    <3> QED
      BY <2>1, <3>3, <3>4 DEF Described
  <2>5. TablesSet'
    BY <1>0, <1>7, <2>1, <2>4 DEF LoadTask, TablesSet
  <2> QED
    BY <1>0, <1>7, <2>2, <2>5 DEF LoadTask, SegmentsInv, Segmented, Stacked
<1>8. CASE setStarRegister
  <2>1. TablesSet'
    BY <1>0, <1>8 DEF setStarRegister, TablesSet
  <2> QED
    BY <1>0, <1>8, <2>1 DEF setStarRegister, SegmentsInv, Segmented, Stacked,
       KernelSelectors
<1>9. ASSUME pc \notin Installing \union {"star"}
      PROVE  /\ gdt = TableSize - 1 /\ Described(table, tss, 139)
             /\ star = <<8, 27>> /\ idt = setupIDTTable /\ tr = 59
  BY <1>0, <1>9 DEF TablesSet
<1>10. CASE EnterUser
  <2>1. cs' = 43 /\ ss' = 51
    BY <1>10 DEF EnterUser
  <2>2. CodeLoads(cs', 3) /\ StackLoads(ss', 3)
    BY <1>9, <1>10, <2>1, Loads DEF EnterUser
  <2>3. fault' = FALSE
    BY <1>0, <1>10, <2>2 DEF EnterUser, Load
  <2>4. TablesSet'
    BY <1>0, <1>10, TablesKept DEF EnterUser
  <2> QED
    BY <1>0, <1>10, <2>1, <2>3, <2>4 DEF EnterUser, SegmentsInv, Segmented,
       Stacked, UserSelectors
<1>11. CASE Syscall
  <2>1. cs' = 8 /\ ss' = 16
    BY <1>9, <1>11, SelectorFacts DEF Syscall
  <2>2. CodeLoads(cs', 0) /\ StackLoads(ss', 0)
    BY <1>9, <1>11, <2>1, Loads DEF Syscall
  <2>3. fault' = FALSE
    BY <1>0, <1>11, <2>2 DEF Syscall, Load
  <2>4. TablesSet'
    BY <1>0, <1>11, TablesKept DEF Syscall
  <2> QED
    BY <1>0, <1>11, <2>1, <2>3, <2>4 DEF Syscall, SegmentsInv, Segmented,
       Stacked, KernelSelectors
<1>12. CASE Sysret
  <2>1. cs' = 43 /\ ss' = 35
    BY <1>9, <1>12, SelectorFacts DEF Sysret
  <2>2. CodeLoads(cs', 3) /\ StackLoads(ss', 3)
    BY <1>9, <1>12, <2>1, Loads DEF Sysret
  <2>3. fault' = FALSE
    BY <1>0, <1>12, <2>2 DEF Sysret, Load
  <2>4. TablesSet'
    BY <1>0, <1>12, TablesKept DEF Sysret
  <2> QED
    BY <1>0, <1>12, <2>1, <2>3, <2>4 DEF Sysret, SegmentsInv, Segmented,
       Stacked, UserSelectors
<1>13. ASSUME NEW v \in Vectors, NEW software \in BOOLEAN, Enter(v, software)
       PROVE  SegmentsInv'
  <2> DEFINE w == IF software /\ GateDPL(idt[v]) < CPL THEN 13
                  ELSE IF ~GatePresent(idt[v]) THEN 11 ELSE v
             frame == [cs |-> cs, ss |-> ss, back |-> pc,
                       software |-> software, called |-> v, vector |-> w]
  <2>1. /\ pc \in Interruptible /\ (software => pc = "user")
        /\ frames' = Append(frames, frame)
        /\ cs' = idt[w].selector /\ ss' = IF CPL = 3 THEN 0 ELSE ss
        /\ Load(CodeLoads(idt[w].selector, 0) /\ SystemType(tr) = 11)
        /\ entered' = <<w, getGate(idt[w])>>
        /\ pc' = "handler"
        /\ UNCHANGED <<tss, table, gdt, idt, star, ds, tr>>
    BY <1>13 DEF Enter
  <2>2. /\ gdt = TableSize - 1 /\ Described(table, tss, 139)
        /\ idt = setupIDTTable /\ tr = 59
    BY <1>9, <2>1
  <2>3. CPL = IF pc = "user" THEN 3 ELSE 0
    BY <1>0, <2>1, SelectorFacts DEF CPL, Segmented, UserSelectors,
       KernelSelectors
  <2>4. v \in 0 .. 255
    BY SegmentsAssumption
  <2>5. /\ w \in 0 .. 255 /\ GatePresent(idt[w])
        /\ software => w \in {SyscallInterrupt, 13}
    <3>1. CASE software /\ GateDPL(idt[v]) < CPL
      <4>1. w = 13 /\ 13 \in 0 .. 255
        BY <3>1
      <4> QED
        BY <2>2, <4>1, Gates
    <3>2. CASE ~(software /\ GateDPL(idt[v]) < CPL) /\ ~GatePresent(idt[v])
      <4>1. w = 11 /\ 11 \in 0 .. 255
        BY <3>2
      <4>2. GatePresent(idt[SyscallInterrupt])
        BY <2>2 DEF setupIDTTable, setGate, GateFlags, InterruptGate,
           GatePresent, SyscallInterrupt
      <4>3. software => v = SyscallInterrupt
        BY <2>1, <2>2, <2>3, <2>4, <3>2, Gates
      <4> QED
        BY <2>2, <3>2, <4>1, <4>2, <4>3, Gates
    <3>3. CASE ~(software /\ GateDPL(idt[v]) < CPL) /\ GatePresent(idt[v])
      <4>1. w = v
        BY <3>3
      <4>2. software => v = SyscallInterrupt
        BY <2>1, <2>2, <2>3, <2>4, <3>3, Gates
      <4> QED
        BY <2>4, <3>3, <4>1, <4>2
    <3> QED
      BY <3>1, <3>2, <3>3
  <2> HIDE DEF w
  <2>6. idt[w].selector = 8 /\ getGate(idt[w]) = Stub[w]
    BY <2>2, <2>5, Gates
  <2>7. fault' = FALSE
    <3>1. CodeLoads(idt[w].selector, 0) /\ SystemType(tr) = 11
      BY <2>2, <2>6, Loads
    <3> QED
      BY <1>0, <2>1, <3>1 DEF Load
  <2>8. TablesSet'
    BY <1>0, <2>1, TablesKept
  <2>9. frame \in Frame /\ FrameOK(frame)
    BY <1>0, <2>1, <2>4, <2>5 DEF Frame, FrameOK, Segmented, UserSelectors,
       KernelSelectors
  <2>10. Stacked'
    <3> HIDE DEF frame
    <3>1. /\ frames' \in Seq(Frame) /\ frames' # <<>>
          /\ frames'[1] = IF frames = <<>> THEN frame ELSE frames[1]
          /\ \A i \in DOMAIN frames' :
               frames'[i] = frame \/ (i \in DOMAIN frames /\ frames'[i] = frames[i])
      BY <1>0, <2>1, <2>9 DEF Stacked
    <3>2. frames = <<>> => frame.back # "handler"
      BY <1>0 DEF Stacked, frame
    <3> QED
      BY <1>0, <2>9, <3>1, <3>2 DEF Stacked
  <2>11. KernelSelectors(cs', ss')
    BY <1>0, <2>1, <2>3, <2>6 DEF KernelSelectors, Segmented
  <2>12. Segmented'
    BY <2>1, <2>11 DEF Segmented
  <2>13. entered'[2] = Stub[entered'[1]]
    BY <2>1, <2>6
  <2> QED
    BY <2>1, <2>7, <2>8, <2>10, <2>12, <2>13 DEF SegmentsInv
<1>14. ASSUME pc = "handler" PROVE Top \in Frame /\ FrameOK(Top)
  <2>1. Len(frames) \in DOMAIN frames
    BY <1>0, <1>14 DEF Stacked
  <2> QED
    BY <1>0, <2>1 DEF Stacked, Top
<1>15. CASE Return
  <2>1. /\ pc = "handler" /\ pc' = Top.back
        /\ frames' = SubSeq(frames, 1, Len(frames) - 1)
        /\ cs' = Top.cs /\ ss' = Top.ss
        /\ Load(CodeLoads(Top.cs, RPL(Top.cs)) /\ StackLoads(Top.ss, RPL(Top.cs)))
        /\ UNCHANGED <<tss, table, gdt, idt, star, ds, tr, entered>>
    BY <1>15 DEF Return
  <2>2. Top \in Frame /\ FrameOK(Top)
    BY <1>14, <2>1
  <2>3. pc' \in Interruptible
    BY <2>1, <2>2 DEF Frame
  <2>4. CodeLoads(Top.cs, RPL(Top.cs)) /\ StackLoads(Top.ss, RPL(Top.cs))
    BY <1>9, <2>1, <2>2, Loads, SelectorFacts DEF FrameOK, UserSelectors,
       KernelSelectors
  <2>5. fault' = FALSE
    BY <1>0, <2>1, <2>4 DEF Load
  <2>6. TablesSet'
    BY <1>0, <2>1, <2>3, TablesKept
  <2>7. Segmented'
    BY <2>1, <2>2, <2>3 DEF Segmented, FrameOK
  <2>8. Stacked'
    <3>1. frames \in Seq(Frame) /\ Len(frames) \in Nat /\ Len(frames) > 0
      BY <1>0, <2>1 DEF Stacked
    <3>2. /\ frames' \in Seq(Frame) /\ Len(frames') = Len(frames) - 1
          /\ \A i \in 1 .. Len(frames) - 1 : frames'[i] = frames[i]
      <4> DEFINE n == Len(frames) - 1
      <4>1. n \in Int /\ n >= 0 /\ \A i \in 1 .. n : frames[i] \in Frame
        BY <3>1
      <4> HIDE DEF n
      <4>2. /\ SubSeq(frames, 1, n) \in Seq(Frame)
            /\ Len(SubSeq(frames, 1, n)) = IF 1 =< n THEN n - 1 + 1 ELSE 0
            /\ \A i \in 1 .. n - 1 + 1 : SubSeq(frames, 1, n)[i] = frames[1 + i - 1]
        BY <4>1, SubSeqProperties
      <4>3. /\ Len(SubSeq(frames, 1, n)) = n
            /\ \A i \in 1 .. n : SubSeq(frames, 1, n)[i] = frames[i]
        BY <4>1, <4>2
      <4> QED
        BY <2>1, <4>2, <4>3 DEF n
    <3>3. Top.back = "handler" => Len(frames) # 1
      BY <1>0, <3>1 DEF Stacked, Top
    <3>4. \A i \in DOMAIN frames' : FrameOK(frames'[i])
      BY <1>0, <3>1, <3>2 DEF Stacked
    <3>5. pc' = "handler" => frames' # <<>>
      <4>1. Len(<<>>) = 0
        OBVIOUS
      <4>2. Len(frames) # 1 => Len(frames') # 0
        BY <3>1, <3>2
      <4> QED
        BY <2>1, <3>3, <4>1, <4>2
    <3>6. frames' # <<>> => frames'[1].back # "handler"
      BY <1>0, <3>1, <3>2 DEF Stacked
    <3> QED
      BY <3>2, <3>4, <3>5, <3>6 DEF Stacked
  <2> QED
    BY <1>0, <2>1, <2>3, <2>5, <2>6, <2>7, <2>8 DEF SegmentsInv
<1>16. CASE ExitProcess
  <2>1. TablesSet'
    BY <1>0, <1>16, TablesKept DEF ExitProcess
  <2> QED
    BY <1>0, <1>16, <2>1 DEF ExitProcess, SegmentsInv, Segmented, Stacked
<1>17. CASE Panic
  <2>1. TablesSet'
    BY <1>0, <1>17, TablesKept DEF Panic
  <2> QED
    BY <1>0, <1>17, <2>1 DEF Panic, SegmentsInv, Segmented, Stacked
<1> QED
  BY <1>1, <1>2, <1>3, <1>5, <1>6, <1>7, <1>8, <1>10, <1>11, <1>12, <1>13,
     <1>15, <1>16, <1>17 DEF Next, Interrupt, SoftwareInterrupt

-----------------------------------------------------------------------------
(* The invariant holds in every reachable state. *)
THEOREM Invariance == Spec => []SegmentsInv
  BY SegmentsInit, SegmentsNext, PTL DEF Spec

(* No load of a segment register raises an exception, wherever the tables  *)
(* and the stubs are: install, STAR, the gates and every frame name        *)
(* selectors that the processor accepts.                                   *)
THEOREM NoBadSelector == Spec => []SelectorsLoad
<1>1. SegmentsInv => SelectorsLoad
  BY DEF SegmentsInv, SelectorsLoad
<1> QED
  BY <1>1, Invariance, PTL

(* User code runs in ring 3 and the kernel in ring 0, both in 64-bit mode, *)
(* after any sequence of interrupts, system calls and returns.             *)
THEOREM RingsRight == Spec => []PrivilegeMatches
<1>1. ASSUME SegmentsInv PROVE PrivilegeMatches
  <2> SUFFICES ASSUME pc \notin {"init", "lgdt", "lretq"}
               PROVE  CPL = (IF pc = "user" THEN Ring3 ELSE Ring0) /\ IsLong(cs)
    BY DEF PrivilegeMatches
  <2>1. cs = IF pc = "user" THEN 43 ELSE 8
    BY <1>1 DEF SegmentsInv, Steps, Installing, Interruptible, Segmented,
       UserSelectors, KernelSelectors
  <2>2. tss \in Address
    BY <1>1, SegmentsAssumption DEF SegmentsInv, TablesSet, Address
  <2>3. gdt = TableSize - 1 /\ \E access : Described(table, tss, access)
    BY <1>1, <2>2, InitTable DEF SegmentsInv, TablesSet, Steps, Installing,
       Interruptible
  <2>4. IsLong(8) /\ IsLong(43)
    BY <2>3, Loads
  <2> QED
    BY <2>1, <2>4, SelectorFacts DEF CPL
<1> QED
  BY <1>1, Invariance, PTL

(* TrapHandler blames a process for the faults of user code and no other. *)
THEOREM BlamesRight == Spec => []FaultBlamed
<1>1. SegmentsInv => FaultBlamed
  BY DEF SegmentsInv, Stacked, FrameOK, UserSelectors, KernelSelectors,
     FaultBlamed, InKernelCode
<1> QED
  BY <1>1, Invariance, PTL

(* The task register leads to the TSS, whatever its address. *)
THEOREM FindsTss == Spec => []TssFound
<1>1. ASSUME SegmentsInv, tr # 0 PROVE BaseOf(tr) = tss
  <2>1. Described(table, tss, 139) /\ tr = 59 /\ tss \in Address
    BY <1>1, SegmentsAssumption DEF SegmentsInv, TablesSet, Address
  <2>2. BaseOf(tr) = <<tss[1], tss[2], tss[3], tss[4],
                       tss[5], tss[6], tss[7], tss[8]>>
    BY <2>1, SelectorFacts DEF BaseOf, Described
  <2> QED
    BY <2>1, <2>2 DEF Address
<1>2. SegmentsInv => TssFound
  BY <1>1 DEF TssFound
<1> QED
  BY <1>2, Invariance, PTL

(* Every entry into the kernel arrives at the stub of its vector, and user *)
(* code can call no vector but that of the system call.                    *)
THEOREM GatesRight == Spec => []GatesLead
<1>1. SegmentsInv => GatesLead
  BY DEF SegmentsInv, Stacked, FrameOK, GatesLead
<1> QED
  BY <1>1, Invariance, PTL
=============================================================================

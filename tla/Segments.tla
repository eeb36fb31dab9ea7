------------------------------ MODULE Segments ------------------------------
(***************************************************************************)
(* GDT.h, the gates of Traps.cpp and the STAR register: how one processor  *)
(* sets up its segments in SharedMain, and what the hardware makes of them *)
(* at every change between kernel and user code after that.                *)
(*                                                                         *)
(* Numbers wider than TLC's integers are little-endian tuples of bytes.    *)
(* The table is kept as the bytes the constructors store; the hardware     *)
(* (external) reads nothing else.                                          *)
(***************************************************************************)
EXTENDS Integers, Sequences

CONSTANTS
  TssAddresses,      \* where theTSSEntryItself of this processor may be
  Stub,              \* the address of the stub of each vector
  Vectors            \* the vectors that may be raised or called

ASSUME SegmentsAssumption ==
  /\ Vectors \subseteq 0 .. 255
  /\ \A a \in TssAddresses : a \in [1 .. 8 -> 0 .. 255]
  /\ \A v \in 0 .. 255 : Stub[v] \in [1 .. 8 -> 0 .. 255]

VARIABLES
  tss,       \* the address of theTSSEntryItself
  table,     \* 8 bytes at every eighth offset of the Table
  gdt,       \* the limit loaded by lgdt, -1 before
  idt,       \* the gates, by vector
  star,      \* the selectors of STAR: kernel and user
  cs, ss, ds, tr,
  frames,    \* the interrupt frames not yet returned from
  entered,   \* the vector and handler address entered last
  fault,     \* an exception some load of a segment raised in kernel code
  pc

vars == <<tss, table, gdt, idt, star, cs, ss, ds, tr, frames, entered, fault, pc>>

MaxFrames == 2       \* bound: nested interrupts

-----------------------------------------------------------------------------
(* Descriptors *)

Ring0 == 0
Ring3 == 3
KernelCode == 8      \* offsetof(Table, ...)
KernelData == 16
UserCode32 == 24
UserData32 == 32
UserCode64 == 40
UserData64 == 48
TssEntry == 56
TableSize == 72      \* offsetof(Table, theTSSEntryItself)
AvailableTSS == 9
BusyTSS == 11

UserAccessByte(rw, executable, dpl) == 2 * rw + 8 * executable + 16 + 32 * dpl + 128
SystemAccessByte(kind, dpl) == kind + 32 * dpl + 128
Flags(long, size, granularity) == 2 * long + 4 * size + 8 * granularity

UserEntry(limit, base, access, flags) ==
  <<limit[1], limit[2], base[1], base[2], base[3], access,
    (limit[3] % 16) + 16 * (flags % 16), base[4]>>

(* Faulty: the base of the TSS ends with its 32nd bit. *)
HighHalf32(base) == <<0, 0, 0, 0, 0, 0, 0, 0>>

HighHalf(base) == <<base[5], base[6], base[7], base[8], 0, 0, 0, 0>>

NoBytes == <<0, 0, 0, 0>>
AllBytes == <<255, 255, 255, 255>>
TssSize == <<104, 0, 0, 0>>
LongModeCode == Flags(1, 0, 0)
init(base) == [offset \in {8 * i : i \in 0 .. 8} |->
  LET code(dpl, flags) == UserEntry(AllBytes, NoBytes, UserAccessByte(1, 1, dpl), flags)
      data(dpl) == UserEntry(AllBytes, NoBytes, UserAccessByte(1, 0, dpl), Flags(0, 1, 0))
  IN  CASE offset = 0 -> UserEntry(NoBytes, NoBytes, 0, 0)
        [] offset = KernelCode -> code(Ring0, LongModeCode)
        [] offset = KernelData -> data(Ring0)
        [] offset = UserCode32 -> code(Ring3, Flags(0, 1, 0))
        [] offset = UserData32 -> data(Ring3)
        [] offset = UserCode64 -> code(Ring3, LongModeCode)
        [] offset = UserData64 -> data(Ring3)
        [] offset = TssEntry -> UserEntry(TssSize, SubSeq(base, 1, 4),
                                          SystemAccessByte(AvailableTSS, Ring0), 0)
        [] OTHER -> HighHalf(base)]

(* External: what the processor takes from a descriptor and a selector. *)
Offset(selector) == selector - (selector % 8)
RPL(selector) == selector % 4
Inside(selector, last) == Offset(selector) + last <= gdt
Access(selector) == table[Offset(selector)][6]
Present(selector) == Access(selector) >= 128
DPL(selector) == (Access(selector) \div 32) % 4
IsUserSegment(selector) == (Access(selector) \div 16) % 2 = 1
IsCode(selector) == IsUserSegment(selector) /\ (Access(selector) \div 8) % 2 = 1
IsData(selector) == /\ IsUserSegment(selector) /\ ~IsCode(selector)
                    /\ (Access(selector) \div 2) % 2 = 1
IsLong(selector) == (table[Offset(selector)][7] \div 16) % 8 = 2
SystemType(selector) == Access(selector) % 32
BaseOf(selector) ==
  LET low == table[Offset(selector)] high == table[Offset(selector) + 8]
  IN  <<low[3], low[4], low[5], low[8], high[1], high[2], high[3], high[4]>>

CPL == RPL(cs)
CodeLoads(selector, cpl) ==
  /\ Inside(selector, 7) /\ Present(selector) /\ IsCode(selector)
  /\ IsLong(selector) /\ DPL(selector) = cpl /\ RPL(selector) = cpl
StackLoads(selector, cpl) ==
  \/ selector = 0 /\ cpl = Ring0
  \/ /\ Inside(selector, 7) /\ Present(selector) /\ IsData(selector)
     /\ DPL(selector) = cpl /\ RPL(selector) = cpl
DataLoads(selector) ==
  Inside(selector, 7) /\ Present(selector) /\ IsData(selector)
    /\ DPL(selector) >= RPL(selector)
TaskLoads(selector) ==
  Inside(selector, 15) /\ Present(selector) /\ SystemType(selector) = AvailableTSS

-----------------------------------------------------------------------------
(* Gates *)

InterruptGate == 142      \* 0x8E
NoGate == [baseLow |-> <<0, 0>>, selector |-> 0, flags |-> 0, baseMid |-> <<0, 0>>,
           baseHigh |-> <<0, 0, 0, 0>>]

(* Faulty: every gate may be called by userspace. *)
CallableFlags(gateFlags, canBeCalledByUserspace) == gateFlags + 96

GateFlags(gateFlags, canBeCalledByUserspace) ==
  IF canBeCalledByUserspace THEN gateFlags + 96 ELSE gateFlags     \* |= 0x60

setGate(handler, selector, gateFlags, canBeCalledByUserspace) ==
  [baseLow |-> SubSeq(handler, 1, 2), selector |-> selector,
   flags |-> GateFlags(gateFlags, canBeCalledByUserspace),
   baseMid |-> SubSeq(handler, 3, 4), baseHigh |-> SubSeq(handler, 5, 8)]
getGate(gate) == gate.baseLow \o gate.baseMid \o gate.baseHigh

SyscallInterrupt == 128
setupIDTTable == [v \in 0 .. 255 |->
  IF v \in 0 .. 47 \union 123 .. 126 \union {SyscallInterrupt}
  THEN setGate(Stub[v], KernelCode, InterruptGate, v = SyscallInterrupt)
  ELSE NoGate]

(* External: the parts of a gate. *)
GatePresent(gate) == gate.flags >= 128
GateDPL(gate) == (gate.flags \div 32) % 4

-----------------------------------------------------------------------------
(* What Limine leaves behind: selectors of its own table, no task. *)
Init ==
  /\ tss \in TssAddresses /\ table = [o \in {8 * i : i \in 0 .. 8} |-> NoBytes \o NoBytes]
  /\ gdt = -1 /\ idt = [v \in 0 .. 255 |-> NoGate] /\ star = <<0, 0>>
  /\ cs = 40 /\ ss = 48 /\ ds = 48 /\ tr = 0
  /\ frames = <<>> /\ entered = <<>> /\ fault = FALSE /\ pc = "init"

Load(ok) == fault' = (fault \/ ~ok)

(* Traps::setupIDTTable on the boot processor, Table::init. *)
InitTables ==
  /\ pc = "init" /\ pc' = "lgdt"
  /\ idt' = setupIDTTable /\ table' = init(tss)
  /\ UNCHANGED <<tss, gdt, star, cs, ss, ds, tr, frames, entered, fault>>

(* Table::install in four steps. *)
LoadGDT ==
  /\ pc = "lgdt" /\ pc' = "lretq" /\ gdt' = TableSize - 1
  /\ UNCHANGED <<tss, table, idt, star, cs, ss, ds, tr, frames, entered, fault>>
FarReturn ==
  /\ pc = "lretq" /\ pc' = "data"
  /\ cs' = KernelCode /\ Load(CodeLoads(KernelCode, Ring0))
  /\ UNCHANGED <<tss, table, gdt, idt, star, ss, ds, tr, frames, entered>>
LoadData ==
  /\ pc = "data" /\ pc' = "ltr"
  /\ ds' = KernelData /\ ss' = KernelData
  /\ Load(DataLoads(KernelData) /\ StackLoads(KernelData, Ring0))
  /\ UNCHANGED <<tss, table, gdt, idt, star, cs, tr, frames, entered>>
TaskSelector == 59       \* 0x3b
LoadTask ==
  /\ pc = "ltr" /\ pc' = "star"
  /\ tr' = TaskSelector /\ Load(TaskLoads(TaskSelector))
  /\ table' = [table EXCEPT ![Offset(TaskSelector)][6] = @ + BusyTSS - AvailableTSS]
  /\ UNCHANGED <<tss, gdt, idt, star, cs, ss, ds, frames, entered>>

(* Faulty: STAR names the segment sysretq should end in. *)
UserSelector64 == UserCode64 + Ring3

KernelSelector == KernelCode + Ring0
UserSelector == UserCode32 + Ring3
setStarRegister ==
  /\ pc = "star" /\ pc' = "kernel"
  /\ star' = <<KernelSelector, UserSelector>>
  /\ UNCHANGED <<tss, table, gdt, idt, cs, ss, ds, tr, frames, entered, fault>>

(* Faulty: the first process gets the code segment without its ring. *)
UserCodeRing0 == UserCode64

FirstUserCode == UserCode64 + Ring3

(* The first return to user code: TrapRet with createFirstProcess's frame. *)
EnterUser ==
  /\ pc = "kernel" /\ frames = <<>> /\ pc' = "user"
  /\ cs' = FirstUserCode /\ ss' = UserData64 + Ring3
  /\ Load(CodeLoads(cs', Ring3) /\ StackLoads(ss', Ring3))
  /\ UNCHANGED <<tss, table, gdt, idt, star, ds, tr, frames, entered>>

(* External: syscall takes its selectors from STAR, sysretq adds to them.  *)
Syscall ==
  /\ pc = "user" /\ pc' = "syscall"
  /\ cs' = star[1] - RPL(star[1]) /\ ss' = star[1] - RPL(star[1]) + 8
  /\ Load(CodeLoads(cs', Ring0) /\ StackLoads(ss', Ring0))
  /\ UNCHANGED <<tss, table, gdt, idt, star, ds, tr, frames, entered>>
Sysret ==
  /\ pc = "syscall" /\ frames = <<>> /\ pc' = "user"
  /\ cs' = Offset(star[2] + 16) + Ring3 /\ ss' = Offset(star[2] + 8) + Ring3
  /\ Load(CodeLoads(cs', Ring3) /\ StackLoads(ss', Ring3))
  /\ UNCHANGED <<tss, table, gdt, idt, star, ds, tr, frames, entered>>

(* External: an interrupt or exception, or a user's int instruction.  A    *)
(* call the gate does not allow is a general protection fault, a gate that *)
(* is missing a segment not present exception.  From user code the stack   *)
(* comes from the TSS, and ss becomes a null selector.                     *)
Enter(v, software) ==
  LET gate == idt[v]
      w == IF software /\ GateDPL(gate) < CPL THEN 13
           ELSE IF ~GatePresent(gate) THEN 11 ELSE v
      frame == [cs |-> cs, ss |-> ss, back |-> pc, software |-> software,
                called |-> v, vector |-> w]
  IN  /\ Len(frames) < MaxFrames
      /\ pc \in (IF software THEN {"user"} ELSE {"user", "syscall", "kernel"} \union
                (IF v < 32 THEN {"handler"} ELSE {}))
      /\ frames' = Append(frames, frame)
      /\ cs' = idt[w].selector /\ ss' = IF CPL = Ring3 THEN 0 ELSE ss
      /\ Load(CodeLoads(idt[w].selector, Ring0) /\ SystemType(tr) = BusyTSS)
      /\ entered' = <<w, getGate(idt[w])>>
      /\ pc' = "handler"
      /\ UNCHANGED <<tss, table, gdt, idt, star, ds, tr>>
Interrupt(v) == Enter(v, FALSE)
SoftwareInterrupt(v) == Enter(v, TRUE)

(* Faulty: the stack selector is compared. *)
InStackSegment(frame) == frame.ss = KernelCode

(* TrapHandler.  A fault of a process ends it and goes back to the         *)
(* scheduler, a fault of the kernel or a double fault panics, everything   *)
(* else returns.                                                           *)
InKernelCode(frame) == frame.cs = KernelCode
Top == frames[Len(frames)]
Return ==
  /\ pc = "handler" /\ Top.vector \notin {8, 13, 14}
  /\ pc' = Top.back /\ frames' = SubSeq(frames, 1, Len(frames) - 1)
  /\ cs' = Top.cs /\ ss' = Top.ss
  /\ Load(CodeLoads(Top.cs, RPL(Top.cs)) /\ StackLoads(Top.ss, RPL(Top.cs)))
  /\ UNCHANGED <<tss, table, gdt, idt, star, ds, tr, entered>>
ExitProcess ==
  /\ pc = "handler" /\ Top.vector \in {13, 14} /\ ~InKernelCode(Top)
  /\ pc' = "kernel" /\ frames' = <<>>
  /\ UNCHANGED <<tss, table, gdt, idt, star, cs, ss, ds, tr, entered, fault>>
Panic ==
  /\ pc = "handler" /\ pc' = "panic"
  /\ Top.vector = 8 \/ (Top.vector \in {13, 14} /\ InKernelCode(Top))
  /\ UNCHANGED <<tss, table, gdt, idt, star, cs, ss, ds, tr, frames, entered, fault>>

Next ==
  \/ InitTables \/ LoadGDT \/ FarReturn \/ LoadData \/ LoadTask \/ setStarRegister
  \/ EnterUser \/ Syscall \/ Sysret \/ Return \/ ExitProcess \/ Panic
  \/ \E v \in Vectors : Interrupt(v) \/ SoftwareInterrupt(v)
Spec == Init /\ [][Next]_vars

-----------------------------------------------------------------------------
(* Every selector that install, STAR, the gates and the first frame name   *)
(* passes the hardware's checks wherever it ends up: the selectors sysretq *)
(* computes still load when an interrupt returns to them with iretq        *)
(* (Table::init, Table::install, setStarRegister, createFirstProcess).     *)
SelectorsLoad == ~fault

(* The privilege the processor has is the one its code should have: user   *)
(* code always runs in ring 3 and 64-bit mode, all other code in ring 0.   *)
PrivilegeMatches ==
  pc \notin {"init", "lgdt", "lretq"} =>
    CPL = (IF pc = "user" THEN Ring3 ELSE Ring0) /\ IsLong(cs)

(* TrapHandler kills a process for its own faults only, and panics only    *)
(* for the kernel's: its comparison of cs agrees with where the fault came *)
(* from, over all ways into the kernel (TrapHandler).                      *)
FaultBlamed ==
  \A i \in DOMAIN frames : InKernelCode(frames[i]) <=> frames[i].back # "user"

(* Once loaded, the task's base is the address of its TSS, whatever the    *)
(* bits of that address (SystemEntry): interrupts from user code find the  *)
(* stack that init stored.                                                 *)
TssFound == (tr # 0 /\ ~fault) => BaseOf(tr) = tss

(* A gate leads to the stub of its vector, and user code gets to the stub  *)
(* of a vector it calls only for the system call gate; any other int ends  *)
(* in the stub of an exception (setGate, getGate, setupIDTTable).          *)
GatesLead ==
  /\ entered # <<>> => entered[2] = Stub[entered[1]]
  /\ \A i \in DOMAIN frames : frames[i].software =>
       frames[i].vector \in {SyscallInterrupt, 13}
=============================================================================

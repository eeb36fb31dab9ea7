-------------------------------- MODULE Traps --------------------------------
(***************************************************************************)
(* Traps.S, TrapHandler and KernelSyscallHandler, with the local APIC as   *)
(* initLAPIC leaves it: one processor that runs a process, takes timer     *)
(* interrupts and exceptions on its interrupt stack and serves system      *)
(* calls.  syscall does not mask interrupts (nobody sets SFMASK), so that  *)
(* they arrive between any two steps of SyscallHandler.                    *)
(*                                                                         *)
(* Addresses count words of eight bytes.  Code that runs with interrupts   *)
(* off is one step.  A C function leaves junk below the stack pointer it   *)
(* is called with; KernelSyscallHandler runs with interrupts on, at any    *)
(* depth of its own calls.                                                 *)
(***************************************************************************)
EXTENDS Integers, Sequences, SequencesExt

CONSTANTS
  InterruptStack,    \* what allocatePages has returned for the stack
  UserTop,           \* the end of the page the process may use as a stack
  Exceptions,        \* the exceptions the process may raise
  CallWords          \* what a C function and those it calls put on the stack

FrameWords == 24         \* of an interrupt, registers and alignment included

ASSUME LayoutAssumption ==
  /\ {InterruptStack, UserTop, CallWords} \subseteq Nat
  /\ CallWords > 0       \* the address it returns to
  /\ UserTop > 2 * FrameWords
  /\ InterruptStack - UserTop > 2 * FrameWords + CallWords

(* A process does not raise a double fault, nor the exceptions of features *)
(* the kernel does not turn on: alignment checks (17), control protection  *)
(* (21) and the two of virtual machines (29, 30).  2 is no exception: it   *)
(* is the pin of the processor for which HaltInterrupt2 is the handler.    *)
ASSUME ExceptionsAssumption ==
  Exceptions \subseteq (0 .. 31) \ {2, 8, 17, 21, 29, 30}

VARIABLES
  mem,        \* the words stored to
  regs,       \* general purpose registers
  rip, rsp,
  rflags,      \* of which only the interrupt flag is looked at
  cpl,
  userStack,  \* CPUState::userStack
  pending,    \* vectors the APIC has to deliver
  inService,  \* vectors delivered and not acknowledged
  resume,     \* history: what each interrupt or system call has to restore
  pc

vars == <<mem, regs, rip, rsp, rflags, cpl, userStack, pending, inService,
          resume, pc>>
apic == <<pending, inService>>

TimerVector == 32        \* IRQ0 + IRQTimer
ErrorVector == 51        \* IRQ0 + IRQError: no gate
KernelCS == 8            \* offsetof(Table, kernelCode)
UserCS == 43
IF0 == 0                 \* rflags without and with interrupts
IF1 == 512
Junk == -1

(* The order of the push instructions. *)
PushOrder == <<"rax", "rbx", "rcx", "rdx", "rsi", "rdi", "rbp", "r8", "r9", "r10",
               "r11", "r12", "r13", "r14", "r15">>
(* Faulty: two registers change places. *)
PopSwapped == <<"r15", "r14", "r13", "r12", "r11", "r10", "r9", "r8", "rbp", "rdi",
                "rsi", "rcx", "rdx", "rbx", "rax">>

PopOrder == <<"r15", "r14", "r13", "r12", "r11", "r10", "r9", "r8", "rbp", "rdi",
              "rsi", "rdx", "rcx", "rbx", "rax">>

(* InterruptRegisters: words behind the registers. *)
NumberAt == 15
RipAt == 17

(* words pushed one after the other below sp. *)
Stored(m, sp, words) ==
  LET new == sp - Len(words) .. sp - 1
  IN  [i \in DOMAIN m \union new |-> IF i \in new THEN words[sp - i] ELSE m[i]]
Popped(m, sp) == [r \in ToSet(PushOrder) |->
  m[sp - 1 + (CHOOSE i \in DOMAIN PopOrder : PopOrder[i] = r)]]

-----------------------------------------------------------------------------
(* TrapRet has taken the process to its entry point: registers are zero,   *)
(* so is the stack pointer.  initLAPIC left nothing pending or in service. *)
Init ==
  /\ mem = [i \in {} |-> 0]
  /\ regs = [r \in ToSet(PushOrder) |-> 0]
  /\ rip = 0 /\ rsp = 0 /\ rflags = IF1 /\ cpl = 3
  /\ userStack = 0 /\ pending = {} /\ inService = {}
  /\ resume = <<>> /\ pc = "user"

(* External: the process runs an instruction, or sets up its registers. *)
UserStep ==
  /\ pc = "user" /\ rip' = 1 - rip
  /\ UNCHANGED <<mem, regs, rsp, rflags, cpl, userStack, apic, resume, pc>>
UserLoad ==
  /\ pc = "user" /\ rsp' = UserTop
  /\ regs' = [r \in DOMAIN regs |-> 100 + CHOOSE i \in DOMAIN PushOrder : PushOrder[i] = r]
  /\ UNCHANGED <<mem, rip, rflags, cpl, userStack, apic, resume, pc>>

Saved == [regs |-> regs, rip |-> rip, rsp |-> rsp, rflags |-> rflags, cpl |-> cpl, pc |-> pc]

-----------------------------------------------------------------------------
(* The local APIC *)

Tick ==
  /\ pending' = pending \union {TimerVector}
  /\ UNCHANGED <<mem, regs, rip, rsp, rflags, cpl, userStack, inService, resume, pc>>
ApicError ==
  /\ pc # "reset" /\ ErrorVector \notin pending \union inService
  /\ pending' = pending \union {ErrorVector}
  /\ UNCHANGED <<mem, regs, rip, rsp, rflags, cpl, userStack, inService, resume, pc>>

Deliverable(v) == v \in pending /\ \A s \in inService : v \div 16 > s \div 16

(* Faulty: the handler returns without writing EndOfInterrupt. *)
NotAcknowledged(served) == served

(* acknowledgeInterrupt: the vector of the highest priority is done. *)
acknowledgeInterrupt(served) ==
  served \ {v \in served : \A s \in served : s <= v}

-----------------------------------------------------------------------------
(* External: the processor pushes a frame of five words and, for some      *)
(* exceptions, an error code, on the stack of the TSS if it leaves user    *)
(* code and at the present stack pointer, made even, otherwise.  If there  *)
(* is no memory there, so it is for the faults that follow: a reset.       *)
PushesErrorCode == {8, 10, 11, 12, 13, 14, 17, 21, 29, 30}
HasMemory(sp) == sp > 0  \* below zero is the top of the address space
SS == 0                  \* what is in these words does not matter
Code == 0
CS == IF cpl = 3 THEN UserCS ELSE KernelCS

(* What SharedMain stores in interruptStack and in rsp0 of the TSS: the    *)
(* address of the pages as it is, although a stack grows downwards.        *)
StackTop == InterruptStack

Deliver(v) ==
  LET sp == IF cpl = 3 THEN StackTop ELSE rsp - (rsp % 2)
      frame == <<SS, rsp, rflags, CS, rip>> \o
                 (IF v \in PushesErrorCode THEN <<Code>> ELSE <<>>)
  IN  IF HasMemory(sp)
      THEN /\ mem' = Stored(mem, sp, frame) /\ rsp' = sp - Len(frame)
           /\ rflags' = IF0 /\ cpl' = 0 /\ rip' = v /\ pc' = "stub"
           /\ resume' = Append(resume, Saved)
           /\ UNCHANGED <<regs, userStack>>
      ELSE /\ pc' = "reset"
           /\ UNCHANGED <<mem, regs, rip, rsp, rflags, cpl, userStack, resume>>

(* A vector without a gate becomes a segment not present exception. *)
Interrupt(v) ==
  /\ rflags = IF1 /\ Deliverable(v) /\ pc \notin {"reset", "exited"}
  /\ pending' = pending \ {v} /\ inService' = inService \union {v}
  /\ Deliver(IF v = ErrorVector THEN 11 ELSE v)
Exception(v) ==
  /\ pc = "user" /\ Deliver(v) /\ UNCHANGED apic

(* Faulty: the number and the zero change places. *)
StubSwapped(v) == IF v \in {8, 10, 11, 12, 13, 14} THEN <<v>> ELSE <<v, 0>>

(* The stubs push a zero in place of the error code, unless the processor  *)
(* has pushed one, and their number; TrapCommon the registers.             *)
StubWords(v) == IF v \in {8, 10, 11, 12, 13, 14} THEN <<v>> ELSE <<0, v>>
Stub ==
  LET words == StubWords(rip) \o [i \in DOMAIN PushOrder |-> regs[PushOrder[i]]]
  IN  /\ pc = "stub" /\ pc' = "handler"
      /\ mem' = Stored(mem, rsp, words) /\ rsp' = rsp - Len(words)
      /\ UNCHANGED <<regs, rip, rflags, cpl, userStack, apic, resume>>

(* TrapHandler reads its frame from the stack.  A fault of a process ends  *)
(* the process: exitCurrentProcess does not come back here.                *)
Number == mem[rsp + NumberAt]
Handled == /\ mem' = Stored(mem, rsp, [i \in 1 .. CallWords |-> Junk])
           /\ UNCHANGED <<regs, rip, rsp, rflags, cpl, userStack, pending, resume>>
HandleTimer ==
  /\ pc = "handler" /\ Number = TimerVector /\ pc' = "trapret"
  /\ inService' = acknowledgeInterrupt(inService) /\ Handled
HandleFault ==
  /\ pc = "handler" /\ Number \in {8, 13, 14}
  /\ pc' = IF Number = 8 \/ mem[rsp + RipAt + 1] = KernelCS THEN "panic" ELSE "exited"
  /\ UNCHANGED inService /\ Handled
HandleUnhandled ==
  /\ pc = "handler" /\ Number \notin {8, 13, 14, TimerVector} /\ pc' = "trapret"
  /\ UNCHANGED inService /\ Handled

(* TrapRet: pop the registers, skip two words, iretq. *)
TrapRet ==
  LET f == rsp + RipAt
  IN  /\ pc = "trapret"
      /\ regs' = Popped(mem, rsp)
      /\ rip' = mem[f] /\ rflags' = mem[f + 2] /\ rsp' = mem[f + 3]
      /\ cpl' = IF mem[f + 1] = KernelCS THEN 0 ELSE 3
      /\ pc' = Last(resume).pc /\ resume' = Front(resume)
      /\ UNCHANGED <<mem, userStack, apic>>

-----------------------------------------------------------------------------
(* SyscallHandler.  swapgs swaps equal values (setKernelGSBase stores the  *)
(* same base twice), so that %gs is the CPUState at any time.              *)
Syscall ==
  /\ pc = "user" /\ rip = 1 /\ pc' = "entry" /\ cpl' = 0
  /\ regs' = [regs EXCEPT !["rcx"] = 0, !["r11"] = rflags]
  /\ resume' = Append(resume, [regs |-> regs', rip |-> 0, rsp |-> rsp,
                               rflags |-> rflags, cpl |-> cpl, pc |-> pc])
  /\ UNCHANGED <<mem, rip, rsp, rflags, userStack, apic>>
SaveUserStack ==
  /\ pc = "entry" /\ pc' = "saved" /\ userStack' = rsp
  /\ UNCHANGED <<mem, regs, rip, rsp, rflags, cpl, apic, resume>>

(* Faulty: the process's stack pointer is kept. *)
UserStackStays == rsp

KernelStack == StackTop
SwitchStack ==
  /\ pc = "saved" /\ pc' = "switched" /\ rsp' = KernelStack
  /\ UNCHANGED <<mem, regs, rip, rflags, cpl, userStack, apic, resume>>
PushRegisters ==
  LET words == [i \in DOMAIN PushOrder |-> regs[PushOrder[i]]]
  IN  /\ pc = "switched" /\ pc' = "call"
      /\ mem' = Stored(mem, rsp, words) /\ rsp' = rsp - Len(words)
      /\ UNCHANGED <<regs, rip, rflags, cpl, userStack, apic, resume>>
(* KernelSyscallHandler: the C code, some words deep, now more and now     *)
(* less, with its argument in a register its callees keep; that is what it *)
(* returns, and the new stack pointer.                                     *)
KernelSyscallHandler ==
  LET registers == IF pc = "call" THEN rsp ELSE regs["rbx"]
  IN  /\ pc \in {"call", "inside"} /\ pc' = "inside"
      /\ \E k \in 1 .. CallWords :
           /\ rsp' = registers - k
           /\ mem' = Stored(mem, registers, [i \in 1 .. k |-> Junk])
      /\ regs' = [r \in DOMAIN regs |-> IF r = "rbx" THEN registers ELSE Junk]
      /\ UNCHANGED <<rip, rflags, cpl, userStack, apic, resume>>
KernelSyscallReturn ==
  /\ pc = "inside" /\ pc' = "pop" /\ rsp' = regs["rbx"]
  /\ regs' = [r \in DOMAIN regs |-> Junk]
  /\ UNCHANGED <<mem, rip, rflags, cpl, userStack, apic, resume>>
PopRegisters ==
  /\ pc = "pop" /\ pc' = "popped"
  /\ regs' = Popped(mem, rsp) /\ rsp' = rsp + Len(PopOrder)
  /\ UNCHANGED <<mem, rip, rflags, cpl, userStack, apic, resume>>

RestoreUserStack ==
  /\ pc = "popped" /\ pc' = "restored" /\ rsp' = userStack
  /\ UNCHANGED <<mem, regs, rip, rflags, cpl, userStack, apic, resume>>
Sysret ==
  /\ pc = "restored" /\ pc' = "user" /\ cpl' = 3
  /\ rip' = regs["rcx"] /\ rflags' = regs["r11"]
  /\ resume' = Front(resume)
  /\ UNCHANGED <<mem, regs, rsp, userStack, apic>>

HandlerStep ==
  Stub \/ HandleTimer \/ HandleFault \/ HandleUnhandled \/ TrapRet
SyscallStep ==
  \/ SaveUserStack \/ SwitchStack \/ PushRegisters \/ KernelSyscallHandler
  \/ KernelSyscallReturn \/ PopRegisters \/ RestoreUserStack \/ Sysret

Next ==
  \/ UserStep \/ UserLoad \/ Syscall \/ \E v \in Exceptions : Exception(v)
  \/ Tick \/ ApicError \/ Interrupt(TimerVector) \/ Interrupt(ErrorVector)
  \/ HandlerStep \/ SyscallStep
Spec == Init /\ [][Next]_vars

(* The timer is periodic and its period is many instructions long, so that *)
(* code it interrupts gets on; an interrupt goes before the exceptions of  *)
(* the next instruction.                                                   *)
FairSpec ==
  /\ Spec /\ WF_vars(HandlerStep) /\ WF_vars(Tick) /\ SF_vars(SyscallStep)
  /\ SF_vars(Interrupt(TimerVector)) /\ SF_vars(Interrupt(ErrorVector))

-----------------------------------------------------------------------------
(* Whatever an interrupt, an exception or a system call came between, it   *)
(* goes on with the registers, stack pointer, instruction, interrupt flag  *)
(* and privilege it had, a system call with only rcx and r11 changed.      *)
(* Pushes, pops, the two words the stubs add and the layout the handlers   *)
(* read must agree, also for an interrupt in the middle of SyscallHandler  *)
(* (TrapCommon, TrapRet, SyscallHandler).                                  *)
ResumedExactly ==
  [][Len(resume') < Len(resume) =>
       [regs |-> regs', rip |-> rip', rsp |-> rsp', rflags |-> rflags', cpl |-> cpl',
        pc |-> pc'] = Last(resume)]_vars

(* The handler sees the number of the interrupt that happened and never    *)
(* panics for a fault of the process (GenerateISRStub, TrapHandler).       *)
FaultEndsProcess ==
  /\ pc # "panic"
  /\ pc = "handler" => Number = rip /\ rip \in Exceptions \union {11, TimerVector}

(* The timer keeps interrupting as long as the process runs: every timer   *)
(* interrupt is acknowledged.  An APIC error is not: without a gate it is  *)
(* never acknowledged and outranks the timer (TrapHandler, initLAPIC).     *)
TimerKeepsComing ==
  \/ []<>(pc = "handler" /\ rip = TimerVector)
  \/ <>(ErrorVector \in inService \/ pc \in {"exited", "reset"})

(* The process's stack pointer is in ring 0: before SyscallHandler has     *)
(* switched stacks, and again before sysretq.                              *)
Window == {"entry", "saved", "restored"}

(* How far one system call and one interrupt in it go down: the registers  *)
(* and the C functions of the call, the alignment and frame of the         *)
(* interrupt.                                                              *)
Depth == Len(PushOrder) + CallWords + 1 + FrameWords

(* An interrupt in the window: the processor has pushed where the          *)
(* process's stack pointer points.                                         *)
Elsewhere ==
  pc \in Window \union {"reset"} \/ \E i \in DOMAIN resume : resume[i].pc \in Window

(* From the switch of stacks on the kernel uses the stack it was given,    *)
(* and of it one system call and one interrupt: nothing is nested deeper,  *)
(* however often the timer interrupts the handler of a system call, since  *)
(* gates turn interrupts off (SyscallHandler, TrapCommon).  The exceptions *)
(* are interrupts in the window.                                           *)
OnKernelStack == cpl = 0 => rsp \in StackTop - Depth .. StackTop \/ Elsewhere
=============================================================================

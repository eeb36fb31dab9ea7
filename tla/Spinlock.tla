------------------------------ MODULE Spinlock ------------------------------
(***************************************************************************)
(* The kernel's spinlock (Spinlock.cpp) together with the per-processor    *)
(* interrupt masking it is built on (pushCLI and popCLI of                 *)
(* ProcessManagement.h) and the interrupts that can arrive meanwhile       *)
(* (TrapHandler of Traps.cpp).  The lock is the log lock of logfn, the one *)
(* lock that both ordinary kernel code and the trap handler take.          *)
(*                                                                         *)
(* Every processor has two levels of execution: the interrupted "task" and *)
(* the "trap" handler on top of it.  All gates are interrupt gates, so the *)
(* handler runs with interrupts off and there is never a third level.      *)
(***************************************************************************)
EXTENDS Naturals

CONSTANTS
  CPU,                  \* the processors
  UnhandledInterrupts   \* TRUE: vectors TrapHandler does not know may arrive

ASSUME UnhandledAssumption == UnhandledInterrupts \in BOOLEAN

Level == {"task", "trap"}

(* Where a level stands with respect to the lock. *)
Step == {"idle", "none", "ack", "log", "done", "acqCli", "acqSpin", "acqPop",
         "critical", "relCli", "relStore", "relPop"}

VARIABLES
  held,                   \* Spinlock::held
  interruptFlag,          \* IF of each processor's rflags
  cliCount,               \* CPUState::cliCount
  wereInterruptsEnabled,  \* CPUState::wereInterruptsEnabled
  flags,                  \* the local variable flags of pushCLI, per level
  pc,                     \* where each level of each processor stands
  level,                  \* which level the processor is executing
  phase                   \* "boot" until SharedMain's popCLI, then "up"

vars == <<held, interruptFlag, cliCount, wereInterruptsEnabled, flags, pc,
          level, phase>>

(* initializeProcessors gives every processor cliCount = 1; Limine starts  *)
(* the kernel with interrupts disabled.                                    *)
Init ==
  /\ held = 0
  /\ interruptFlag = [c \in CPU |-> FALSE]
  /\ cliCount = [c \in CPU |-> 1]
  /\ wereInterruptsEnabled = [c \in CPU |-> FALSE]
  /\ flags = [c \in CPU |-> [l \in Level |-> FALSE]]
  /\ pc = [c \in CPU |-> [l \in Level |-> IF l = "task" THEN "idle" ELSE "none"]]
  /\ level = [c \in CPU |-> "task"]
  /\ phase = [c \in CPU |-> "boot"]

-----------------------------------------------------------------------------
(* The running level of processor c moves from one step to another. *)
Goto(c, from, to) ==
  /\ pc[c][level[c]] = from
  /\ pc' = [pc EXCEPT ![c][level[c]] = to]

(* pushCLI, first half: eflags() reads the flags before cli takes effect. *)
ReadFlags(c) ==
  /\ flags' = [flags EXCEPT ![c][level[c]] = interruptFlag[c]]
  /\ UNCHANGED <<held, interruptFlag, cliCount, wereInterruptsEnabled, level,
                 phase>>

(* Faulty pushCLI: the nesting counter is not incremented, or it is        *)
(* incremented before it is tested.                                        *)
NotCounted(count) == count
CountedFirst(count) == count + 1 = 0

(* How pushCLI counts, and how it knows the outermost call. *)
Pushed(count) == count + 1
Outermost(count) == count = 0

(* pushCLI, second half: cli, and the outermost call remembers the flags. *)
pushCLI(c) ==
  /\ interruptFlag' = [interruptFlag EXCEPT ![c] = FALSE]
  /\ wereInterruptsEnabled' =
       [wereInterruptsEnabled EXCEPT
          ![c] = IF Outermost(cliCount[c]) THEN flags[c][level[c]] ELSE @]
  /\ cliCount' = [cliCount EXCEPT ![c] = Pushed(@)]
  /\ UNCHANGED <<held, flags, level, phase>>

(* Faulty popCLI: wereInterruptsEnabled is not consulted. *)
LastPop(c) == cliCount[c] = 1

(* popCLI is about to execute sti. *)
TurnsOn(c) == cliCount[c] = 1 /\ wereInterruptsEnabled[c]

(* popCLI: the outermost call turns interrupts on again if they were on. *)
popCLI(c) ==
  /\ cliCount' = [cliCount EXCEPT ![c] = @ - 1]
  /\ interruptFlag' = [interruptFlag EXCEPT ![c] = @ \/ TurnsOn(c)]
  /\ UNCHANGED <<held, wereInterruptsEnabled, flags, level>>

(* Spinlock::acquire is called: by kernel code, or by logfn in the handler. *)
AcquireCall(c) ==
  /\ \/ Goto(c, "idle", "acqCli")
     \/ Goto(c, "log", "acqCli")
  /\ ReadFlags(c)

AcquireCLI(c) == Goto(c, "acqCli", "acqSpin") /\ pushCLI(c)

(* Faulty acquire: the old value of held is not looked at. *)
NotTested == TRUE

(* The value that test-and-set returned ends the loop. *)
WasFree == held = 0

(* One successful __sync_lock_test_and_set; a failing one changes nothing. *)
AcquireTestAndSet(c) ==
  /\ WasFree
  /\ Goto(c, "acqSpin", "acqPop")
  /\ held' = 1
  /\ UNCHANGED <<interruptFlag, cliCount, wereInterruptsEnabled, flags, level,
                 phase>>

(* acquire returns: popCLI runs while the lock is already held. *)
AcquireReturn(c) == Goto(c, "acqPop", "critical") /\ popCLI(c) /\ UNCHANGED phase

ReleaseCall(c) == Goto(c, "critical", "relCli") /\ ReadFlags(c)

ReleaseCLI(c) == Goto(c, "relCli", "relStore") /\ pushCLI(c)

(* Faulty release: the lock word keeps its value. *)
StillHeld == 1

(* What release stores. *)
Released == 0

(* The store of release. *)
ReleaseStore(c) ==
  /\ Goto(c, "relStore", "relPop")
  /\ held' = Released
  /\ UNCHANGED <<interruptFlag, cliCount, wereInterruptsEnabled, flags, level,
                 phase>>

(* release returns to the task, or to the handler that is then finished. *)
ReleaseReturn(c) ==
  /\ Goto(c, "relPop", IF level[c] = "task" THEN "idle" ELSE "done")
  /\ popCLI(c)
  /\ UNCHANGED phase

-----------------------------------------------------------------------------
(* SharedMain has loaded the IDT and undoes the initial cliCount of 1. *)
FinishBoot(c) ==
  /\ phase[c] = "boot"
  /\ pc[c]["task"] = "idle"
  /\ popCLI(c)
  /\ phase' = [phase EXCEPT ![c] = "up"]
  /\ UNCHANGED pc

(* The sti at the head of the scheduler's loop. *)
EnableInterrupts(c) ==
  /\ phase[c] = "up" /\ level[c] = "task" /\ pc[c]["task"] = "idle"
  /\ interruptFlag' = [interruptFlag EXCEPT ![c] = TRUE]
  /\ UNCHANGED <<held, cliCount, wereInterruptsEnabled, flags, pc, level, phase>>

(* An interrupt gate: the handler starts with interrupts off. *)
Interrupt(c, handler) ==
  /\ interruptFlag[c]
  /\ interruptFlag' = [interruptFlag EXCEPT ![c] = FALSE]
  /\ level' = [level EXCEPT ![c] = "trap"]
  /\ pc' = [pc EXCEPT ![c]["trap"] = handler]
  /\ UNCHANGED <<held, cliCount, wereInterruptsEnabled, flags, phase>>

(* TrapHandler, the timer vector: acknowledgeInterrupt, nothing else. *)
TimerInterrupt(c) == Interrupt(c, "ack")

AcknowledgeInterrupt(c) ==
  /\ level[c] = "trap"
  /\ Goto(c, "ack", "done")
  /\ UNCHANGED <<held, interruptFlag, cliCount, wereInterruptsEnabled, flags,
                 level, phase>>

(* TrapHandler, the default branch: logfn takes the log lock. *)
UnhandledInterrupt(c) == UnhandledInterrupts /\ Interrupt(c, "log")

(* iretq of TrapRet restores the flags of the interrupted task. *)
TrapRet(c) ==
  /\ level[c] = "trap" /\ pc[c]["trap"] = "done"
  /\ interruptFlag' = [interruptFlag EXCEPT ![c] = TRUE]
  /\ level' = [level EXCEPT ![c] = "task"]
  /\ pc' = [pc EXCEPT ![c]["trap"] = "none"]
  /\ UNCHANGED <<held, cliCount, wereInterruptsEnabled, flags, phase>>

-----------------------------------------------------------------------------
Next ==
  \E c \in CPU :
    \/ AcquireCall(c) \/ AcquireCLI(c) \/ AcquireTestAndSet(c)
    \/ AcquireReturn(c)
    \/ ReleaseCall(c) \/ ReleaseCLI(c) \/ ReleaseStore(c) \/ ReleaseReturn(c)
    \/ FinishBoot(c) \/ EnableInterrupts(c)
    \/ TimerInterrupt(c) \/ AcknowledgeInterrupt(c)
    \/ UnhandledInterrupt(c) \/ TrapRet(c)

Spec == Init /\ [][Next]_vars

(* A processor does not stop inside acquire, release or the handler.  The  *)
(* steps outside the spin loop get strong fairness because the periodic    *)
(* timer (10,000,000 ticks) keeps interrupting the task but leaves it time *)
(* to run; test-and-set only gets weak fairness, because nothing makes the *)
(* loop of acquire fair to one processor.                                  *)
Fairness ==
  \A c \in CPU :
    /\ WF_vars(AcquireTestAndSet(c))
    /\ SF_vars(\/ AcquireCLI(c) \/ AcquireReturn(c)
               \/ ReleaseCall(c) \/ ReleaseCLI(c) \/ ReleaseStore(c)
               \/ ReleaseReturn(c))
    /\ WF_vars(\/ AcknowledgeInterrupt(c) \/ TrapRet(c)
               \/ level[c] = "trap" /\ AcquireCall(c))

FairSpec == Spec /\ Fairness

-----------------------------------------------------------------------------
TypeOK ==
  /\ held \in {0, 1}
  /\ interruptFlag \in [CPU -> BOOLEAN]
  /\ cliCount \in [CPU -> Nat]
  /\ wereInterruptsEnabled \in [CPU -> BOOLEAN]
  /\ flags \in [CPU -> [Level -> BOOLEAN]]
  /\ pc \in [CPU -> [Level -> Step]]
  /\ level \in [CPU -> Level]
  /\ phase \in [CPU -> {"boot", "up"}]

(* Between the successful test-and-set and the store of release. *)
Owns(c, l) == pc[c][l] \in {"acqPop", "critical", "relCli", "relStore"}

(* The spinlock excludes: at most one level of one processor is between    *)
(* acquire's test-and-set and release's store, whatever interrupts arrive  *)
(* (Spinlock::acquire, Spinlock::release).                                 *)
MutualExclusion ==
  \A c, d \in CPU : \A k, l \in Level :
    Owns(c, k) /\ Owns(d, l) => c = d /\ k = l

(* Between pushCLI and popCLI. *)
Masked(c, l) == pc[c][l] \in {"acqSpin", "acqPop", "relStore", "relPop"}

One(b) == IF b THEN 1 ELSE 0

MaskAccounted(c) ==
  /\ cliCount[c] = One(phase[c] = "boot") + One(Masked(c, "task"))
                    + One(Masked(c, "trap"))
  /\ interruptFlag[c] => cliCount[c] = 0 /\ level[c] = "task"
  /\ level[c] = "trap" => phase[c] = "up" /\ ~Masked(c, "task")

(* The nesting counter is exact on every processor, whatever interrupts    *)
(* arrive: it counts the pushCLI calls of both levels that popCLI has not  *)
(* undone, plus the one initializeProcessors starts with; and interrupts   *)
(* are never on while it is positive or while a handler runs.  An          *)
(* interrupted task has therefore never masked anything.                   *)
MaskAccounting == \A c \in CPU : MaskAccounted(c)

(* A processor whose running level leaves acquire or release in this step  *)
(* has the interrupt flag that level had when it entered.                  *)
ReturnsWithCallerFlag(c) ==
  /\ level'[c] = level[c]
  /\ pc[c][level[c]] \in {"acqPop", "relPop"}
  /\ pc'[c][level[c]] # pc[c][level[c]]
  => interruptFlag'[c] = flags[c][level[c]]

(* acquire and release return with the interrupt flag their caller had:    *)
(* the nesting counter of pushCLI and popCLI restores it even when an      *)
(* interrupt arrives between eflags() and cli and its handler runs         *)
(* pushCLI and popCLI on the same CPUState.                                *)
CallerFlagRestored == [][\A c \in CPU : ReturnsWithCallerFlag(c)]_vars

(* The handler of c waits for the lock that the task it interrupted holds: *)
(* acquire's popCLI turns interrupts on while the lock is held, and logfn  *)
(* in TrapHandler takes the same lock.  Nothing ends this wait, though     *)
(* printf.c:26-27 calls the implementation "thread-safe and reentrant".    *)
WaitsForItself(c) == Owns(c, "task") /\ pc[c]["trap"] = "acqSpin"

(* The log lock, once taken, is given up again: between acquire and        *)
(* release nothing waits for the lock, whatever interrupts arrive on any   *)
(* processor, but for a handler that logs an unhandled interrupt of the    *)
(* processor whose task is the holder.                                     *)
LockReleased == (held = 1) ~> (held = 0 \/ \E c \in CPU : WaitsForItself(c))
=============================================================================

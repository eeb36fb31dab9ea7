------------------------- MODULE ProcessManagement --------------------------
(***************************************************************************)
(* Processors and processes from initializeProcessors on (KernelMain.cpp,  *)
(* ProcessManagement.cpp, the fault branch of TrapHandler): the boot       *)
(* processor fills the table of CPUStates and starts the others, creates   *)
(* the first process, and then every processor enters schedule, which      *)
(* holds ProcessTableSpinlock across the switch to a process.              *)
(*                                                                         *)
(* Page allocation is a choice between success and the null address; the   *)
(* spinlock is one atomic step, as the Spinlock module justifies.          *)
(***************************************************************************)
EXTENDS Integers, Sequences, FiniteSets, FiniteSetsExt

CONSTANTS
  CPUOrder,         \* Limine's list of processors, smp_request.response->cpus
  BSP,              \* the boot processor, one of them
  LapicID,          \* the local APIC ID of each processor
  NumSlots,         \* slots of ProcessTable
  MemoryMayRunOut   \* TRUE: allocatePage may return the null address

Slots == 1 .. NumSlots                \* of ProcessTable
CPU == {CPUOrder[i] : i \in DOMAIN CPUOrder}
Null == 0
Nobody == "nobody"

ASSUME OrderAssumption ==
  /\ CPUOrder \in Seq(CPU) /\ BSP \in CPU
  /\ \A i, j \in DOMAIN CPUOrder : CPUOrder[i] = CPUOrder[j] => i = j
  /\ Nobody \notin CPU
ASSUME LapicAssumption ==
  /\ LapicID \in [CPU -> Nat]
  /\ \A c, d \in CPU : LapicID[c] = LapicID[d] => c = d
ASSUME SlotAssumption == NumSlots \in Nat \ {0}
ASSUME MemoryAssumption == MemoryMayRunOut \in BOOLEAN

VARIABLES
  cpuID,           \* CPUState::apicID of each entry of CPUs
  currentProcess,  \* CPUState::currentProcess of each entry of CPUs
  gotoAddress,     \* the processors whose goto_address has been stored
  state,           \* ProcessInfo::state of each slot of ProcessTable
  parts,           \* what createFirstProcess has filled in for each slot
  tableHeld,       \* ProcessTableSpinlock.held
  owner,           \* history: who acquired ProcessTableSpinlock last
  pc,              \* where each processor is
  slot             \* the variable p of the loops over ProcessTable

shared == <<cpuID, gotoAddress>>
vars == <<cpuID, currentProcess, gotoAddress, state, parts, tableHeld, owner,
          pc, slot>>

Part == {"pageTable", "kernelStack", "program", "mapping", "trapFrame"}

(* CPUs has been allocated and zeroed, ProcessTable is zero from the start. *)
Init ==
  /\ cpuID = [i \in DOMAIN CPUOrder |-> 0]
  /\ currentProcess = [i \in DOMAIN CPUOrder |-> Null]
  /\ gotoAddress = {}
  /\ state = [s \in Slots |-> "Unused"]
  /\ parts = [s \in Slots |-> {}]
  /\ tableHeld = 0 /\ owner = Nobody
  /\ pc = [c \in CPU |-> IF c = BSP THEN "cpus" ELSE "off"]
  /\ slot = [c \in CPU |-> 1]

-----------------------------------------------------------------------------
Goto(c, from, to) == pc[c] = from /\ pc' = [pc EXCEPT ![c] = to]

(* thisCPU: the index of the first entry with this processor's ID, or 0. *)
thisCPU(c) ==
  LET hits == {i \in DOMAIN CPUOrder : cpuID[i] = LapicID[c]}
  IN  IF hits = {} THEN Null ELSE Min(hits)

acquire(c) == tableHeld = 0 /\ tableHeld' = 1 /\ owner' = c
release == tableHeld' = 0 /\ owner' = Nobody

(* Allocation succeeded, or it did not. *)
Outcome == IF MemoryMayRunOut THEN {TRUE, FALSE} ELSE {TRUE}

(* Faulty forms of the processors a round starts: all of them at once,     *)
(* ahead of their entries; the boot processor too.                         *)
StartsAll(i) == CPU \ {BSP}
StartsItself(i) == {CPUOrder[i]}

(* The processor of the round is started unless it is the boot processor. *)
Started(i) == {CPUOrder[i]} \ {BSP}

(* initializeProcessors, one round of the loop: the entry of the processor *)
(* and then its goto_address.                                              *)
initializeProcessor(i) ==
  /\ Goto(BSP, "cpus", IF i = Len(CPUOrder) THEN "create" ELSE "cpus")
  /\ slot' = [slot EXCEPT ![BSP] = IF i = Len(CPUOrder) THEN 1 ELSE i + 1]
  /\ cpuID' = [cpuID EXCEPT ![i] = LapicID[CPUOrder[i]]]
  /\ currentProcess' = [currentProcess EXCEPT ![i] = Null]
  /\ gotoAddress' = gotoAddress \union Started(i)
  /\ UNCHANGED <<state, parts, tableHeld, owner>>

initializeProcessors == initializeProcessor(slot[BSP])

(* A processor sees its goto_address and runs OtherProcessorMain. *)
OtherProcessorMain(c) ==
  /\ c \in gotoAddress
  /\ Goto(c, "off", "main")
  /\ UNCHANGED <<shared, currentProcess, state, parts, tableHeld, owner, slot>>

-----------------------------------------------------------------------------
(* createFirstProcess on the boot processor *)

(* Faulty allocateProcess: the slot is published before it is filled in. *)
AtOnceRunnable == "Runnable"

(* The state of a slot that allocateProcess has taken. *)
FreshState == "Fresh"

(* allocateProcess up to release: the first unused slot gets a copy of the *)
(* kernel's page table.  A copy without memory writes through nullptr with *)
(* the lock held; without a slot the lock is given up again, and           *)
(* createFirstProcess uses the nullptr it gets.                            *)
AllocateProcess(c) ==
  LET unused == {s \in Slots : state[s] = "Unused"}
  IN  \E ok \in Outcome :
        /\ tableHeld = 0
        /\ IF unused = {} THEN UNCHANGED <<tableHeld, owner>> ELSE acquire(c)
        /\ IF ok /\ unused # {}
           THEN /\ Goto(c, "create", "slot")
                /\ slot' = [slot EXCEPT ![c] = Min(unused)]
                /\ parts' = [parts EXCEPT ![Min(unused)] = {"pageTable"}]
                /\ state' = [state EXCEPT ![Min(unused)] = FreshState]
           ELSE /\ Goto(c, "create", "crashed")
                /\ UNCHANGED <<slot, parts, state>>
        /\ UNCHANGED <<shared, currentProcess>>

AllocateProcessUnlock(c) ==
  /\ Goto(c, "slot", "stack")
  /\ release
  /\ UNCHANGED <<shared, currentProcess, state, parts, slot>>

(* The rest of allocateProcess: the kernel stack with its first context.   *)
(* Without memory the slot is given back, and the nullptr it returns is    *)
(* used all the same.                                                      *)
AllocateKernelStack(c) ==
  \E ok \in Outcome :
    /\ Goto(c, "stack", IF ok THEN "load" ELSE "crashed")
    /\ IF ok
       THEN /\ parts' = [parts EXCEPT ![slot[c]] = @ \union {"kernelStack"}]
            /\ UNCHANGED state
       ELSE /\ state' = [state EXCEPT ![slot[c]] = "Unused"]
            /\ UNCHANGED parts
    /\ UNCHANGED <<shared, currentProcess, tableHeld, owner, slot>>

(* The program is copied to a page, mapped and given a trap frame; map     *)
(* goes on when it cannot allocate a table.                                *)
LoadProgram(c) ==
  \E ok, mapped \in Outcome :
    /\ Goto(c, "load", IF ok THEN "publish" ELSE "crashed")
    /\ parts' = IF ~ok THEN parts
                ELSE [parts EXCEPT ![slot[c]] =
                        @ \union {"program", "trapFrame"}
                          \union (IF mapped THEN {"mapping"} ELSE {})]
    /\ UNCHANGED <<shared, currentProcess, state, tableHeld, owner, slot>>

Publish(c) ==
  /\ Goto(c, "publish", "published")
  /\ acquire(c)
  /\ state' = [state EXCEPT ![slot[c]] = "Runnable"]
  /\ UNCHANGED <<shared, currentProcess, parts, slot>>

PublishUnlock(c) ==
  /\ Goto(c, "published", "main")
  /\ release
  /\ UNCHANGED <<shared, currentProcess, state, parts, slot>>

-----------------------------------------------------------------------------
(* SharedMain: the interrupt stack, without which the processor halts, the *)
(* descriptor tables, popCLI, the bus scan, and then schedule.             *)
SharedMain(c) ==
  \E ok \in Outcome :
    /\ Goto(c, "main", IF ok THEN "loop" ELSE "halted")
    /\ currentProcess' =
         IF ok THEN [currentProcess EXCEPT ![thisCPU(c)] = Null]
         ELSE currentProcess
    /\ UNCHANGED <<shared, state, parts, tableHeld, owner, slot>>

(* Faulty schedule: the scan starts at the second slot. *)
SecondSlot == 2

(* Where the loop over ProcessTable starts. *)
FirstSlot == 1

(* schedule, the head of the while loop. *)
ScheduleLock(c) ==
  /\ Goto(c, "loop", "scan")
  /\ acquire(c)
  /\ slot' = [slot EXCEPT ![c] = FirstSlot]
  /\ UNCHANGED <<shared, currentProcess, state, parts>>

(* Faulty loop increment: p++ after all. *)
Increment(s) == s + 1

(* The increment of the loop, p = p++: the old value is assigned back. *)
Advance(s) == s

(* One round of the for loop over a slot that is not runnable, or the end  *)
(* of the loop.                                                            *)
ScanTable(c) ==
  /\ pc[c] = "scan"
  /\ IF slot[c] > NumSlots
     THEN release /\ pc' = [pc EXCEPT ![c] = "loop"] /\ UNCHANGED slot
     ELSE /\ state[slot[c]] # "Runnable"
          /\ slot' = [slot EXCEPT ![c] = Advance(@)]
          /\ UNCHANGED <<tableHeld, owner, pc>>
  /\ UNCHANGED <<shared, currentProcess, state, parts>>

(* Faulty dispatch: the slot stays Runnable. *)
StillRunnable == "Runnable"

(* The state of a slot that schedule has chosen. *)
RunningState == "Running"

(* A runnable slot: it becomes this processor's process, and Pause goes to *)
(* its kernel task with the lock still held.                               *)
Dispatch(c) ==
  /\ slot[c] \in Slots /\ state[slot[c]] = "Runnable"
  /\ Goto(c, "scan", "entry")
  /\ currentProcess' = [currentProcess EXCEPT ![thisCPU(c)] = slot[c]]
  /\ state' = [state EXCEPT ![slot[c]] = RunningState]
  /\ UNCHANGED <<shared, parts, tableHeld, owner, slot>>

(* The first switch to a process arrives here: the lock is given up on the *)
(* process's own stack, and TrapRet goes to userspace.                     *)
ProcessEntryPoint(c) ==
  /\ Goto(c, "entry", "user")
  /\ release
  /\ UNCHANGED <<shared, currentProcess, state, parts, slot>>

(* MyFirstUserspace: two system calls, which only log, and then whatever   *)
(* follows in its page.  Without a mapping there is not even the first.    *)
Syscall(c) ==
  /\ \/ Goto(c, "user", "user1")
     \/ Goto(c, "user1", "user2")
  /\ "mapping" \in parts[currentProcess[thisCPU(c)]]
  /\ UNCHANGED <<shared, currentProcess, state, parts, tableHeld, owner, slot>>

(* TrapHandler, a page fault or protection fault from userspace: without a *)
(* current process a panic, otherwise exitCurrentProcess.                  *)
Fault(c) ==
  /\ \/ pc[c] = "user2"
     \/ pc[c] = "user" /\ "mapping" \notin parts[currentProcess[thisCPU(c)]]
  /\ pc' = [pc EXCEPT ![c] = IF currentProcess[thisCPU(c)] = Null
                             THEN "halted" ELSE "exit"]
  /\ UNCHANGED <<shared, currentProcess, state, parts, tableHeld, owner, slot>>

(* freeProcess: the slot is unused and its kernel stack freed. *)
freeProcess(c) ==
  LET p == currentProcess[thisCPU(c)]
  IN  /\ Goto(c, "exit", "freed")
      /\ acquire(c)
      /\ state' = [state EXCEPT ![p] = "Unused"]
      /\ parts' = [parts EXCEPT ![p] = @ \ {"kernelStack"}]
      /\ UNCHANGED <<shared, currentProcess, slot>>

(* Faulty end of freeProcess: the lock is kept. *)
KeepLock == UNCHANGED <<tableHeld, owner>>

ReleaseFreed == release

(* The end of freeProcess, and enterSchedulerFromProcess: back into the    *)
(* for loop of schedule where it was left, now without the lock.           *)
EnterScheduler(c) ==
  /\ Goto(c, "freed", "scan")
  /\ ReleaseFreed
  /\ UNCHANGED <<shared, currentProcess, state, parts, slot>>

-----------------------------------------------------------------------------
Create(c) ==
  \/ AllocateProcess(c) \/ AllocateProcessUnlock(c) \/ AllocateKernelStack(c)
  \/ LoadProgram(c) \/ Publish(c) \/ PublishUnlock(c)

Run(c) ==
  \/ OtherProcessorMain(c) \/ SharedMain(c)
  \/ ScheduleLock(c) \/ ScanTable(c) \/ Dispatch(c) \/ ProcessEntryPoint(c)
  \/ Syscall(c) \/ Fault(c) \/ freeProcess(c) \/ EnterScheduler(c)

Next == initializeProcessors \/ Create(BSP) \/ \E c \in CPU : Run(c)

Spec == Init /\ [][Next]_vars

(* Processors keep executing.  Strong fairness lets every processor that   *)
(* waits for the table lock win it if it is released again and again.      *)
Fairness ==
  /\ WF_vars(initializeProcessors)
  /\ SF_vars(Create(BSP))
  /\ \A c \in CPU : SF_vars(Run(c))

FairSpec == Spec /\ Fairness

-----------------------------------------------------------------------------
InUser == {"user", "user1", "user2"}
Step == {"off", "cpus", "create", "slot", "stack", "load", "publish",
         "published", "main", "loop", "scan", "entry", "exit", "freed",
         "halted", "crashed"} \union InUser

TypeOK ==
  /\ cpuID \in [DOMAIN CPUOrder -> Nat]
  /\ currentProcess \in [DOMAIN CPUOrder -> Slots \union {Null}]
  /\ gotoAddress \subseteq CPU \ {BSP}
  /\ state \in [Slots -> {"Unused", "Fresh", "Runnable", "Running"}]
  /\ parts \in [Slots -> SUBSET Part]
  /\ tableHeld \in {0, 1} /\ owner \in CPU \union {Nobody}
  /\ pc \in [CPU -> Step]
  /\ slot \in [CPU -> 1 .. NumSlots + Len(CPUOrder)]

(* Every processor that runs finds its own CPUState: thisCPU never returns *)
(* nullptr or another processor's entry, although the table is filled in   *)
(* while processors already search it and a zeroed entry looks like that   *)
(* of APIC ID 0 (thisCPU, initializeProcessors).                           *)
ThisCPUFound ==
  \A c \in CPU : pc[c] \notin {"off", "cpus"} =>
    /\ thisCPU(c) # Null
    /\ CPUOrder[thisCPU(c)] = c

(* The processor is executing, or about to execute, the process its        *)
(* CPUState names.                                                         *)
Executes(c, s) ==
  pc[c] \in InUser \union {"entry", "exit"} /\ currentProcess[thisCPU(c)] = s

(* A process runs on one processor at a time and its slot is marked        *)
(* Running as long as it does, also after ProcessEntryPoint has released   *)
(* the lock under which schedule chose it.                                 *)
SingleRunner ==
  \A s \in Slots, c \in CPU : Executes(c, s) =>
    /\ state[s] = "Running"
    /\ \A d \in CPU : Executes(d, s) => d = c

(* No processor can choose or run a half-built process: a slot another     *)
(* processor may look at as Runnable or Running has everything that        *)
(* allocateProcess and createFirstProcess give it.  The mapping is left    *)
(* out: map goes on without it when memory runs out.                       *)
PublishedComplete ==
  \A s \in Slots : state[s] \in {"Runnable", "Running"} =>
    Part \ {"mapping"} \subseteq parts[s]

(* ProcessTableSpinlock is released only by the processor that acquired    *)
(* it.  schedule acquires it, ProcessEntryPoint releases it on another     *)
(* stack, and after an exit schedule is back in its loop without it; the   *)
(* release behind that loop would then free somebody else's lock, and only *)
(* the increment p = p++, which never ends the loop, keeps it from that.   *)
OnlyOwnerReleases ==
  [][tableHeld = 1 /\ tableHeld' = 0 => pc'[owner] # pc[owner]]_vars

(* A process that has been made Runnable gets to userspace on some         *)
(* processor, also if all but one of them halt in SharedMain for want of   *)
(* an interrupt stack (schedule, ProcessEntryPoint).                       *)
PublishedRuns ==
  \A s \in Slots :
    state[s] = "Runnable" ~>
      \/ \E c \in CPU : pc[c] = "user" /\ currentProcess[thisCPU(c)] = s
      \/ \A c \in CPU : pc[c] = "halted"

(* A process that faults gets off its processor and leaves the processor  *)
(* without ProcessTableSpinlock (exitCurrentProcess, freeProcess), unless  *)
(* another processor's schedule looks at a slot that is not runnable with  *)
(* the lock held: that loop is the only thing an exit can wait for, the    *)
(* lock under which the process itself was chosen is not.                  *)
ExitCompletes ==
  \A c \in CPU :
    pc[c] = "exit" ~>
      \/ pc[c] = "scan" /\ owner # c
      \/ \E d \in CPU \ {c} : owner = d /\ pc[d] = "scan"

(* Every processor gets as far as scheduling processes, as the last log    *)
(* line of SharedMain announces.                                           *)
EveryProcessorSchedules ==
  \A c \in CPU : <>(pc[c] \in {"loop", "scan"})
=============================================================================

---------------------- MODULE ProcessManagementProofs -----------------------
(***************************************************************************)
(* The safety properties of ProcessManagement for any list of processors,  *)
(* any local APIC IDs and any number of slots, with or without memory.     *)
(***************************************************************************)
EXTENDS ProcessManagement, WellFoundedInduction, TLAPS

(* The entries of CPUs that initializeProcessors has been through. *)
Filled(i) == pc[BSP] # "cpus" \/ i < slot[BSP]

(* An entry holds its processor's ID once it is filled in and 0 before,    *)
(* and a processor gets its goto_address only after its entry.             *)
TableFilled ==
  /\ pc[BSP] = "cpus" => slot[BSP] \in DOMAIN CPUOrder
  /\ \A i \in DOMAIN CPUOrder :
       cpuID[i] = IF Filled(i) THEN LapicID[CPUOrder[i]] ELSE 0
  /\ \A c \in gotoAddress :
       \E i \in DOMAIN CPUOrder : CPUOrder[i] = c /\ Filled(i)

(* Only the boot processor fills the table and creates the process, and no *)
(* other processor leaves "off" without its goto_address.                  *)
BootSteps == {"cpus", "create", "slot", "stack", "load", "publish",
              "published", "crashed"}
Roles ==
  /\ pc[BSP] # "off"
  /\ \A c \in CPU : c # BSP =>
       /\ pc[c] \notin BootSteps
       /\ pc[c] # "off" => c \in gotoAddress

(* The inductive invariant of the boot. *)
BootInv == TypeOK /\ TableFilled /\ Roles

(* The steps at which a processor has ProcessTableSpinlock for certain.    *)
(* "scan" is not one of them: schedule is there with the lock, and after a *)
(* process's exit without it.                                              *)
Holding == {"slot", "published", "entry", "freed"}

(* The steps between the head of schedule and the end of the process that  *)
(* it has chosen: p keeps its first value through all of them.             *)
Scheduling == {"scan", "entry", "exit", "freed"} \union InUser

(* The lock word agrees with its owner. *)
LockOwned ==
  /\ tableHeld = 0 <=> owner = Nobody
  /\ \A c \in CPU :
       /\ pc[c] \in Holding => owner = c
       /\ pc[c] \in Scheduling => slot[c] = 1

(* The boot processor has not yet made its process Runnable. *)
Creation == {"cpus", "create", "slot", "stack", "load", "publish"}

(* The processor has chosen the process, and may have ended it: in the     *)
(* loop of schedule it is then without the lock.                           *)
Chosen(c) ==
  \/ pc[c] \in {"entry", "exit", "freed"} \union InUser
  \/ pc[c] = "scan" /\ owner # c

(* One process is created and chosen once.  This is what keeps a processor *)
(* that is back in schedule without the lock from choosing another, whose  *)
(* ProcessEntryPoint would then release a lock that is not its own.        *)
ChosenOnce ==
  /\ pc[BSP] \in Creation =>
       /\ \A s \in Slots : state[s] \notin {"Runnable", "Running"}
       /\ \A c \in CPU : ~Chosen(c)
  /\ \A s, r \in Slots : state[s] = "Runnable" /\ state[r] = "Runnable" => s = r
  /\ (\E c \in CPU : Chosen(c)) => \A s \in Slots : state[s] # "Runnable"

(* The inductive invariant of ProcessTableSpinlock. *)
LockInv == LockOwned /\ ChosenOnce

(* What the slot of createFirstProcess has at each of its steps. *)
Creating ==
  pc[BSP] \in {"slot", "stack", "load", "publish"} =>
    /\ slot[BSP] \in Slots
    /\ state[slot[BSP]] = "Fresh"
    /\ "pageTable" \in parts[slot[BSP]]
    /\ pc[BSP] \in {"load", "publish"} => "kernelStack" \in parts[slot[BSP]]
    /\ pc[BSP] = "publish" =>
         {"program", "trapFrame"} \subseteq parts[slot[BSP]]

(* A processor that executes a process has one. *)
HasProcess ==
  \A c \in CPU : pc[c] \in InUser \union {"entry", "exit"} =>
    currentProcess[thisCPU(c)] \in Slots

(* The inductive invariant of the processes. *)
ProcessInv == Creating /\ HasProcess /\ SingleRunner /\ PublishedComplete

-----------------------------------------------------------------------------
(* The one-line parts of the actions. *)
USE DEF Started, FreshState, FirstSlot, Advance, RunningState, ReleaseFreed

(* The less-than relation of the naturals as a set of pairs. *)
Less == {ss \in Nat \X Nat : ss[1] < ss[2]}

(* Less is well founded. *)
LEMMA LessWellFounded == IsWellFoundedOn(Less, Nat)
  BY NatLessThanWellFounded DEF OpToRel, Less

(* A nonempty set of naturals has a minimum, the first unused slot among   *)
(* them that allocateProcess takes.                                        *)
LEMMA MinInSet ==
  ASSUME NEW S, S \subseteq Nat, S # {}
  PROVE  Min(S) \in S /\ \A n \in S : Min(S) =< n
<1>1. PICK m \in S : \A n \in S : ~ (<<n, m>> \in Less)
  BY LessWellFounded, WFMin
<1>2. \A n \in S : ~ (n < m)
  BY <1>1 DEF Less
<1>3. \A n \in S : m =< n
  BY <1>2
<1> QED
  BY <1>3 DEF Min

(* Every processor has exactly one place in Limine's list. *)
LEMMA OrderFacts ==
  /\ Len(CPUOrder) \in Nat /\ DOMAIN CPUOrder = 1 .. Len(CPUOrder)
  /\ BSP \in CPU /\ Nobody \notin CPU
  /\ \A i \in DOMAIN CPUOrder : CPUOrder[i] \in CPU
  /\ \A c \in CPU : \E i \in DOMAIN CPUOrder : CPUOrder[i] = c
  BY OrderAssumption DEF CPU

(* thisCPU finds the entry of a processor as soon as it is filled in: an   *)
(* entry that is still zero looks like that of APIC ID 0, but it lies      *)
(* behind.                                                                 *)
LEMMA FilledFound ==
  ASSUME BootInv, NEW i \in DOMAIN CPUOrder, Filled(i)
  PROVE  thisCPU(CPUOrder[i]) = i
<1> DEFINE hits == {j \in DOMAIN CPUOrder : cpuID[j] = LapicID[CPUOrder[i]]}
<1>1. i \in hits
  BY DEF BootInv, TableFilled
<1>2. \A j \in hits : i =< j
  <2> SUFFICES ASSUME NEW j \in hits, j < i PROVE FALSE
    BY OrderFacts
  <2>1. Filled(j)
    BY OrderFacts DEF Filled, BootInv, TypeOK
  <2>2. LapicID[CPUOrder[j]] = LapicID[CPUOrder[i]]
    BY <2>1 DEF BootInv, TableFilled
  <2>3. j = i
    BY <2>2, OrderFacts, LapicAssumption, OrderAssumption
  <2> QED
    BY <2>3, OrderFacts
<1>3. Min(hits) = i
  <2>1. hits \subseteq Nat /\ hits # {}
    BY <1>1, OrderFacts
  <2>2. Min(hits) \in hits /\ Min(hits) =< i
    BY <1>1, <2>1, MinInSet
  <2> QED
    BY <1>1, <1>2, <2>1, <2>2
<1> QED
  BY <1>1, <1>3 DEF thisCPU

(* A processor that is past "off" and "cpus" has a filled entry. *)
LEMMA RunningFilled ==
  ASSUME BootInv, NEW c \in CPU, pc[c] \notin {"off", "cpus"}
  PROVE  \E i \in DOMAIN CPUOrder :
           CPUOrder[i] = c /\ Filled(i) /\ thisCPU(c) = i
<1>1. PICK i \in DOMAIN CPUOrder : CPUOrder[i] = c /\ Filled(i)
  BY OrderFacts DEF BootInv, TableFilled, Roles, Filled
<1> QED
  BY <1>1, FilledFound

-----------------------------------------------------------------------------
(* The boot invariant holds in the beginning. *)
LEMMA BootInit == Init => BootInv
<1> SUFFICES ASSUME Init PROVE BootInv
  OBVIOUS
<1>1. TypeOK
  BY OrderFacts, SlotAssumption
     DEF Init, TypeOK, Step, InUser, Slots, Null
<1>2. TableFilled /\ Roles
  BY OrderFacts DEF Init, TableFilled, Roles, Filled, BootSteps
<1> QED
  BY <1>1, <1>2 DEF BootInv

(* A step that leaves the table of CPUs alone and moves one processor that *)
(* has been started, to a step of its role.                                *)
Moves(c, to) ==
  /\ UNCHANGED shared
  /\ pc[c] # "cpus"
  /\ pc[c] = "off" => c \in gotoAddress
  /\ pc' = [pc EXCEPT ![c] = to]
  /\ to \in Step \ {"off", "cpus"}
  /\ to \in BootSteps => c = BSP
  /\ \A d \in CPU : d # c => slot'[d] = slot[d]

(* The steps of a processor but initializeProcessors. *)
Steps(c) == Run(c) \/ (c = BSP /\ Create(c))

(* Such a step keeps the table filled and the roles. *)
LEMMA MoveKeepsBoot ==
  ASSUME BootInv, NEW c \in CPU, NEW to, Moves(c, to)
  PROVE  TableFilled' /\ Roles'
<1>1. pc \in [CPU -> Step] /\ slot \in [CPU -> Nat]
  BY DEF BootInv, TypeOK
<1>2. pc'[BSP] # "cpus" <=> pc[BSP] # "cpus"
  BY <1>1, OrderFacts DEF Moves
<1>3. pc[BSP] = "cpus" => slot'[BSP] = slot[BSP]
  BY <1>1, OrderFacts DEF Moves
<1>4. \A i \in DOMAIN CPUOrder : Filled(i)' <=> Filled(i)
  BY <1>2, <1>3 DEF Filled
<1>5. TableFilled'
  BY <1>2, <1>3, <1>4 DEF Moves, shared, BootInv, TableFilled
<1>6. Roles'
  BY <1>1, OrderFacts DEF Moves, shared, BootInv, Roles
<1> QED
  BY <1>5, <1>6

(* Every step of a processor but initializeProcessors is of that kind. *)
LEMMA EveryMove ==
  ASSUME BootInv, NEW c \in CPU, Steps(c)
  PROVE  \E to : Moves(c, to)
<1> USE DEF Goto, shared
<1>0. pc \in [CPU -> Step] /\ slot \in [CPU -> 1 .. NumSlots + Len(CPUOrder)]
  BY DEF BootInv, TypeOK
<1>1. UNCHANGED shared
  BY DEF Steps, Run, Create, AllocateProcess, AllocateProcessUnlock,
     AllocateKernelStack, LoadProgram, Publish, PublishUnlock,
     OtherProcessorMain, SharedMain, ScheduleLock, ScanTable, Dispatch,
     ProcessEntryPoint, Syscall, Fault, freeProcess, EnterScheduler
<1>2. pc[c] # "cpus" /\ (pc[c] = "off" => c \in gotoAddress)
  BY DEF Steps, Run, Create, AllocateProcess, AllocateProcessUnlock,
     AllocateKernelStack, LoadProgram, Publish, PublishUnlock,
     OtherProcessorMain, SharedMain, ScheduleLock, ScanTable, Dispatch,
     ProcessEntryPoint, Syscall, Fault, freeProcess, EnterScheduler
<1>3. \A d \in CPU : d # c => slot'[d] = slot[d]
  BY <1>0 DEF Steps, Run, Create, AllocateProcess, AllocateProcessUnlock,
     AllocateKernelStack, LoadProgram, Publish, PublishUnlock,
     OtherProcessorMain, SharedMain, ScheduleLock, ScanTable, Dispatch,
     ProcessEntryPoint, Syscall, Fault, freeProcess, EnterScheduler
<1>4. \E to \in Step \ {"off", "cpus"} :
        pc' = [pc EXCEPT ![c] = to] /\ (to \in BootSteps => c = BSP)
  <2> USE DEF Step, InUser, BootSteps
  <2>1. CASE AllocateProcess(c) /\ c = BSP
    BY <2>1 DEF AllocateProcess
  <2>2. CASE (AllocateProcessUnlock(c) \/ AllocateKernelStack(c)) /\ c = BSP
    BY <2>2 DEF AllocateProcessUnlock, AllocateKernelStack
  <2>3. CASE (LoadProgram(c) \/ Publish(c) \/ PublishUnlock(c)) /\ c = BSP
    BY <2>3 DEF LoadProgram, Publish, PublishUnlock
  <2>4. CASE OtherProcessorMain(c) \/ SharedMain(c) \/ ScheduleLock(c)
    BY <2>4 DEF OtherProcessorMain, SharedMain, ScheduleLock
  <2>5. CASE ScanTable(c)
    <3>1. CASE slot[c] > NumSlots
      BY <2>5, <3>1 DEF ScanTable
    <3>2. CASE ~(slot[c] > NumSlots)
      <4>1. pc[c] = "scan" /\ pc' = pc
        BY <2>5, <3>2 DEF ScanTable
      <4>2. pc' = [pc EXCEPT ![c] = "scan"]
        BY <1>0, <4>1
      <4>3. "scan" \in Step \ {"off", "cpus"} /\ "scan" \notin BootSteps
        OBVIOUS
      <4> HIDE DEF Step, BootSteps
      <4> QED
        BY <4>2, <4>3
    <3> QED
      BY <3>1, <3>2
  <2>6. CASE Dispatch(c) \/ ProcessEntryPoint(c) \/ Syscall(c)
    BY <2>6 DEF Dispatch, ProcessEntryPoint, Syscall
  <2>7. CASE Fault(c) \/ freeProcess(c) \/ EnterScheduler(c)
    BY <2>7 DEF Fault, freeProcess, EnterScheduler
  <2> QED
    BY <2>1, <2>2, <2>3, <2>4, <2>5, <2>6, <2>7 DEF Steps, Run, Create
<1> QED
  BY <1>1, <1>2, <1>3, <1>4 DEF Moves

(* A step of a processor keeps the types. *)
LEMMA RunKeepsTypes ==
  ASSUME BootInv, NEW c \in CPU, Steps(c)
  PROVE  TypeOK'
<1> USE DEF Goto
<1>0. TypeOK
  BY DEF BootInv
<1>1. pc' \in [CPU -> Step] /\ UNCHANGED shared
  BY <1>0, EveryMove DEF Moves, TypeOK
<1>2. slot' \in [CPU -> 1 .. NumSlots + Len(CPUOrder)]
  <2>1. CASE AllocateProcess(c)
    <3> DEFINE unused == {s \in Slots : state[s] = "Unused"}
    <3>1. unused # {} => Min(unused) \in Slots
      BY MinInSet DEF Slots
    <3>2. CASE slot' = slot
      BY <1>0, <3>2 DEF TypeOK
    <3>3. CASE unused # {} /\ slot' = [slot EXCEPT ![c] = Min(unused)]
      BY <1>0, <3>1, <3>3, OrderFacts, SlotAssumption DEF TypeOK, Slots
    <3> QED
      BY <2>1, <3>2, <3>3 DEF AllocateProcess
  <2>2. CASE ScheduleLock(c)
    BY <1>0, <2>2, OrderFacts, SlotAssumption DEF ScheduleLock, TypeOK
  <2>3. CASE ScanTable(c)
    BY <1>0, <2>3 DEF ScanTable, TypeOK
  <2>4. CASE slot' = slot
    BY <1>0, <2>4 DEF TypeOK
  <2> QED
    BY <2>1, <2>2, <2>3, <2>4 DEF Steps, Run, Create, AllocateProcessUnlock,
       AllocateKernelStack, LoadProgram, Publish, PublishUnlock,
       OtherProcessorMain, SharedMain, Dispatch,
       ProcessEntryPoint, Syscall, Fault, freeProcess, EnterScheduler
<1>3. currentProcess' \in [DOMAIN CPUOrder -> Slots \union {Null}]
  BY <1>0 DEF Steps, Run, Create, AllocateProcess, AllocateProcessUnlock,
     AllocateKernelStack, LoadProgram, Publish, PublishUnlock,
     OtherProcessorMain, SharedMain, ScheduleLock, ScanTable, Dispatch,
     ProcessEntryPoint, Syscall, Fault, freeProcess, EnterScheduler, TypeOK
<1>4. state' \in [Slots -> {"Unused", "Fresh", "Runnable", "Running"}]
  BY <1>0 DEF Steps, Run, Create, AllocateProcess, AllocateProcessUnlock,
     AllocateKernelStack, LoadProgram, Publish, PublishUnlock,
     OtherProcessorMain, SharedMain, ScheduleLock, ScanTable, Dispatch,
     ProcessEntryPoint, Syscall, Fault, freeProcess, EnterScheduler, TypeOK
<1>5. parts' \in [Slots -> SUBSET Part]
  <2>1. ASSUME NEW s, NEW q, q \subseteq Part,
               parts' = [parts EXCEPT ![s] = @ \union q]
        PROVE  parts' \in [Slots -> SUBSET Part]
    <3>1. s \in Slots => parts[s] \union q \in SUBSET Part
      BY <1>0, <2>1 DEF TypeOK
    <3> QED
      BY <1>0, <2>1, <3>1 DEF TypeOK
  <2>2. CASE AllocateProcess(c)
    <3>1. {"pageTable"} \in SUBSET Part
      BY DEF Part
    <3> QED
      BY <1>0, <2>2, <3>1 DEF AllocateProcess, TypeOK
  <2>3. CASE AllocateKernelStack(c)
    <3>1. {"kernelStack"} \subseteq Part
      BY DEF Part
    <3>2. \/ parts' = parts
          \/ parts' = [parts EXCEPT ![slot[c]] = @ \union {"kernelStack"}]
      BY <2>3 DEF AllocateKernelStack
    <3>3. parts \in [Slots -> SUBSET Part]
      BY <1>0 DEF TypeOK
    <3> QED
      BY <2>1, <3>1, <3>2, <3>3
  <2>4. CASE LoadProgram(c)
    <3>1. PICK m \in SUBSET {"mapping"} :
            \/ parts' = parts
            \/ parts' = [parts EXCEPT ![slot[c]] =
                           @ \union {"program", "trapFrame"} \union m]
      BY <2>4 DEF LoadProgram
    <3>2. {"program", "trapFrame"} \union m \subseteq Part
      BY DEF Part
    <3>3. \A q : q \union {"program", "trapFrame"} \union m
                 = q \union ({"program", "trapFrame"} \union m)
      OBVIOUS
    <3> QED
      BY <1>0, <2>1, <3>1, <3>2, <3>3 DEF TypeOK
  <2>5. CASE freeProcess(c)
    BY <1>0, <2>5 DEF freeProcess, TypeOK
  <2>6. CASE parts' = parts
    BY <1>0, <2>6 DEF TypeOK
  <2> QED
    BY <2>2, <2>3, <2>4, <2>5, <2>6 DEF Steps, Run, Create, AllocateProcessUnlock, Publish,
       PublishUnlock, OtherProcessorMain, SharedMain, ScheduleLock, ScanTable,
       Dispatch, ProcessEntryPoint, Syscall, Fault, EnterScheduler
<1>6. tableHeld' \in {0, 1} /\ owner' \in CPU \union {Nobody}
  BY <1>0 DEF Steps, Run, Create, AllocateProcess, AllocateProcessUnlock,
     AllocateKernelStack, LoadProgram, Publish, PublishUnlock,
     OtherProcessorMain, SharedMain, ScheduleLock, ScanTable, Dispatch,
     ProcessEntryPoint, Syscall, Fault, freeProcess, EnterScheduler, TypeOK,
     acquire, release
<1> QED
  BY <1>0, <1>1, <1>2, <1>3, <1>4, <1>5, <1>6 DEF TypeOK, shared

(* initializeProcessors fills the next entry, and every other step keeps   *)
(* the table: the boot invariant is inductive.                             *)
LEMMA BootNext == BootInv /\ [Next]_vars => BootInv'
<1> SUFFICES ASSUME BootInv, [Next]_vars PROVE BootInv'
  OBVIOUS
<1>1. CASE UNCHANGED vars
  BY <1>1 DEF vars, BootInv, TypeOK, TableFilled, Roles, Filled
<1>2. CASE initializeProcessors
  <2>1. PICK i \in 1 .. Len(CPUOrder) : i = slot[BSP]
    BY <1>2, OrderFacts DEF initializeProcessors, initializeProcessor, Goto,
       BootInv, TableFilled
  <2>2. /\ pc[BSP] = "cpus"
        /\ pc' = [pc EXCEPT ![BSP] =
                    IF i = Len(CPUOrder) THEN "create" ELSE "cpus"]
        /\ slot' = [slot EXCEPT ![BSP] =
                      IF i = Len(CPUOrder) THEN 1 ELSE i + 1]
        /\ cpuID' = [cpuID EXCEPT ![i] = LapicID[CPUOrder[i]]]
        /\ currentProcess' = [currentProcess EXCEPT ![i] = Null]
        /\ gotoAddress' = gotoAddress \union ({CPUOrder[i]} \ {BSP})
        /\ UNCHANGED <<state, parts, tableHeld, owner>>
    BY <1>2, <2>1 DEF initializeProcessors, initializeProcessor, Goto
  <2>3. TypeOK /\ CPUOrder[i] \in CPU /\ LapicID[CPUOrder[i]] \in Nat
    BY OrderFacts, LapicAssumption DEF BootInv
  <2>4. TypeOK'
    <3>1. slot' \in [CPU -> 1 .. NumSlots + Len(CPUOrder)]
      <4>1. Len(CPUOrder) \in Nat /\ NumSlots \in Nat
        BY OrderFacts, SlotAssumption
      <4>2. 1 \in 1 .. NumSlots + Len(CPUOrder)
        BY <4>1
      <4>3. i # Len(CPUOrder) => i + 1 \in 1 .. NumSlots + Len(CPUOrder)
        BY <4>1
      <4> QED
        BY <2>2, <2>3, <4>2, <4>3 DEF TypeOK
    <3>2. pc' \in [CPU -> Step]
      BY <2>2, <2>3 DEF TypeOK, Step
    <3>3. gotoAddress' \subseteq CPU \ {BSP}
      BY <2>2, <2>3 DEF TypeOK
    <3>4. cpuID' \in [DOMAIN CPUOrder -> Nat]
      BY <2>2, <2>3 DEF TypeOK
    <3>5. currentProcess' \in [DOMAIN CPUOrder -> Slots \union {Null}]
      BY <2>2, <2>3 DEF TypeOK
    <3> QED
      BY <2>2, <2>3, <3>1, <3>2, <3>3, <3>4, <3>5 DEF TypeOK
  <2>5. /\ pc'[BSP] = "cpus" => i # Len(CPUOrder) /\ slot'[BSP] = i + 1
        /\ pc'[BSP] # "cpus" => i = Len(CPUOrder)
    BY <2>2, <2>3, OrderFacts DEF TypeOK
  <2>6. \A j \in DOMAIN CPUOrder : Filled(j)' <=> Filled(j) \/ j = i
    BY <2>1, <2>2, <2>5, OrderFacts DEF Filled
  <2>7. TableFilled'
    <3>1. pc'[BSP] = "cpus" => slot'[BSP] \in DOMAIN CPUOrder
      <4>1. Len(CPUOrder) \in Nat /\ DOMAIN CPUOrder = 1 .. Len(CPUOrder)
        BY OrderFacts
      <4>2. ASSUME NEW n \in Nat, i \in 1 .. n, i # n PROVE i + 1 \in 1 .. n
        BY <4>2
      <4> QED
        BY <2>5, <4>1, <4>2
    <3>2. \A j \in DOMAIN CPUOrder :
            cpuID'[j] = IF Filled(j)' THEN LapicID[CPUOrder[j]] ELSE 0
      BY <2>2, <2>3, <2>6, OrderFacts DEF TypeOK, BootInv, TableFilled
    <3>3. \A c \in gotoAddress' :
            \E j \in DOMAIN CPUOrder : CPUOrder[j] = c /\ Filled(j)'
      BY <2>2, <2>6, OrderFacts DEF BootInv, TableFilled
    <3> QED
      BY <3>1, <3>2, <3>3 DEF TableFilled
  <2>8. Roles'
    BY <2>2, <2>3, OrderFacts DEF BootInv, Roles, TypeOK, BootSteps
  <2> QED
    BY <2>4, <2>7, <2>8 DEF BootInv
<1>3. ASSUME NEW c \in CPU, Steps(c) PROVE BootInv'
  BY <1>3, EveryMove, MoveKeepsBoot, RunKeepsTypes DEF BootInv
<1> QED
  BY <1>1, <1>2, <1>3, OrderFacts DEF Next, Steps

-----------------------------------------------------------------------------
(* The lock invariant holds in the beginning. *)
LEMMA LockInit == Init => LockInv
  BY OrderFacts DEF Init, LockInv, LockOwned, ChosenOnce, Holding, Scheduling,
     Creation, Chosen, InUser

(* Nobody but the processor at a step of Holding releases the lock, and    *)
(* every acquire finds it free: the loop of schedule never reaches its own *)
(* release, because its index stays at the first slot.                     *)
LEMMA LockOwnedNext ==
  ASSUME BootInv, LockInv, [Next]_vars
  PROVE  LockOwned'
<1>0. TypeOK /\ LockOwned
  BY DEF BootInv, LockInv
<1> USE DEF Holding, Scheduling, InUser
<1>1. CASE UNCHANGED vars
  BY <1>0, <1>1 DEF vars, LockOwned
<1>2. CASE initializeProcessors
  BY <1>0, <1>2, OrderFacts DEF initializeProcessors, initializeProcessor,
     Goto, LockOwned, TypeOK
<1>3. ASSUME NEW c \in CPU, NEW to, Moves(c, to),
             UNCHANGED <<tableHeld, owner, slot>>,
             to \in Holding => owner = c,
             to \in Scheduling => pc[c] \in Scheduling
      PROVE  LockOwned'
  BY <1>0, <1>3 DEF LockOwned, Moves, TypeOK
<1>4. ASSUME NEW c \in CPU, NEW to, Moves(c, to), acquire(c),
             to \in Scheduling => slot'[c] = 1
      PROVE  LockOwned'
  BY <1>0, <1>4, OrderFacts DEF LockOwned, Moves, TypeOK, acquire
<1>5. ASSUME NEW c \in CPU, NEW to, Moves(c, to), release, slot' = slot,
             pc[c] \in Holding, to \notin Holding,
             to \in Scheduling => pc[c] \in Scheduling
      PROVE  LockOwned'
  BY <1>0, <1>5, OrderFacts DEF LockOwned, Moves, TypeOK, release
<1>6. ASSUME NEW c \in CPU, Steps(c) PROVE LockOwned'
  <2>1. PICK to : Moves(c, to)
    BY <1>6, EveryMove
  <2>2. pc'[c] = to
    BY <1>0, <2>1 DEF Moves, TypeOK
  <2> USE DEF Goto
  <2>3. CASE AllocateProcess(c)
    <3>1. pc'[c] \in {"slot", "crashed"}
      BY <1>0, <2>3 DEF AllocateProcess, TypeOK
    <3>2. CASE acquire(c)
      BY <1>4, <2>1, <2>2, <3>1, <3>2
    <3>3. CASE UNCHANGED <<tableHeld, owner>> /\ pc'[c] = "crashed"
               /\ slot' = slot
      BY <1>3, <2>1, <2>2, <3>3
    <3> QED
      BY <1>0, <2>3, <3>2, <3>3 DEF AllocateProcess, TypeOK
  <2>4. CASE AllocateProcessUnlock(c) \/ PublishUnlock(c)
             \/ ProcessEntryPoint(c) \/ EnterScheduler(c)
    BY <1>0, <1>5, <2>1, <2>2, <2>4 DEF AllocateProcessUnlock, PublishUnlock,
       ProcessEntryPoint, EnterScheduler, TypeOK
  <2>5. CASE AllocateKernelStack(c) \/ LoadProgram(c)
             \/ OtherProcessorMain(c) \/ SharedMain(c) \/ Syscall(c)
             \/ Fault(c)
    BY <1>0, <1>3, <2>1, <2>2, <2>5 DEF AllocateKernelStack, LoadProgram,
       OtherProcessorMain, SharedMain, Syscall, Fault, TypeOK
  <2>6. CASE Publish(c) \/ ScheduleLock(c)
    BY <1>0, <1>4, <2>1, <2>2, <2>6 DEF Publish, ScheduleLock, TypeOK
  <2>7. CASE freeProcess(c)
    BY <1>0, <1>4, <2>1, <2>2, <2>7 DEF freeProcess, TypeOK, LockOwned
  <2>8. CASE ScanTable(c)
    <3>1. slot[c] = 1 /\ ~(slot[c] > NumSlots)
      BY <1>0, <2>8, SlotAssumption DEF ScanTable, LockOwned
    <3>2. UNCHANGED <<tableHeld, owner, pc>> /\ slot' = slot
      BY <1>0, <2>8, <3>1 DEF ScanTable, TypeOK
    <3> QED
      BY <1>0, <3>2 DEF LockOwned
  <2>9. CASE Dispatch(c)
    <3>1. pc[c] = "scan" /\ \E s \in Slots : state[s] = "Runnable"
      BY <2>9 DEF Dispatch
    <3>2. owner = c
      BY <3>1 DEF LockInv, ChosenOnce, Chosen
    <3> QED
      BY <1>0, <1>3, <2>1, <2>2, <2>9, <3>2 DEF Dispatch, TypeOK
  <2> QED
    BY <1>6, <2>3, <2>4, <2>5, <2>6, <2>7, <2>8, <2>9 DEF Steps, Run, Create
<1> QED
  BY <1>1, <1>2, <1>6, OrderFacts DEF Next, Steps

(* A step leaves the lock alone, takes it while it is free, or is the      *)
(* owner's release of it, with which the owner goes on.                    *)
LEMMA LockSteps ==
  ASSUME BootInv, LockInv, NEW c \in CPU, Steps(c)
  PROVE  \/ UNCHANGED <<tableHeld, owner>>
         \/ acquire(c) /\ owner = Nobody
         \/ release /\ owner = c /\ pc'[c] # pc[c]
<1>0. TypeOK /\ LockOwned
  BY DEF BootInv, LockInv
<1> USE DEF Goto
<1>1. CASE acquire(c) \/ UNCHANGED <<tableHeld, owner>>
  BY <1>0, <1>1 DEF LockOwned, acquire
<1>2. CASE AllocateProcessUnlock(c) \/ PublishUnlock(c)
           \/ ProcessEntryPoint(c) \/ EnterScheduler(c)
  BY <1>0, <1>2 DEF AllocateProcessUnlock, PublishUnlock, ProcessEntryPoint,
     EnterScheduler, LockOwned, Holding, TypeOK
<1>3. CASE ScanTable(c)
  BY <1>0, <1>3, SlotAssumption DEF ScanTable, LockOwned, Scheduling
<1> QED
  BY <1>1, <1>2, <1>3 DEF Steps, Run, Create, AllocateProcess,
     AllocateKernelStack, LoadProgram, Publish, OtherProcessorMain,
     SharedMain, ScheduleLock, Dispatch, Syscall, Fault, freeProcess

(* Whether another processor has chosen the process does not change. *)
LEMMA OthersChosen ==
  ASSUME BootInv, LockInv, NEW c \in CPU, Steps(c), NEW d \in CPU, d # c
  PROVE  pc'[d] = pc[d] /\ (Chosen(d)' <=> Chosen(d))
<1>1. pc'[d] = pc[d]
  BY EveryMove DEF Moves, BootInv, TypeOK
<1>2. owner' = d <=> owner = d
  BY LockSteps, OrderFacts DEF acquire, release
<1> QED
  BY <1>1, <1>2 DEF Chosen

(* The process is made Runnable once, by createFirstProcess, and only a    *)
(* processor that has the lock finds it so.                                *)
LEMMA ChosenOnceNext ==
  ASSUME BootInv, LockInv, [Next]_vars
  PROVE  ChosenOnce'
<1>0. TypeOK /\ LockOwned /\ ChosenOnce
  BY DEF BootInv, LockInv
<1>1. CASE UNCHANGED vars
  BY <1>0, <1>1 DEF vars, ChosenOnce, Chosen
<1>2. CASE initializeProcessors
  <2>1. /\ pc[BSP] \in Creation /\ pc'[BSP] \in {"cpus", "create"}
        /\ \A d \in CPU : d # BSP => pc'[d] = pc[d]
        /\ UNCHANGED <<state, owner>>
    BY <1>0, <1>2, OrderFacts DEF initializeProcessors, initializeProcessor,
       Goto, TypeOK, Creation
  <2>2. \A d \in CPU : ~Chosen(d)'
    BY <1>0, <2>1 DEF ChosenOnce, Chosen, InUser
  <2> QED
    BY <1>0, <2>1, <2>2 DEF ChosenOnce
<1>3. ASSUME NEW c \in CPU, Steps(c) PROVE ChosenOnce'
  <2>1. \A d \in CPU : d # c => pc'[d] = pc[d] /\ (Chosen(d)' <=> Chosen(d))
    BY <1>3, OthersChosen
  <2> USE DEF Goto, InUser, Creation
  <2>2. CASE c = BSP /\ (AllocateProcess(c) \/ AllocateProcessUnlock(c)
                         \/ AllocateKernelStack(c) \/ LoadProgram(c))
    <3>1. pc[c] \in Creation /\ pc'[c] \in Creation \union {"crashed"}
      BY <1>0, <2>2 DEF AllocateProcess, AllocateProcessUnlock,
         AllocateKernelStack, LoadProgram, TypeOK
    <3>2. \A s \in Slots : state'[s] \notin {"Runnable", "Running"}
      BY <1>0, <2>2, <3>1 DEF AllocateProcess, AllocateProcessUnlock,
         AllocateKernelStack, LoadProgram, TypeOK, ChosenOnce
    <3>3. \A d \in CPU : ~Chosen(d)'
      BY <1>0, <2>1, <2>2, <3>1 DEF ChosenOnce, Chosen
    <3> QED
      BY <3>2, <3>3 DEF ChosenOnce
  <2>3. CASE c = BSP /\ Publish(c)
    <3>1. pc[c] = "publish" /\ pc'[c] = "published"
      BY <1>0, <2>3 DEF Publish, TypeOK
    <3>2. \A s \in Slots : state'[s] = "Runnable" => s = slot[c]
      BY <1>0, <2>3, <3>1 DEF Publish, TypeOK, ChosenOnce
    <3>3. \A d \in CPU : ~Chosen(d)'
      BY <1>0, <2>1, <2>3, <3>1 DEF ChosenOnce, Chosen
    <3> QED
      BY <2>3, <3>1, <3>2, <3>3 DEF ChosenOnce
  <2>4. ASSUME state' = state, Chosen(c)' => Chosen(c),
               pc'[c] \notin Creation
        PROVE  ChosenOnce'
    <3>1. \A d \in CPU : Chosen(d)' => Chosen(d)
      BY <2>1, <2>4
    <3>2. pc'[BSP] \in Creation => pc[BSP] \in Creation
      BY <2>1, <2>4, OrderFacts
    <3> QED
      BY <1>0, <2>4, <3>1, <3>2 DEF ChosenOnce
  <2>5. CASE PublishUnlock(c) \/ OtherProcessorMain(c) \/ SharedMain(c)
             \/ ScheduleLock(c)
    <3>1. pc'[c] \in {"main", "loop", "scan", "halted"} /\ state' = state
          /\ (pc'[c] = "scan" => owner' = c)
      BY <1>0, <2>5 DEF PublishUnlock, OtherProcessorMain, SharedMain,
         ScheduleLock, TypeOK, acquire
    <3> QED
      BY <2>4, <3>1 DEF Chosen
  <2>6. CASE ScanTable(c)
    <3>1. slot[c] = 1 /\ ~(slot[c] > NumSlots)
      BY <1>0, <2>6, SlotAssumption DEF ScanTable, LockOwned, Scheduling
    <3>2. UNCHANGED <<state, owner, pc>> /\ pc[c] = "scan"
      BY <2>6, <3>1 DEF ScanTable
    <3> QED
      BY <2>4, <3>2 DEF Chosen
  <2>7. CASE ProcessEntryPoint(c) \/ Syscall(c) \/ Fault(c)
             \/ EnterScheduler(c)
    <3>1. /\ pc[c] \in {"entry", "freed"} \union InUser /\ state' = state
          /\ pc'[c] \notin Creation
      BY <1>0, <2>7 DEF ProcessEntryPoint, Syscall, Fault, EnterScheduler,
         TypeOK
    <3> QED
      BY <2>4, <3>1 DEF Chosen
  <2>8. CASE freeProcess(c)
    <3>1. Chosen(c) /\ pc'[c] \notin Creation
      BY <1>0, <2>8 DEF freeProcess, TypeOK, Chosen
    <3>2. \A s \in Slots : state'[s] \in {state[s], "Unused"}
      BY <1>0, <2>8 DEF freeProcess, TypeOK
    <3>3. \A s \in Slots : state'[s] # "Runnable"
      BY <1>0, <3>1, <3>2 DEF ChosenOnce
    <3>4. pc'[BSP] \notin Creation
      BY <1>0, <2>1, <3>1, OrderFacts DEF ChosenOnce
    <3> QED
      BY <3>3, <3>4 DEF ChosenOnce
  <2>9. CASE Dispatch(c)
    <3>1. /\ slot[c] \in Slots /\ state[slot[c]] = "Runnable"
          /\ state' = [state EXCEPT ![slot[c]] = "Running"]
          /\ pc'[c] = "entry"
      BY <1>0, <2>9 DEF Dispatch, TypeOK
    <3>2. \A s \in Slots : state'[s] # "Runnable"
      BY <1>0, <3>1 DEF ChosenOnce, TypeOK
    <3>3. pc'[BSP] \notin Creation
      BY <1>0, <2>1, <3>1, OrderFacts DEF ChosenOnce
    <3> QED
      BY <3>2, <3>3 DEF ChosenOnce
  <2> QED
    BY <1>3, <2>2, <2>3, <2>5, <2>6, <2>7, <2>8, <2>9 DEF Steps, Run, Create
<1> QED
  BY <1>1, <1>2, <1>3, OrderFacts DEF Next, Steps

-----------------------------------------------------------------------------
(* Every processor that runs finds the CPUState that is its own. *)
Finds(c) ==
  pc[c] \notin {"off", "cpus"} =>
    thisCPU(c) \in DOMAIN CPUOrder /\ CPUOrder[thisCPU(c)] = c

(* The boot invariant gives each processor its CPUState. *)
LEMMA BootFinds == BootInv => \A c \in CPU : Finds(c)
  BY RunningFilled DEF Finds

(* The process of a processor, and the steps at which it executes it. *)
Cur(c) == currentProcess[thisCPU(c)]
Executing == InUser \union {"entry", "exit"}

(* A step of one processor leaves the CPUStates of the others alone. *)
LEMMA OthersKept ==
  ASSUME BootInv, NEW c \in CPU, Steps(c)
  PROVE  /\ \A d \in CPU : thisCPU(d)' = thisCPU(d)
         /\ \A d \in CPU : d # c =>
              /\ pc'[d] = pc[d]
              /\ pc[d] \in Executing => Cur(d)' = Cur(d)
<1>0. TypeOK
  BY DEF BootInv
<1>1. \A d \in CPU : thisCPU(d)' = thisCPU(d)
  BY EveryMove DEF Moves, shared, thisCPU
<1>2. \A d \in CPU : d # c => pc'[d] = pc[d]
  BY <1>0, EveryMove DEF Moves, TypeOK
<1>3. \/ currentProcess' = currentProcess
      \/ /\ pc[c] \in {"main", "scan"}
         /\ \E p : currentProcess' = [currentProcess EXCEPT ![thisCPU(c)] = p]
  BY DEF Steps, Run, Create, AllocateProcess, AllocateProcessUnlock,
     AllocateKernelStack, LoadProgram, Publish, PublishUnlock,
     OtherProcessorMain, SharedMain, ScheduleLock, ScanTable, Dispatch,
     ProcessEntryPoint, Syscall, Fault, freeProcess, EnterScheduler, Goto
<1>4. ASSUME NEW d \in CPU, d # c, pc[d] \in Executing PROVE Cur(d)' = Cur(d)
  <2>1. /\ thisCPU(d) \in DOMAIN CPUOrder
        /\ pc[c] \in {"main", "scan"} => thisCPU(d) # thisCPU(c)
    BY <1>4, BootFinds DEF Finds, Executing, InUser
  <2>2. currentProcess'[thisCPU(d)] = currentProcess[thisCPU(d)]
    BY <1>0, <1>3, <2>1 DEF TypeOK
  <2> QED
    BY <1>1, <1>4, <2>2 DEF Cur
<1> QED
  BY <1>1, <1>2, <1>4

(* initializeProcessors resets an entry whose processor does not run yet. *)
LEMMA StartingKeeps ==
  ASSUME BootInv, BootInv', initializeProcessors,
         NEW d \in CPU, pc'[d] \in Executing
  PROVE  pc'[d] = pc[d] /\ Cur(d)' = Cur(d)
<1>0. TypeOK
  BY DEF BootInv
<1>1. PICK i \in DOMAIN CPUOrder : i = slot[BSP]
  BY DEF initializeProcessors, initializeProcessor, Goto, BootInv, TableFilled
<1>2. /\ pc[BSP] = "cpus" /\ pc'[BSP] \in {"cpus", "create"}
      /\ \A e \in CPU : e # BSP => pc'[e] = pc[e]
      /\ currentProcess' = [currentProcess EXCEPT ![i] = Null]
  BY <1>0, <1>1, OrderFacts DEF initializeProcessors, initializeProcessor,
     Goto, TypeOK
<1>3. d # BSP /\ pc'[d] = pc[d]
  BY <1>2 DEF Executing, InUser
<1>4. (\A c \in CPU : Finds(c))'
  BY BootFinds, PTL
<1>5. thisCPU(d)' = thisCPU(d) /\ thisCPU(d) \in DOMAIN CPUOrder
  BY <1>3, <1>4, BootFinds, OrderAssumption DEF Finds, Executing, InUser
<1>6. thisCPU(d) # i
  <2>1. Filled(thisCPU(d))
    BY <1>3, RunningFilled DEF Executing, InUser
  <2>2. thisCPU(d) < i
    BY <1>1, <1>2, <2>1 DEF Filled
  <2>3. i \in Nat
    BY OrderFacts
  <2> QED
    BY <2>2, <2>3
<1> QED
  BY <1>0, <1>2, <1>3, <1>5, <1>6 DEF Cur, TypeOK

(* There are no processes in the beginning. *)
LEMMA ProcessInit == Init => ProcessInv
  BY OrderFacts DEF Init, ProcessInv, Creating, HasProcess, SingleRunner,
     Executes, PublishedComplete, InUser

(* A step that changes no slot and starts no execution. *)
LEMMA ProcessKept ==
  ASSUME BootInv, ProcessInv, NEW c \in CPU, Steps(c),
         UNCHANGED <<state, parts>>,
         pc'[c] \in Executing => pc[c] \in Executing /\ Cur(c)' = Cur(c),
         Creating'
  PROVE  ProcessInv'
<1>1. \A d \in CPU : pc'[d] \in Executing =>
        pc[d] \in Executing /\ Cur(d)' = Cur(d)
  BY OthersKept
<1> QED
  BY <1>1 DEF ProcessInv, HasProcess, SingleRunner, Executes, Executing,
     PublishedComplete, Cur

(* One slot changes, which no processor executes before or after the step. *)
LEMMA SlotKept ==
  ASSUME BootInv, ProcessInv, NEW c \in CPU, Steps(c), NEW s \in Slots,
         \A d \in CPU : ~Executes(d, s) \/ d = c,
         \A r \in Slots : r # s => state'[r] = state[r] /\ parts'[r] = parts[r],
         pc'[c] \notin Executing,
         state'[s] \in {"Runnable", "Running"} =>
           Part \ {"mapping"} \subseteq parts'[s],
         Creating'
  PROVE  ProcessInv'
<1>1. \A d \in CPU : pc'[d] \in Executing =>
        d # c /\ pc[d] \in Executing /\ Cur(d)' = Cur(d)
  BY OthersKept
<1>2. \A d \in CPU, r \in Slots :
        Executes(d, r)' => Executes(d, r) /\ d # c /\ r # s
  BY <1>1 DEF Executes, Executing, Cur
<1>3. HasProcess'
  BY <1>1 DEF ProcessInv, HasProcess, Executing, Cur
<1>4. SingleRunner'
  BY <1>2 DEF ProcessInv, SingleRunner
<1>5. PublishedComplete'
  BY DEF ProcessInv, PublishedComplete
<1> QED
  BY <1>3, <1>4, <1>5 DEF ProcessInv

(* The invariant of the processes is inductive: a slot changes only under  *)
(* the processor that creates or executes its process.                     *)
LEMMA ProcessNext ==
  BootInv /\ LockInv /\ ProcessInv /\ [Next]_vars => ProcessInv'
<1> SUFFICES ASSUME BootInv, LockInv, ProcessInv, [Next]_vars
             PROVE  ProcessInv'
  OBVIOUS
<1>0. TypeOK /\ Roles
  BY DEF BootInv
<1>1. CASE UNCHANGED vars
  <2>1. \A d \in CPU : thisCPU(d)' = thisCPU(d)
    BY <1>1 DEF vars, thisCPU
  <2> QED
    BY <1>1, <2>1 DEF vars, ProcessInv, Creating, HasProcess, SingleRunner,
       Executes, PublishedComplete
<1>2. CASE initializeProcessors
  <2>1. \A d \in CPU : pc'[d] \in Executing => pc'[d] = pc[d] /\ Cur(d)' = Cur(d)
    BY <1>2, BootNext, StartingKeeps
  <2>2. pc'[BSP] \in {"cpus", "create"} /\ UNCHANGED <<state, parts>>
    BY <1>0, <1>2, OrderFacts DEF initializeProcessors, initializeProcessor,
       Goto, TypeOK
  <2>3. Creating'
    BY <2>2 DEF Creating
  <2> QED
    BY <2>1, <2>2, <2>3 DEF ProcessInv, HasProcess, SingleRunner, Executes,
       Executing, PublishedComplete, Cur
<1>3. ASSUME NEW c \in CPU, Steps(c) PROVE ProcessInv'
  <2> USE DEF Goto
  <2>1. \A d \in CPU : d # c => pc'[d] = pc[d] /\ slot'[d] = slot[d]
    BY <1>0, <1>3, EveryMove DEF Moves, TypeOK
  <2>2. CASE c = BSP /\ AllocateProcess(c)
    <3> DEFINE unused == {s \in Slots : state[s] = "Unused"}
    <3>1. CASE pc'[c] = "crashed" /\ UNCHANGED <<parts, state>>
      BY <1>3, <2>2, <3>1, ProcessKept DEF Creating, Executing, InUser
    <3>2. CASE unused # {} /\ slot' = [slot EXCEPT ![c] = Min(unused)]
               /\ parts' = [parts EXCEPT ![Min(unused)] = {"pageTable"}]
               /\ state' = [state EXCEPT ![Min(unused)] = "Fresh"]
               /\ pc'[c] = "slot"
      <4>1. PICK s \in Slots : s = Min(unused) /\ state[s] = "Unused"
        BY <3>2, MinInSet DEF Slots
      <4>2. \A d \in CPU : ~Executes(d, s)
        BY <4>1 DEF ProcessInv, SingleRunner
      <4>3. state'[s] = "Fresh" /\ parts'[s] = {"pageTable"} /\ slot'[c] = s
        BY <1>0, <3>2, <4>1 DEF TypeOK
      <4>4. \A r \in Slots : r # s => state'[r] = state[r] /\ parts'[r] = parts[r]
        BY <1>0, <3>2, <4>1 DEF TypeOK
      <4>5. Creating'
        BY <2>2, <3>2, <4>3 DEF Creating
      <4> QED
        BY <1>3, <3>2, <4>2, <4>3, <4>4, <4>5, SlotKept DEF Executing, InUser
    <3> QED
      BY <1>0, <2>2, <3>1, <3>2 DEF AllocateProcess, TypeOK
  <2>3. CASE c = BSP /\ (AllocateProcessUnlock(c) \/ PublishUnlock(c))
    <3>1. /\ UNCHANGED <<state, parts, slot>>
          /\ (pc[c] = "slot" /\ pc'[c] = "stack") \/ pc'[c] = "main"
      BY <1>0, <2>3 DEF AllocateProcessUnlock, PublishUnlock, TypeOK
    <3>2. Creating'
      BY <2>3, <3>1 DEF ProcessInv, Creating
    <3> QED
      BY <1>3, <3>1, <3>2, ProcessKept DEF Executing, InUser
  <2>4. CASE c = BSP /\ (AllocateKernelStack(c) \/ LoadProgram(c) \/ Publish(c))
    <3>1. PICK s \in Slots : s = slot[c] /\ state[s] = "Fresh"
      BY <1>0, <2>4 DEF AllocateKernelStack, LoadProgram, Publish, ProcessInv,
         Creating
    <3>2. \A d \in CPU : ~Executes(d, s)
      BY <3>1 DEF ProcessInv, SingleRunner
    <3>3. /\ \A r \in Slots : r # s => state'[r] = state[r] /\ parts'[r] = parts[r]
          /\ pc'[c] \in {"load", "publish", "published", "crashed"}
          /\ slot' = slot
      BY <1>0, <2>4, <3>1 DEF AllocateKernelStack, LoadProgram, Publish, TypeOK
    <3>4. CASE AllocateKernelStack(c)
      <4>1. /\ pc[c] = "stack" /\ pc'[c] # "publish"
            /\ state'[s] \in {"Fresh", "Unused"}
            /\ pc'[c] = "load" => /\ state'[s] = "Fresh"
                                  /\ parts'[s] = parts[s] \union {"kernelStack"}
        BY <1>0, <3>1, <3>4 DEF AllocateKernelStack, TypeOK
      <4>2. Creating'
        BY <2>4, <3>1, <3>3, <4>1 DEF ProcessInv, Creating
      <4> QED
        BY <1>3, <3>2, <3>3, <4>1, <4>2, SlotKept DEF Executing, InUser
    <3>5. CASE LoadProgram(c)
      <4>1. /\ pc[c] = "load" /\ pc'[c] # "load"
            /\ state'[s] = "Fresh"
            /\ pc'[c] = "publish" =>
                 parts[s] \union {"program", "trapFrame"} \subseteq parts'[s]
        BY <1>0, <3>1, <3>5 DEF LoadProgram, TypeOK
      <4>2. Creating'
        BY <2>4, <3>1, <3>3, <4>1 DEF ProcessInv, Creating
      <4> QED
        BY <1>3, <3>2, <3>3, <4>1, <4>2, SlotKept DEF Executing, InUser
    <3>6. CASE Publish(c)
      <4>1. pc[c] = "publish" /\ pc'[c] = "published" /\ parts'[s] = parts[s]
        BY <1>0, <3>6 DEF Publish, TypeOK
      <4>2. Creating'
        BY <2>4, <4>1 DEF Creating
      <4>3. Part \ {"mapping"} \subseteq parts'[s]
        BY <2>4, <3>1, <4>1 DEF ProcessInv, Creating, Part
      <4> QED
        BY <1>3, <3>2, <3>3, <4>1, <4>2, <4>3, SlotKept DEF Executing, InUser
    <3> QED
      BY <2>4, <3>4, <3>5, <3>6
  <2>5. ASSUME pc'[c] \notin {"slot", "stack", "load", "publish"},
               \A s \in Slots : state[s] = "Fresh" =>
                 state'[s] = "Fresh" /\ parts'[s] = parts[s]
        PROVE  Creating'
    BY <2>1, <2>5, OrderFacts DEF ProcessInv, Creating
  <2>6. CASE OtherProcessorMain(c) \/ SharedMain(c) \/ ScheduleLock(c)
             \/ EnterScheduler(c)
    <3>1. pc'[c] \in {"main", "halted", "loop", "scan"}
          /\ UNCHANGED <<state, parts>>
      BY <1>0, <2>6 DEF OtherProcessorMain, SharedMain, ScheduleLock,
         EnterScheduler, TypeOK
    <3>2. Creating'
      BY <2>5, <3>1
    <3> QED
      BY <1>3, <3>1, <3>2, ProcessKept DEF Executing, InUser
  <2>7. CASE ScanTable(c)
    <3>1. pc'[c] \in {"loop", "scan"} /\ UNCHANGED <<state, parts>>
      BY <1>0, <2>7 DEF ScanTable, TypeOK
    <3>2. Creating'
      BY <2>5, <3>1
    <3> QED
      BY <1>3, <3>1, <3>2, ProcessKept DEF Executing, InUser
  <2>8. CASE ProcessEntryPoint(c) \/ Syscall(c) \/ Fault(c)
    <3>1. /\ pc[c] \in Executing /\ pc'[c] \in Executing \union {"halted"}
          /\ UNCHANGED <<state, parts, currentProcess>>
      BY <1>0, <2>8 DEF ProcessEntryPoint, Syscall, Fault, TypeOK, Executing,
         InUser
    <3>2. Creating'
      BY <2>5, <3>1 DEF Executing, InUser
    <3>3. Cur(c)' = Cur(c)
      BY <1>3, <3>1, OthersKept DEF Cur
    <3> QED
      BY <1>3, <3>1, <3>2, <3>3, ProcessKept DEF Executing, InUser
  <2>9. CASE freeProcess(c)
    <3>1. PICK s \in Slots : s = Cur(c) /\ Executes(c, s)
      BY <2>9 DEF freeProcess, ProcessInv, HasProcess, Executes, Cur
    <3>2. state[s] = "Running" /\ \A d \in CPU : Executes(d, s) => d = c
      BY <3>1 DEF ProcessInv, SingleRunner
    <3>3. /\ pc'[c] = "freed" /\ state'[s] = "Unused"
          /\ \A r \in Slots : r # s => state'[r] = state[r] /\ parts'[r] = parts[r]
      BY <1>0, <2>9, <3>1 DEF freeProcess, TypeOK, Cur
    <3>4. Creating'
      BY <2>5, <3>2, <3>3
    <3> QED
      BY <1>3, <3>2, <3>3, <3>4, SlotKept DEF Executing, InUser
  <2>10. CASE Dispatch(c)
    <3>1. PICK s \in Slots :
            /\ s = slot[c] /\ state[s] = "Runnable"
            /\ state' = [state EXCEPT ![s] = "Running"]
            /\ currentProcess' = [currentProcess EXCEPT ![thisCPU(c)] = s]
            /\ parts' = parts /\ pc[c] = "scan" /\ pc'[c] = "entry"
      BY <1>0, <2>10 DEF Dispatch, TypeOK
    <3>2. \A d \in CPU : ~Executes(d, s)
      BY <3>1 DEF ProcessInv, SingleRunner
    <3>3. Cur(c)' = s
      <4>1. thisCPU(c)' = thisCPU(c) /\ thisCPU(c) \in DOMAIN CPUOrder
        BY <1>3, <3>1, OthersKept, BootFinds DEF Finds
      <4> QED
        BY <1>0, <3>1, <4>1 DEF Cur, TypeOK
    <3>4. \A d \in CPU : d # c /\ pc'[d] \in Executing =>
            pc[d] \in Executing /\ Cur(d)' = Cur(d)
      BY <1>3, OthersKept
    <3>5. state'[s] = "Running" /\ \A r \in Slots : r # s => state'[r] = state[r]
      BY <1>0, <3>1 DEF TypeOK
    <3>6. \A d \in CPU, r \in Slots :
            Executes(d, r)' <=> (d = c /\ r = s) \/ (d # c /\ Executes(d, r))
      BY <2>1, <3>1, <3>3, <3>4 DEF Executes, Executing, Cur
    <3>7. HasProcess'
      BY <3>1, <3>3, <3>4 DEF ProcessInv, HasProcess, Executing, Cur
    <3>8. SingleRunner'
      BY <3>2, <3>5, <3>6 DEF ProcessInv, SingleRunner
    <3>9. PublishedComplete'
      BY <3>1, <3>5 DEF ProcessInv, PublishedComplete
    <3>10. Creating'
      BY <2>5, <3>1, <3>5
    <3> QED
      BY <3>7, <3>8, <3>9, <3>10 DEF ProcessInv
  <2> QED
    BY <1>3, <2>2, <2>3, <2>4, <2>6, <2>7, <2>8, <2>9, <2>10
       DEF Steps, Run, Create
<1> QED
  BY <1>1, <1>2, <1>3, OrderFacts DEF Next, Steps

-----------------------------------------------------------------------------
(* The three invariants hold in every reachable state. *)
THEOREM Invariance == Spec => [](BootInv /\ LockInv /\ ProcessInv)
<1>1. Init => BootInv /\ LockInv /\ ProcessInv
  BY BootInit, LockInit, ProcessInit
<1>2. BootInv /\ LockInv /\ ProcessInv /\ [Next]_vars
        => (BootInv /\ LockInv /\ ProcessInv)'
  BY BootNext, LockOwnedNext, ChosenOnceNext, ProcessNext DEF LockInv
<1> QED
  BY <1>1, <1>2, PTL DEF Spec

(* Every variable keeps its type, for any list of processors and any       *)
(* number of slots.                                                        *)
THEOREM TypeCorrect == Spec => []TypeOK
<1>1. BootInv => TypeOK
  BY DEF BootInv
<1> QED
  BY <1>1, Invariance, PTL

(* thisCPU returns the caller's own CPUState on every processor that runs, *)
(* whatever IDs the local APICs have and wherever the boot processor       *)
(* stands in Limine's list.                                                *)
THEOREM FindsItself == Spec => []ThisCPUFound
<1>1. BootInv => ThisCPUFound
  BY BootFinds, OrderFacts DEF Finds, ThisCPUFound, Null
<1> QED
  BY <1>1, Invariance, PTL

(* schedule gives a process to one processor, on any number of them. *)
THEOREM OneRunner == Spec => []SingleRunner
<1>1. ProcessInv => SingleRunner
  BY DEF ProcessInv
<1> QED
  BY <1>1, Invariance, PTL

(* No processor sees a half-built process in the table, whatever           *)
(* allocations fail while it is built.                                     *)
THEOREM CompleteWhenSeen == Spec => []PublishedComplete
<1>1. ProcessInv => PublishedComplete
  BY DEF ProcessInv
<1> QED
  BY <1>1, Invariance, PTL

(* ProcessTableSpinlock is released by its owner only, although schedule   *)
(* and ProcessEntryPoint pass it from one stack to another.                *)
THEOREM OwnerReleases == Spec => OnlyOwnerReleases
<1>1. ASSUME BootInv, LockInv, [Next]_vars, tableHeld = 1, tableHeld' = 0
      PROVE  pc'[owner] # pc[owner]
  <2>1. tableHeld' # tableHeld
    BY <1>1
  <2>2. PICK c \in CPU : Steps(c)
    BY <1>1, <2>1, OrderFacts DEF Next, Steps, vars, initializeProcessors,
       initializeProcessor
  <2> QED
    BY <1>1, <2>1, <2>2, LockSteps DEF acquire
<1>2. BootInv /\ LockInv /\ [Next]_vars =>
        [tableHeld = 1 /\ tableHeld' = 0 => pc'[owner] # pc[owner]]_vars
  BY <1>1
<1> QED
  BY <1>2, Invariance, PTL DEF OnlyOwnerReleases, Spec
=============================================================================

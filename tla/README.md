# TLA+ models of the Xesual kernel

Xesual is a small x86-64 kernel in C++ and assembly, started by the Limine boot
loader on all processors of a machine. It has no tests and no documentation
beyond the comments of its source, so the statements the models are held against
are those comments, the log messages, and what the interfaces promise. This
directory holds TLA+ modules that model the kernel's own logic, the TLC
configurations that check them on small instances, and proofs that TLAPS checks.

    tlc -workers 2 -config Spinlock.cfg MCSpinlock     # one run
    tlapm SpinlockProofs.tla                           # the proofs of one module

`PROJECT.json` lists components, runs, mutants, findings, hazards, theorems, and
for every definition the source lines it models.

## The system

| part | state | operations | interacts with |
|---|---|---|---|
| `Spinlock`, `pushCLI`/`popCLI` | lock word; per processor `cliCount`, `wereInterruptsEnabled` and the interrupt flag | `acquire`, `release`, `pushCLI`, `popCLI` | used by every other part, and by the trap handler through `logfn` |
| Physical memory manager | list of free chunks whose headers lie in the free pages, `usingLock`, a lock | `freeRange`, `freePages`, `allocatePages`, `thereIsNowMoreThanOneProcessor` | called by paging, boot and processes |
| Virtual memory manager | page tables in physical pages, `KernelPageTable` | `map`, `shallowCopy`, `allocateRootPageTable` | takes pages from the physical manager |
| Boot (`KernelMain`) | the `CPUs` table, the boot loader's responses | memory map, own page table, starting processors, `SharedMain` | calls everything |
| Processes and scheduler | `ProcessTable` with a lock, `currentProcess` of each processor | `allocateProcess`, `createFirstProcess`, `schedule`, `ProcessEntryPoint`, `freeProcess` | one lock held across a switch of stacks |
| Traps | the interrupt descriptor table, the interrupt stack, `userStack` | stubs, `TrapCommon`, `TrapRet`, `SyscallHandler`, `TrapHandler`, `KernelSyscallHandler` | ends processes, acknowledges timers, logs |
| Segment descriptors (`GDT.h`), STAR | one table per processor, segment registers | `init`, `install`, `setStarRegister` | decide what every trap and return loads |
| PCI scan | the configuration address and value ports | `scan`, `readField` | run by every processor in `SharedMain` |
| Bochs display | a frame buffer and registers behind PCI base addresses | `read`, `framebufferAddress` | painted by the scan's callback |
| Local APIC, SMP registers | timer, vectors pending and in service | `initLAPIC`, `acknowledgeInterrupt` | interrupts processors |
| `Alloc` (byte allocator) | a free list like the page manager's | `allocate`, `free` | nobody calls it |
| `printf.c` | none between calls; the format's position and the output index in one | `_vsnprintf`, `_ntoa_*`, `_ftoa`, `_etoa` | `logfn` wraps it in the log lock |

What is hard about it: all processors run the same code at once and share four
locks and two lists; interrupts run on top of the code they interrupt and share
its processor's `cliCount`; the table lock is taken on one stack and released on
another; the physical manager only sometimes uses its lock; pages run out in the
middle of multi-step operations; tables are filled in while others read them;
system calls run with interrupts on and hardware tables are written in one place
and read by the processor much later.

What makes each part correct:

* locks: exclusion, exact nesting of interrupt masking, the caller's interrupt
  flag restored, a lock that is taken is given up;
* physical memory: a page has one owner, the list is exactly the free memory, a
  request is refused only when it cannot be met, walks through the list end;
* virtual memory: all memory and the kernel are mapped in whatever table is in
  use, however little memory there is for tables, the kernel half is shared and the user half is not, `map` changes one page;
* processors and processes: a processor finds its own state, a process runs once,
  only when complete, gets to run and gets to exit; a lock is released by its owner;
* traps and segments: whatever was interrupted goes on exactly as it was, in its own
  privilege; a process's fault ends the process and nothing else; the kernel pushes
  on its own stack; the timer keeps coming;
* PCI: every reachable function is reported once, about itself, the scan ends, and a
  display is painted where its memory is;
* formatting: the text of the C standard, inside buffers and formats, always
  terminated.

## The modules

**Spinlock** models one lock, the log lock, because that one is taken by tasks
and by the trap handler. Every processor has two levels, `task` and `trap`; all
gates are interrupt gates, so there is no third. Each call is cut where an
interrupt or another processor can get in between: `eflags()` of `pushCLI`
(`AcquireCall`, `ReleaseCall`), `cli` with the counter (`AcquireCLI`,
`ReleaseCLI`), the test-and-set, the store, and `popCLI`. A failing test-and-set
changes nothing and is not a step. The code between `cli` and `sti` of one
processor touches only that processor's `CPUState` and is one step.
`UnhandledInterrupts` says whether vectors that `TrapHandler` only logs may arrive.

**PhysicalMemory** models the list word by word: `next`, `prev` and `num` are the
header words of every page, also of pages that are not headers, and `Scribble`
lets callers overwrite the words of the pages they hold. A call is cut at its
accesses to `usingLock`, at the lock, and per list element. `Release` clears
`usingLock` together with the lock word: the `movl` of `Spinlock::release` stores
four bytes into a `uint16_t`, and `usingLock` is the next member of the struct.
`AllocateReturn` reads the chunk's length after the release, as the code does.
`HandOver` is the boot loop over the memory map. `FreePolicy` restricts what
callers give back: nothing, ranges without free neighbours behind the list head,
or anything. The history variables `claims` and `lent` count owners.

**PageAllocator** is the abstract promise: a client asks for a number of pages, gets
a range of so many free pages or is refused, the latter only if no run of free pages
is as long as what this client asked for; ranges come back. `PhysicalMemory`
instantiates it with `free` as the pages nobody claims and `wanted` as the size of
the call of `allocatePages` that each processor is in (`Wanted`).

**VirtualMemory** models page tables as contents of frames, the number of levels
and of entries per table being constants. `map` is one step per level, because it
may run out of memory at each. An entry's frame is a field of 28 bits, which cuts
frames from `FieldLimit` (1 TiB) on (`Field`). `pe2v` is right only below `IntLimit`
(2 GiB): the field is promoted to `int` before the shift. `map` looks at none of this.
Without memory it goes on through the entry that is not present, to page 0 if the entry
is empty, stores there and returns, and boot carries on; so does the model. The history
variable `lost` tells that `map` went on at a page that is not a table it made, and
after that the kernel may also fault at any step (`LostFault`). A store to the null
address or below the direct mapping ends in `fault`. Pages the kernel gets may hold
anything of `LeftBehind`. Allocation takes what `allocatePages` takes, the last
page of the first chunk, so the module is deterministic up to the initial memory
and the allocations of others. `Translate` is the processor's walk (external) and
has its own index computation, so that `map`'s is checked against it.

**ProcessManagement** models boot from `initializeProcessors` on, the process
table, and the scheduler. A lock is one step here; what that abstracts is what
Spinlock checks. Allocation either succeeds or returns null (`MemoryMayRunOut`),
and every place that does not test the result goes to `crashed`. `Advance` is the
loop increment `p = p++`, which in C++20, the language version of the build,
assigns the old value back. After an exit `EnterScheduler` puts the processor back
in the `for` loop without the lock, as `Pause` does. `owner` is a history variable.
The first process makes two system calls, which only log, and then runs into
memory that faults.

**Traps** models one processor between a process and the kernel, word by word on
its stacks: what the processor pushes, what the stubs and `TrapCommon` push, the
layout `TrapHandler` reads, and the way back. `mem` holds the words stored so far;
`resume` remembers what each interrupt or call has to give back. Code with
interrupts off is one step; `SyscallHandler`, which runs with interrupts on because
nobody sets the mask of `syscall`, is one step per place where an interrupt makes a
difference. So is `KernelSyscallHandler`: the C code goes down to any depth of at most
`CallWords` words, up again and down again, and an interrupt at any of these depths is
pushed below it. `StackTop` is what `SharedMain` hands out as the top of the stack, the
lowest address of its pages. The local APIC is its pending and in-service vectors with their
priorities: vector 51, the error vector, has no gate, becomes a segment-not-present
exception and is never acknowledged. If the processor has to push where there is no
memory, the machine resets.

**Segments** models the same boundary from the side of the descriptors: the table is
kept as the bytes the constructors store, and an external part reads selectors, types,
privileges and the TSS base from these bytes as the processor does, at every load
that `install`, `syscall`, `sysretq`, interrupts and `iretq` make.

**PCI** models the scan with one step per port access, since the two ports are shared
by all processors, and the recursion over bridges as an explicit stack. `Reads` lists
the registers each part of the code reads, in order; a register is four bytes, of which
a read takes the lane and the size the code asks for. The configuration space and the
display's registers are external; `BaseOf` is the memory that a base address register
stands for, without its flag bits, whereas the code takes the register as it is. A scan
that goes round in a circle of bridges is stopped at `MaxDepth` calls. What a scan should find is stated without any order,
as the least set of buses closed under bridges.

**Printf** has the conversions as operators from an argument to its text and
`_vsnprintf` as a machine that walks over the format. Characters are strings of length
one. Doubles are fractions that are rounded to `Mantissa` bits where the code's
arithmetic rounds. The decimal exponent of `%e` and `%g` is computed as the code does:
the exponent field of the double (`exp2`), the tangent at 1.5 in place of the logarithm,
the truncation towards zero and the correction against the power of ten. The three
decimal constants are cut to five places, and both results are allowed where that could
make a difference (`Logs`); the same for a value as close to the power of ten as the
error of its continued fraction (`NearPower`, `PowerError`). So 0.0999 gets the exponent
-1 and prints as `0.999000e-01`, as it does in the code. The value is then divided by
the exact power (`Scaled`). `sprintf_`, `printf_` and the others that know no size have
the `maxlen` of the code, the largest number, so that `sprintf_` stores behind the end
of a buffer that is too small. `_atoi` wraps at the width of `int`. Widths of types and sizes of buffers are constants. What an
integer should look like is written down separately from the C standard.

**MC modules** give the constants values. Definitions commented *Faulty* are
variants of the definition after them, as a plausible bug would have it; they are
used only to show that the properties notice. For the same reason small parts of an
action (a condition, a successor, a stored value) are definitions of their own.

## Runs

Passing runs:

* `spinlock` (2 processors, any interrupt, fairness): types, mutual exclusion, the
  exactness of `cliCount`, the caller's flag is restored, and a lock is
  released. The last has one exception, `WaitsForItself`: `acquire` turns interrupts
  on again while the lock is held and `TrapHandler` logs interrupts it does not know,
  so that a handler can wait for the log lock its own processor's task holds, although
  `printf.c:26-27` calls the implementation reentrant. Deadlock is not checked because
  that really stops the system.
* `memory_boot` (1 processor, 7 pages, two usable stretches of 3 and 1 with a
  reserved entry and a hole, requests of 1 and 2 pages): the list is well formed
  at every step, no page has two owners, the manager implements `PageAllocator`, and
  the walks through the list end (`WalkEnds`). With one processor nobody waits for the
  lock; that calls return on several is not claimed, see `memory_smp`. This is the use the kernel makes of it before it starts other
  processors. Frees are limited to ranges without free neighbours: with
  `FreePolicy = "any"` merging leaves overlapping chunks in the list, and a page is
  lent twice on one processor.
* `process` (3 processors with the boot processor in the middle of the list and APIC
  ID 0 at its end, 2 slots, any allocation may fail, fairness): processors find their
  own `CPUState`, one runner per process, no half-built process is visible, the table
  lock is released by its owner; a process made Runnable reaches userspace unless all
  processors have halted, and one that faults gets through `freeProcess` and back to
  the scheduler, unless another processor's scan keeps the lock (see `process_boot`).
  A halted or crashed processor may leave nothing to do, so deadlock is not checked.
* `paging_boot` (3 levels of 4 entries, 14 frames of which the last is beyond the
  field, six initial memories from plenty to one page, three contents of fresh pages):
  the kernel is mapped in every table in use, the kernel half is shared, the user half
  private, and a step of `map` changes one translation. All four are about a `map` that
  got every table it asked for (`~lost`) and about frames the field can name. The model ends when the process has its table
  or the kernel has faulted.
* `traps_run` (interrupt stack at word 300, user stack up to word 110, exceptions 6,
  13 and 14, C code up to two words deep, fairness): every interrupt, exception and
  system call gives back what it interrupted, also an interrupt inside `SyscallHandler`
  or its C code; from the switch of stacks on the kernel stays within `Depth` words of
  the stack pointer it was given, which is one system call with its C frames and one
  interrupt; faults end the process; the timer keeps coming unless an APIC error has
  stopped it. `OnKernelStack` has one exception: an interrupt before `SyscallHandler`
  has switched stacks, or after it has switched back, is pushed at the process's stack
  pointer, which is 0 for the first process. `OnKernelStack` is relative to `StackTop`
  and says nothing of where that is (see below). Deadlock is not checked: a
  process that exited is not replaced here.
* `segments_cpu` (three addresses of a TSS, nine vectors, two nested interrupts): every
  selector passes the processor's checks, privilege follows the code that runs, faults
  are blamed on the right side, the TSS is found, user code can call one gate only. A
  panic ends the model.
* `pci_scan` (3 buses, 2 slots, 2 functions, 672 topologies, three types): the scan
  finds exactly what is reachable, once if no bus has two parents, paints a display
  whole, and ends in `done`. `ScanEnds` is about machines whose bridges lead in no
  circle (`Loopless`); the run has others too, with a bridge back to bus 0, and there
  the scan goes on until `MaxDepth`. `PictureWhole` is about displays whose base address
  registers carry no flag bits (`Flagless`); the run has the other kind too. Deadlock is
  not checked: scans end.
* `printf` (some 10,000 calls): the conversions against their references, and the walk
  over formats and buffers. A call ends in `done`, or in `astray` when the format ends
  in the middle of a directive and the code goes on behind it. `CutAndTerminated` covers
  every buffer size from zero on, and `sprintf_` for a text that fits. The integer
  reference is met except where the number does not fit the buffer, a precision comes
  with `-`, or the prefix of `#` is put over digits (`Truncated`, `PrecisionIgnored`,
  `PrefixOverDigits`); the floating point reference except for a fraction exactly half
  below a whole number, which is not carried (`HalfBelowWhole`). The reference
  takes the precision as parsed, so that what a negative `*` precision should mean is
  not checked. `CallReturns` says that a call whose format has no unfinished directive
  comes to its end; `Unfinished` also counts a format that ends in `%%`.

Runs that find a comment or message of the code not to hold:

* `memory_smp`: two processors get the same page, because the length is read after
  the release, and because `usingLock` is cleared by the first release. (With three
  processors, one that saw `usingLock` set before it was cleared spins for ever.)
* `process_boot`: a processor that reaches `schedule` before the first process is
  Runnable keeps the table lock for ever, and the boot processor waits for it in
  `createFirstProcess`.
* `paging_high`: when tables come from memory at 2 GiB or above, `map` follows a
  wrong address.
* `pci_race`: with two processors scanning, one reads the answer to the other's
  question and takes another device for the display.

Three more things that go wrong are in the models as the code has them, and the
properties are stated so that they hold beside them and would hold of corrected code:

* When memory runs out while tables are built, `map` (`VirtualMemoryManagement.cpp:73`)
  fills page 0 with entries meant for a table it did not get, and boot loads `cr3` with a
  table that lacks part of memory, although `KernelMain.cpp:125` says "directly map all of
  physical memory". In VirtualMemory the state is `lost`.
* The lowest address of the interrupt stack's pages is taken for its top
  (`KernelMain.cpp:199`), so that every frame lies below these pages. In Traps `StackTop`
  equals `InterruptStack`.
* The first base address register of a display is used with its flag bits
  (`Graphics.cpp:22`): a prefetchable range is painted from its ninth byte on. In PCI
  `framebufferAddress` is the register and not `BaseOf` of it.

Bounds. Two processors are enough for every pairwise race on a lock; three make
a third party change the state between two steps of a pair. Seven pages allow the
list to have no, one and several chunks, exact fits, a used-up chunk in front, in
the middle and at the end, and refusals with memory left. Two slots distinguish
the first slot from the others. Three levels have a top, a middle and a bottom; 14
frames need several bottom tables under one middle one, and leave one entry of the
kernel half to preallocation. `FieldLimit` = 13 leaves the last frame
beyond the field, `LeftBehind` has empty pages, pages whose entries all look present and
pages where some do. `MaxRequest`, `NumPages`, `NumSlots` and `NumFrames`
are the bounds of these models. In Traps an interrupt can come on top of a system call
and none on top of an interrupt, since gates turn interrupts off; `FrameWords`
keeps the stacks far enough apart that their words are told apart. `CallWords` = 2 gives
the C code two depths, so that it can go up and down and is interrupted with an even and
an odd stack pointer. `MaxFrames` in Segments allows a fault in a handler. Three buses are a root, a bus behind a bridge and one
behind that; two slots and two functions have a first and a last; `MaxDepth` = 4 is more
than any scan without a circle needs, which is why `SizesAssumption` asks for more than
`Buses`. In Printf types have 3 to 8 bits and buffers 6 to 8 characters, so that values reach the limits of both;
binary exponents go from -9 to 9 (`MaxExp2`; 1023 in the code), so that the decimal
exponent is negative, zero and positive, and the numbers without a leading one are among
the inputs; an exponent of 3 (`LongExponent`; 100 in the code) has the longer format;
`PowerError` = 1000 is coarse, which only adds outcomes. The 9 bits of `Mantissa` are
enough for every rounding case: below, above and exactly one half, to even and to odd,
and a carry through all digits.

Fairness. A processor executes instructions as long as it is on, which justifies
weak fairness of a processor inside a call. In Spinlock the task's steps get
strong fairness because the periodic timer (10,000,000 ticks) disables them again
and again but leaves time in between; the test-and-set gets only weak fairness,
since nothing in the code makes the spin loop fair. In ProcessManagement lock acquisition
is part of the steps and gets strong fairness: the run that finds a violation
finds it even so. In Traps the handler's steps are weakly fair, the timer ticks for
ever because it is periodic, a system call's steps are strongly fair because the
timer's period leaves time in between, and an interrupt that can be delivered again and
again is, since it goes before the next instruction. In PCI each processor
keeps running: weak fairness. A call of `_vsnprintf` runs without waiting for anything:
weak fairness of its steps, where that of a conversion is stated as leaving the specifier
(`Converted`), since TLC cannot tell quickly whether a long conversion is enabled. Segments
states none.

## Proofs

Every theorem is of the form `Spec => []P` or `Spec => P` and holds for every value of
the constants that meets the assumptions of its module. A module `XProofs` extends `X`;
its definitions before the first lemma are the inductive invariant, and its first
theorem says that the invariant holds. All invariants were checked with TLC on the
runs' instances before they were proved.

| module | theorems (property) | for any |
|---|---|---|
| SpinlockProofs | `TypeCorrect` (`TypeOK`), `Accounting` (`MaskAccounting`), `Exclusion` (`MutualExclusion`), `FlagRestored` (`CallerFlagRestored`) | processors, with or without unhandled interrupts |
| PhysicalMemoryProofs | `TypeCorrect` (`TypeOK`), `LentOnce` (`NoDoubleAllocation`), `ListRight` (`ListWellFormed`), `Implements` (`ImplementsPageAllocator`) | memory map, request sizes, contents of lent pages; one processor |
| VirtualMemoryProofs | `HalfShared` (`KernelHalfShared`), `MapsOne` (`MapExact`), `KernelStays` (`KernelMapped`), `UserPrivate` (`UserHalfPrivate`) | number of levels and entries, memory, contents of fresh pages, layout, `IntLimit`, `FieldLimit` |
| ProcessManagementProofs | `TypeCorrect` (`TypeOK`), `FindsItself` (`ThisCPUFound`), `OneRunner` (`SingleRunner`), `CompleteWhenSeen` (`PublishedComplete`), `OwnerReleases` (`OnlyOwnerReleases`) | list of processors, APIC IDs, slots, with or without memory |
| TrapsProofs | `ResumesExactly` (`ResumedExactly`), `FaultsEnd` (`FaultEndsProcess`), `KeepsToStack` (`OnKernelStack`) | places of the stacks, exceptions, depth of the C code |
| SegmentsProofs | `NoBadSelector` (`SelectorsLoad`), `RingsRight` (`PrivilegeMatches`), `BlamesRight` (`FaultBlamed`), `FindsTss` (`TssFound`), `GatesRight` (`GatesLead`) | address of the TSS, addresses of the stubs, vectors, nesting |
| PCIProofs | `ScanCompleteHolds` (`ScanComplete`), `ReportedOnceHolds` (`ReportedOnce`), `PictureWholeHolds` (`PictureWhole`) | machine and type searched for; one processor |
| PrintfProofs | `InsideFormatHolds` (`InsideFormat`), `CutAndTerminatedHolds` (`CutAndTerminated`), `IntegerAsInCHolds` (`IntegerAsInC`), `FieldFilledHolds` (`FieldFilled`) | format, arguments, buffers, widths of the types and of doubles |

**Spinlock.** `MaskInv` is the conjunction over processors of four facts: which
steps each level may be in (`LevelsOK`), that interrupts are off before
`SharedMain` (`BootMasked`), the value of `cliCount` (`MaskAccounted`), and what
the local variable `flags` is worth at each step (`FlagsKnown`). The last one is
what makes it inductive: between `eflags()` and `cli` an interrupt may run another
`pushCLI` and `popCLI`, and the flags read before are still right only because an
interrupt can only arrive with the flag set, and returns with it set; between
`pushCLI` and `popCLI` they are what `wereInterruptsEnabled` holds, because a
handler that interrupted never found the counter above zero. Every action touches
one processor, so the proof treats that processor and shows the others unchanged
(`UntouchedKeeps`). `ExclusionInv` adds that an owner implies a set lock word; it
needs `MaskInv` only for types. The one-line parts of actions (`Pushed`, `Outermost`,
`TurnsOn`, `WasFree`, `Released`) are expanded everywhere by one `USE`.

**PhysicalMemory.** The theorems have the hypothesis `OneProcessor`: the boot processor
is alone and callers free only ranges without free neighbours. Both halves are needed.
`memory_smp` shows a page lent twice on two processors, and with `FreePolicy = "any"`
one is lent twice on one. What is proved is the use the kernel makes of the manager
while it boots, for every memory map whose entries are in order and in which no two
usable entries touch. That is an assumption about the boot loader (`MapAssumption`): Limine
sorts its entries and joins neighbours of one type. Without it the loop over the map would
merge chunks, which goes wrong as above. `MemoryInv` says that the words of
the headers link all chunks in address order both ways (`Linked`), that the chunks tile
the free memory outside the call in progress without touching (`Tiled`), that every page has
at most one owner and lent ranges are disjoint (`ClaimsInv`, `LentInv`), that free memory
comes from the map entries already read (`BootInv`), that the chunks an allocation has
passed are too short (`AllocInv`), and where the search of a free is (`FreeInv`).
`Headers` are read out of memory, so a page that is lent must not look like one: callers
may write anything into it (`Scribble`), and it stays out because it is claimed. `Tiled`
makes merging impossible: a range without free neighbours never meets the condition of
`FreeLink`. For the refinement, a call of `allocatePages` is a request of its size, a step
that takes or gives pages is a step of `PageAllocator`, and the others change nothing it
sees; a refusal is right because a run of free pages as long as the request lies inside
one chunk, chunks not touching, and every chunk was passed and is shorter.

**VirtualMemory.** The theorems are about states that are not `lost`, like the properties,
and an entry's frame is the one it was given only below `FieldLimit`. There are three
invariants. `TableInv` is about the two roots: while
the kernel's table is built, tables have levels (`Shaped`) and `map` is called for pages
of the kernel half, so that only its first step writes to the root, and there; once there
is a process, `map` starts at its root, goes into the lower half, and from then on through
tables that are new and empty. That gives `HalfShared`. `TreeInv` is about all tables:
each has a level and serves the pages with certain upper digits (`Nested`), free frames
are no tables, and `map` is where the processor's walk would come to for the same page
(`WalkInv`). From it follows how each change of the tables affects every walk: a new
table below an entry that was not present moves no page (`PathGrows`), nor does a frame that
becomes a root (`PathAside`), and an entry at the lowest level is for exactly one page
(`PathLeaf`, `LeafPage`: two page numbers with equal digits are equal). That gives
`MapsOne`. `MappedInv` and `PrivateInv` then say how far the loops have come and what
the half of the processes holds. A walk is a recursive function over the levels. Facts
about it are proved by induction from the root downwards, from the least counterexample in
an explicit set (`Downwards`, `PathUnfolds`), since the induction rules of the library
take predicates as parameters. `PowerAssumption` states three facts about powers of
`Fanout` that hold for all naturals and that no prover knows. `LayoutAssumption` and
`HalvesAssumption` say of the layout what the linker script and Limine fix: the direct
mapping ends below the kernel, both are in the upper half, the program is in the lower.

**ProcessManagement.** `BootInv`: an entry of `CPUs` holds its processor's ID once it is
filled in and 0 before (`TableFilled`), and no processor but the boot processor runs
without its `goto_address` (`Roles`). A zeroed entry looks like APIC ID 0; the proof
shows that the processor with this ID does not search before its own entry is there.
`LockInv`: the lock word agrees with its owner, and a process is chosen once
(`ChosenOnce`). `ProcessInv`: what the slot under construction has (`Creating`), and that
whoever executes a process has one (`HasProcess`). The proof of `OnlyOwnerReleases` showed what
it rests on. After an exit the processor is back in the loop of `schedule` without the lock,
so the lock alone is not an invariant of that loop; the property holds only because one
process is ever created. A second Runnable process would be chosen without the lock, and
its `ProcessEntryPoint` would release a lock of somebody else's.

**Traps.** `RunInv` and `HandlerInv` give the place of every word: what was interrupted
(the top of `resume`) had its registers, flags, selector and stack pointer pushed at known
distances from where the processor started to push, 5 words, then 2 of the stub, then 15
registers. Below it is the process, or a system call of it, and nothing else: this
bounds the nesting and makes `OnKernelStack` true. While the C code of a system call
runs, its stack pointer is at most `CallWords` below the registers, whose place is in a
register that the code it calls keeps. A push writes only below the stack
pointer (`StoredOld`), so older frames stay. `ExceptionsAssumption` leaves out double
faults and the vectors of features that the kernel does not turn on; their stubs disagree
with the processor about the error code, and the theorem would be false. It also leaves out
vector 2, which is no exception and whose stub pushes nothing.
`LayoutAssumption`: the two stacks are two frames and the C code apart.

**Segments.** `Described` lists the bytes of the descriptors the processor reads, with
every byte of the TSS base; they are computed from `init` once (`InitTable`), and of
them only the busy bit ever changes. `Segmented` and `Stacked` say which selectors run at
each step and are kept in every frame. The data segment has two values in user code,
64-bit after the first return and 32-bit after `sysretq`, and may be null in the kernel,
which is why they are sets.

**PCI.** The theorems are about one processor, since `pci_race` shows a second one
disturbing the reads; `ReadInv` is where this is used: each value read is the value of
the register that was asked for. The constants are any set of machines with at most 256
buses of 32 slots of 8 functions, registers as wide as they are, and bridges that lead to
a bus (`MachinesAssumption`). `ScanInv` is the argument for `ScanComplete`. There is a
set of finished buses, closed under bridges, whose matching functions have all been
reported; the stack is a path of bridges, each function in front of its place handled
(`FrameInv`, `Nesting`); what is true at each step of `scanFunc` is in `PlaceInv`, and how
far the three loops of `scan` have come in `HostInv`. At the end the finished buses
contain the roots and are closed, so they are all that can be reached. `ReportedOnce` is
about machines in which no bus has two parents (`Tree` in the property). For these
`OnceInv` says that each bus in progress or finished has a reason that is used up, a root
or a bridge already passed, and a bus has only one. `PictureWhole` has the hypothesis that
a machine has one Bochs display and that only it has a screen; the callback paints through
addresses, and two screens could overlap. It is about displays whose base address
registers carry no flags.

**Printf.** `ParseInv` says that the parser is inside the format and in a directive behind
its `%`, with nothing but flags, digits, `*`, `.` and length letters in between; so it can
leave the format only where a directive is cut off by its end. The other three theorems have the hypothesis
`[]ArgumentsFit`, the contract of every caller of `printf`: when a directive takes an
argument there is one of its type. Without it the program has no defined behaviour. It holds
in every state of run `printf`. A double is any number the format of doubles has room for
(`Double`), zero and the smallest ones included.
`OutInv` says that what was handed out is a text, that width and precision are numbers, and
that the buffer holds the part of the text in front of `maxlen`. It rests on `TextIs`: every
conversion of every argument gives a text. `FieldInv` adds that the last conversion's text
is the one for a directive that a format can have; the flags left for an integer are in
`IntegerFlags`. `IntegerIsC` compares `_ntoa_format` with the reference in two cases,
without a prefix (`PlainFormat`) and with one (`HashFormat`), where the zeros to be
overwritten are there exactly because the three excepted cases are excluded. Here the prover
found that two `CASE` expressions of the model had overlapping guards: TLC takes the first
one that is true, the definition of `CASE` does not. They are disjoint now. `FieldFilled`
follows from the length that each conversion has with and without a width (`FtoaText`,
`EtoaText`, `StringFills`, `SpecialFills`). It needs a buffer of four characters, so that
an exponent fits; `PRINTF_NTOA_BUFFER_SIZE` is 32. The digits of a number are a recursive
function, shown to exist and to give characters by induction up to the number
(`DigitsText`), and so is the value of a number in the format (`AtoiValue`).
`PowerAssumption` says that the powers of two and ten in use are numbers, which the provers do
not know.

Only model-checked: every liveness property (`LockReleased`, `WalkEnds`,
`PublishedRuns`, `ExitCompletes`, `ScanEnds`, `TimerKeepsComing`, `CallReturns`; fairness is outside what
the prover handles); `FloatAccurate`, because the number that a printed text stands for is
an induction over its digits and over `SelectSeq`, which the prover cannot expand; the
physical manager and the PCI scan on several processors, where the properties are false.

## Not modelled

* `Alloc`: linked in but never called; its list is never given memory. Also never
  called: `freePageForTableEntry`, `writeField`, `BochsDisplayDevice::write`,
  `UserEntry::become` and `dump`, `dumpPageTable`, `ProcessManagement::init`.
* The stubs of vectors 2 and 123 to 126: nobody raises them. The stubs of vectors 17,
  21, 29 and 30 disagree with the processor about the error code; none of these
  exceptions can occur with what the kernel turns on.
* The registers `Pause` saves; attribute bits of page table entries other than
  `isPresent`; sizes in bytes (the `CPUs` table is one page and holds 18 entries).
* What the owner of the page below an interrupt stack stores while a
  frame lies there.
* What a store through page 0 does to whatever lies there, other than to the tables:
  `LostFault` stands for its consequences.
* What `%f` prints for precisions above 41: the loop that limits the precision
  (`printf.c:378`) stops when the buffer is full, and the rest is an index behind the
  table of powers. `PowerIndex` has this case, but no call of the run asks for it,
  because nothing can be said about the digits.
* The boot loader's header, the build files, and the register writes of `initLAPIC`
  other than the timer and the error vector.

## Plan

1. Done: all modules and runs above; proofs about locks, physical and virtual memory,
   processes, traps, segments, the PCI scan and formatting. Every safety property of a
   passing run except `FloatAccurate` is a theorem.
2. Left: the accuracy of `%f` for every number of digits, once there is a prover that
   does induction over data; the local APIC's registers beside the timer and errors.

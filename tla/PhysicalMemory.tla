--------------------------- MODULE PhysicalMemory ---------------------------
(***************************************************************************)
(* The physical memory manager (PhysicalMemoryManagement.cpp): free pages  *)
(* in a doubly linked list of chunks, sorted by address, whose headers lie *)
(* in the first page of each chunk.  allocatePages takes pages from the    *)
(* end of the first chunk that is long enough; freePages links a range in  *)
(* and merges it with its neighbours.                                      *)
(*                                                                         *)
(* An address is a page number and 0 is nullptr.  Memory.lock is taken     *)
(* only while Memory.usingLock is set; the four-byte store of              *)
(* Spinlock::release into the two-byte lock word also clears the flag that *)
(* follows it in struct Memory.                                            *)
(***************************************************************************)
EXTENDS Integers, Sequences, FiniteSets

CONSTANTS
  CPU,          \* the processors
  BSP,          \* the one that boots the kernel
  NumPages,     \* pages of physical memory, numbered from 1
  MaxRequest,   \* bound on the pages asked for in one call
  MemoryMap,    \* Limine's entries in order: records with base, n, usable
  Junk,         \* what callers write over the header words of their pages
  FreePolicy    \* which ranges callers give back: "none", "isolated", "any"

ASSUME BSPAssumption == BSP \in CPU
ASSUME SizeAssumption == NumPages \in Nat \ {0} /\ MaxRequest \in Nat \ {0}
ASSUME JunkAssumption == Junk \subseteq 0 .. NumPages
ASSUME PolicyAssumption == FreePolicy \in {"none", "isolated", "any"}

Null == 0
Page == 1 .. NumPages
Address == 0 .. NumPages

(* The pages of a range. *)
Run(b, k) == b .. b + k - 1

(* Limine's entries lie in memory, in order, without overlap, and a usable *)
(* entry is as long as it can be: two of them never touch.                 *)
ASSUME MapAssumption ==
  /\ MemoryMap \in Seq([base : Page, n : Page, usable : BOOLEAN])
  /\ \A i \in DOMAIN MemoryMap :
       /\ MemoryMap[i].base + MemoryMap[i].n - 1 <= NumPages
       /\ \A j \in 1 .. i - 1 :
            /\ MemoryMap[j].base + MemoryMap[j].n <= MemoryMap[i].base
            /\ MemoryMap[j].usable /\ MemoryMap[i].usable =>
                 MemoryMap[j].base + MemoryMap[j].n < MemoryMap[i].base

VARIABLES
  next, prev, num,  \* MemoryChunk: the header words of every page
  freeList,         \* Memory.freeList
  usingLock,        \* Memory.usingLock
  held,             \* Memory.lock.held
  entry,            \* the memory map entry the boot loop is at
  smp,              \* thereIsNowMoreThanOneProcessor has been called
  pc,               \* where each processor is in allocatePages or freePages
  base, n,          \* its arguments: the range to free, the pages wanted
  cursor,           \* chunk in allocatePages, next in freePages
  behind,           \* prev in freePages
  claims,           \* history: how many callers hold each page
  lent,             \* history: the ranges <<base, n>> callers hold
  result            \* history: what the last allocatePages returned

list == <<next, prev, num, freeList>>
lock == <<usingLock, held>>
boot == <<entry, smp>>
args == <<base, n>>
walk == <<cursor, behind>>
history == <<claims, lent, result>>
vars == <<list, lock, boot, pc, args, walk, history>>

(* Memory.init, and all memory in the hands of the firmware. *)
Init ==
  /\ next = [p \in Page |-> Null] /\ prev = [p \in Page |-> Null]
  /\ num = [p \in Page |-> 0]
  /\ freeList = Null
  /\ usingLock = FALSE /\ held = 0
  /\ entry = 1 /\ smp = FALSE
  /\ pc = [c \in CPU |-> "idle"]
  /\ base = [c \in CPU |-> Null] /\ n = [c \in CPU |-> 0]
  /\ cursor = [c \in CPU |-> Null] /\ behind = [c \in CPU |-> Null]
  /\ claims = [p \in Page |-> 1]
  /\ lent = {} /\ result = Null

-----------------------------------------------------------------------------
Goto(c, from, to) == pc[c] = from /\ pc' = [pc EXCEPT ![c] = to]

MapDone == entry > Len(MemoryMap)

(* Until thereIsNowMoreThanOneProcessor only the boot processor runs, and  *)
(* it allocates only after the whole memory map has been handed over.      *)
MayCall(c) == MapDone /\ (c = BSP \/ smp)

(* if (Memory.usingLock) Memory.lock.acquire(), the test at the start of a *)
(* call: the processor goes on to spin, or straight into the list.         *)
TestUsingLock(c, spin, inside) ==
  Goto(c, "idle", IF usingLock THEN spin ELSE inside)

(* The end of acquire's spin loop. *)
Acquire(c, spin, inside) ==
  /\ held = 0
  /\ held' = 1
  /\ Goto(c, spin, inside)
  /\ UNCHANGED <<list, usingLock, boot, args, walk, history>>

(* if (Memory.usingLock) Memory.lock.release(), the test at the end of a   *)
(* call: the four-byte store clears the lock word and the flag behind it.  *)
Release ==
  /\ held' = IF usingLock THEN 0 ELSE held
  /\ usingLock' = FALSE

(* A call returns: its arguments and local variables are gone. *)
Leave(c, from) ==
  /\ Goto(c, from, "idle")
  /\ base' = [base EXCEPT ![c] = Null] /\ n' = [n EXCEPT ![c] = 0]
  /\ cursor' = [cursor EXCEPT ![c] = Null]
  /\ behind' = [behind EXCEPT ![c] = Null]

(* The pages of a range get one claim more, or one less. *)
Claim(b, k) ==
  claims' = [p \in Page |-> claims[p] + (IF p \in Run(b, k) THEN 1 ELSE 0)]
Disclaim(b, k) ==
  claims' = [p \in Page |-> claims[p] - (IF p \in Run(b, k) THEN 1 ELSE 0)]

-----------------------------------------------------------------------------
(* allocatePages *)

AllocateCall(c, k) ==
  /\ MayCall(c)
  /\ TestUsingLock(c, "allocSpin", "allocHead")
  /\ n' = [n EXCEPT ![c] = k]
  /\ UNCHANGED <<list, lock, boot, base, walk, history>>

AllocateAcquire(c) == Acquire(c, "allocSpin", "allocHead")

AllocateHead(c) ==
  /\ Goto(c, "allocHead", "allocScan")
  /\ cursor' = [cursor EXCEPT ![c] = freeList]
  /\ UNCHANGED <<list, lock, boot, args, behind, history>>

(* Faulty tests of a chunk: one that fits exactly is passed over, the      *)
(* length is not looked at.                                                *)
Longer(chunk, k) == num[chunk] > k
AnyLength(chunk, k) == TRUE

(* The chunk has room for k pages. *)
LongEnough(chunk, k) == num[chunk] >= k

(* The chunk is too short: on to the next one. *)
AllocateNext(c) ==
  /\ cursor[c] # Null
  /\ ~LongEnough(cursor[c], n[c])
  /\ Goto(c, "allocScan", "allocScan")
  /\ cursor' = [cursor EXCEPT ![c] = next[cursor[c]]]
  /\ UNCHANGED <<list, lock, boot, args, behind, history>>

(* A chunk that is used up leaves the list. *)
Unlink(chunk) ==
  /\ next' = IF prev[chunk] = Null THEN next
             ELSE [next EXCEPT ![prev[chunk]] = next[chunk]]
  /\ prev' = IF next[chunk] = Null THEN prev
             ELSE [prev EXCEPT ![next[chunk]] = prev[chunk]]
  /\ freeList' = IF chunk = freeList THEN next[chunk] ELSE freeList

(* The chunk is long enough: it is shortened, and unlinked if used up. *)
AllocateTake(c) ==
  /\ cursor[c] # Null
  /\ LongEnough(cursor[c], n[c])
  /\ Goto(c, "allocScan", "allocUnlock")
  /\ num' = [num EXCEPT ![cursor[c]] = @ - n[c]]
  /\ IF num[cursor[c]] = n[c] THEN Unlink(cursor[c])
     ELSE UNCHANGED <<next, prev, freeList>>
  /\ UNCHANGED <<lock, boot, args, walk, history>>

AllocateRelease(c) ==
  /\ Goto(c, "allocUnlock", "allocReturn")
  /\ Release
  /\ UNCHANGED <<list, boot, args, walk, history>>

(* Faulty address: one page too low. *)
LastOf(chunk) == chunk + num[chunk] - 1

(* The address behind what is left of a chunk. *)
EndOf(chunk) == chunk + num[chunk]

(* The address is computed from chunk->numPages, read again after the lock *)
(* was released.                                                           *)
AllocateReturn(c) ==
  /\ Leave(c, "allocReturn")
  /\ result' = EndOf(cursor[c])
  /\ Claim(result', n[c])
  /\ lent' = lent \union {<<result', n[c]>>}
  /\ UNCHANGED <<list, lock, boot>>

(* The end of the list: the null address. *)
AllocateFail(c) ==
  /\ cursor[c] = Null
  /\ Leave(c, "allocScan")
  /\ Release
  /\ result' = Null
  /\ UNCHANGED <<list, boot, claims, lent>>

-----------------------------------------------------------------------------
(* freePages *)

(* The range has no free neighbour and does not start before the list. *)
Isolated(b, k) ==
  /\ \A p \in Page : claims[p] = 0 => p # b - 1 /\ p # b + k
  /\ freeList = Null \/ freeList < b

MayFree(b, k) ==
  \/ FreePolicy = "any"
  \/ FreePolicy = "isolated" /\ Isolated(b, k)

FreeCall(c, b, k) ==
  /\ TestUsingLock(c, "freeSpin", "freeHead")
  /\ base' = [base EXCEPT ![c] = b]
  /\ n' = [n EXCEPT ![c] = k]
  /\ Disclaim(b, k)
  /\ UNCHANGED <<list, lock, walk, result>>

(* initByAddingUsablePagesToMemoryManagement: freeRange for every usable   *)
(* entry of the memory map, the others are skipped.                        *)
HandOver ==
  /\ ~MapDone
  /\ pc[BSP] = "idle"
  /\ entry' = entry + 1
  /\ UNCHANGED <<smp, lent>>
  /\ LET e == MemoryMap[entry] IN
     IF e.usable THEN FreeCall(BSP, e.base, e.n)
     ELSE UNCHANGED <<list, lock, pc, args, walk, claims, result>>

(* A caller gives a range back, as freeProcess does with a kernel stack. *)
GiveBack(c) ==
  /\ MayCall(c)
  /\ \E r \in lent :
       /\ MayFree(r[1], r[2])
       /\ FreeCall(c, r[1], r[2])
       /\ lent' = lent \ {r}
  /\ UNCHANGED boot

FreeAcquire(c) == Acquire(c, "freeSpin", "freeHead")

(* memset over the range, its header, and either the list was empty or the *)
(* search for the place starts.                                            *)
FreeHead(c) ==
  LET range == Run(base[c], n[c])
  IN  /\ pc[c] = "freeHead"
      /\ num' = [p \in Page |-> IF p = base[c] THEN n[c]
                                ELSE IF p \in range THEN 0 ELSE num[p]]
      /\ next' = [p \in Page |-> IF p \in range THEN Null ELSE next[p]]
      /\ prev' = [p \in Page |-> IF p \in range THEN Null ELSE prev[p]]
      /\ freeList' = IF freeList = Null THEN base[c] ELSE freeList
      /\ pc' = [pc EXCEPT ![c] = IF freeList = Null THEN "freeUnlock" ELSE "freeScan"]
      /\ cursor' = [cursor EXCEPT ![c] = freeList]
      /\ behind' = [behind EXCEPT ![c] = Null]
      /\ UNCHANGED <<lock, boot, args, history>>

(* Faulty search: next is not advanced. *)
Same(chunk) == chunk

Following(chunk) == next[chunk]

FreeNext(c) ==
  /\ cursor[c] # Null /\ cursor[c] <= base[c]
  /\ Goto(c, "freeScan", "freeScan")
  /\ behind' = [behind EXCEPT ![c] = cursor[c]]
  /\ cursor' = [cursor EXCEPT ![c] = Following(cursor[c])]
  /\ UNCHANGED <<list, lock, boot, args, history>>

(* f with f[p] = v, where p may be the null pointer that is not written. *)
Store(f, p, v) == IF p = Null THEN f ELSE [f EXCEPT ![p] = v]

(* Faulty linking: the chunk after the range keeps its prev. *)
NoBackLink(p, b) == prev

(* self->next->prev = self. *)
BackLink(p, b) == Store(prev, p, b)

(* The place is found: the range is linked in between behind and cursor,   *)
(* and merged with the one it touches.                                     *)
FreeLink(c) ==
  LET b == base[c]
      joinsNext == cursor[c] # Null /\ b + n[c] = cursor[c]
      num1 == IF joinsNext THEN [num EXCEPT ![b] = @ + num[cursor[c]]] ELSE num
      joinsPrev == behind[c] # Null /\ behind[c] + num1[behind[c]] = b
  IN  /\ cursor[c] = Null \/ cursor[c] > b
      /\ Goto(c, "freeScan", "freeUnlock")
      /\ next' = Store([next EXCEPT ![b] = IF joinsNext THEN next[cursor[c]] ELSE cursor[c]],
                       behind[c], b)
      /\ prev' = [BackLink(cursor[c], b) EXCEPT ![b] = behind[c]]
      /\ num' = IF joinsPrev THEN [num1 EXCEPT ![behind[c]] = @ + n[c]] ELSE num1
      /\ UNCHANGED <<freeList, lock, boot, args, walk, history>>

FreeRelease(c) ==
  /\ Leave(c, "freeUnlock")
  /\ Release
  /\ UNCHANGED <<list, boot, history>>

-----------------------------------------------------------------------------
(* initializeProcessors: the lock is put into use. *)
thereIsNowMoreThanOneProcessor ==
  /\ MapDone /\ ~smp /\ pc[BSP] = "idle"
  /\ smp' = TRUE
  /\ usingLock' = TRUE
  /\ UNCHANGED <<list, held, entry, pc, args, walk, history>>

(* A caller writes to a page it holds: the header words are its data now. *)
Scribble(p, v) ==
  /\ \E r \in lent : p \in Run(r[1], r[2])
  /\ next' = [next EXCEPT ![p] = v]
  /\ prev' = [prev EXCEPT ![p] = v]
  /\ num' = [num EXCEPT ![p] = v]
  /\ UNCHANGED <<freeList, lock, boot, pc, args, walk, history>>

(* What processor c does once it is in a call. *)
InCall(c) ==
  \/ AllocateAcquire(c) \/ AllocateHead(c) \/ AllocateNext(c)
  \/ AllocateTake(c) \/ AllocateRelease(c) \/ AllocateReturn(c)
  \/ AllocateFail(c)
  \/ FreeAcquire(c) \/ FreeHead(c) \/ FreeNext(c) \/ FreeLink(c)
  \/ FreeRelease(c)

Next ==
  \/ HandOver
  \/ thereIsNowMoreThanOneProcessor
  \/ \E p \in Page, v \in Junk : Scribble(p, v)
  \/ \E c \in CPU :
       \/ \E k \in 1 .. MaxRequest : AllocateCall(c, k)
       \/ GiveBack(c)
       \/ InCall(c)

Spec == Init /\ [][Next]_vars

(* A processor inside a call keeps executing; boot goes on too. *)
Fairness ==
  /\ WF_vars(HandOver) /\ WF_vars(thereIsNowMoreThanOneProcessor)
  /\ \A c \in CPU : WF_vars(InCall(c))

FairSpec == Spec /\ Fairness

-----------------------------------------------------------------------------
Step == {"idle", "allocSpin", "allocHead", "allocScan", "allocUnlock",
         "allocReturn", "freeSpin", "freeHead", "freeScan", "freeUnlock"}

TypeOK ==
  /\ next \in [Page -> Address] /\ prev \in [Page -> Address]
  /\ num \in [Page -> 0 .. NumPages]
  /\ freeList \in Address
  /\ usingLock \in BOOLEAN /\ held \in {0, 1}
  /\ entry \in 1 .. Len(MemoryMap) + 1 /\ smp \in BOOLEAN
  /\ pc \in [CPU -> Step]
  /\ base \in [CPU -> Address] /\ n \in [CPU -> 0 .. NumPages + MaxRequest]
  /\ cursor \in [CPU -> Address] /\ behind \in [CPU -> Address]
  /\ claims \in [Page -> Nat]
  /\ lent \subseteq Page \X (1 .. MaxRequest)
  /\ result \in Address

(* A page has one owner at a time: allocatePages never hands out a page    *)
(* that a caller still holds, however allocations and frees are ordered.   *)
NoDoubleAllocation == \A p \in Page : claims[p] <= 1

(* Pages on their way into the list, and on their way to a caller. *)
Entering ==
  UNION {Run(base[c], n[c]) :
           c \in {d \in CPU : pc[d] \in {"freeSpin", "freeHead", "freeScan"}}}
Leaving ==
  UNION {Run(cursor[c] + num[cursor[c]], n[c]) :
           c \in {d \in CPU : pc[d] \in {"allocUnlock", "allocReturn"}}}

(* The pages that should be headers of chunks. *)
Chunks == {p \in Page : claims[p] = 0 /\ num[p] > 0 /\ p \notin Entering}

(* q is the place to go from p in the list, upwards or downwards. *)
Above(p, q) ==
  IF q = Null THEN \A r \in Chunks : r <= p
  ELSE q \in Chunks /\ p < q /\ \A r \in Chunks : r <= p \/ q <= r
Below(p, q) ==
  IF q = Null THEN \A r \in Chunks : p <= r
  ELSE q \in Chunks /\ q < p /\ \A r \in Chunks : p <= r \/ r <= q

(* The free list holds exactly the free memory: its chunks are linked in   *)
(* address order in both directions, lie in memory nobody holds, do not    *)
(* overlap or touch, and together cover every free page (the list that     *)
(* freePages builds and allocatePages walks).                              *)
ListWellFormed ==
  /\ Above(0, freeList)
  /\ \A p \in Chunks :
       /\ Above(p, next[p]) /\ Below(p, prev[p])
       /\ p + num[p] - 1 <= NumPages
       /\ \A q \in Run(p, num[p]) : claims[q] = 0 /\ (q \in Chunks => q = p)
       /\ p + num[p] \notin Chunks
  /\ \A q \in Page :
       claims[q] = 0 /\ q \notin Entering \union Leaving =>
         \E p \in Chunks : q \in Run(p, num[p])

(* What each processor in allocatePages has asked for. *)
Wanted ==
  [c \in CPU |->
     IF pc[c] \in {"allocSpin", "allocHead", "allocScan", "allocUnlock", "allocReturn"}
     THEN n[c] ELSE 0]

(* What the callers are promised: every call of allocatePages is answered  *)
(* once, with as many free pages as it asked for, or with the null address *)
(* if no run of free pages is that long; freePages gives pages back        *)
(* (against the abstract PageAllocator).                                   *)
Allocator == INSTANCE PageAllocator WITH
  Client <- CPU, free <- {p \in Page : claims[p] = 0}, wanted <- Wanted
ImplementsPageAllocator == Allocator!Spec

(* The walks through the free list end: a call of allocatePages or         *)
(* freePages that has the list to itself comes to its end, whatever        *)
(* allocations, frees and callers' data did to the links before it.        *)
WalkEnds ==
  \A c \in CPU : pc[c] \in {"allocHead", "allocScan", "freeHead", "freeScan"}
                  ~> pc[c] = "idle"
=============================================================================

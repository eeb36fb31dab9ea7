----------------------- MODULE PhysicalMemoryProofs -------------------------
(***************************************************************************)
(* The page allocator as it runs on one processor: for any memory map, any *)
(* amount of memory and any requests, if ranges are given back only where  *)
(* they touch no free page and lie behind the first chunk (FreePolicy).    *)
(* The free list is well formed, pages are lent once, and allocatePages    *)
(* and freePages implement PageAllocator.                                  *)
(***************************************************************************)
EXTENDS PhysicalMemory, TLAPS

(* The hypothesis of the theorems.  On two processors, or with another     *)
(* policy, the properties are false.                                       *)
OneProcessor == CPU = {BSP} /\ FreePolicy # "any"

-----------------------------------------------------------------------------
(* Linked lists over a set of page numbers *)

(* q is the next element of C above p, 0 if there is none; and below. *)
Up(C, p, q) ==
  IF q = 0 THEN \A r \in C : r <= p
  ELSE q \in C /\ p < q /\ \A r \in C : r <= p \/ q <= r
Down(C, p, q) ==
  IF q = 0 THEN \A r \in C : p <= r
  ELSE q \in C /\ q < p /\ \A r \in C : p <= r \/ r <= q

(* From head upwards through nx, and back through pv, all of C is linked   *)
(* in order.                                                               *)
Linked(C, head, nx, pv) ==
  /\ Up(C, 0, head)
  /\ \A p \in C : Up(C, p, nx[p]) /\ Down(C, p, pv[p])

(* Nothing outside the elements of the list matters. *)
LEMMA LinkedSame ==
  ASSUME NEW C, NEW head, NEW nx, NEW pv, NEW nx2, NEW pv2,
         Linked(C, head, nx, pv),
         \A p \in C : nx2[p] = nx[p] /\ pv2[p] = pv[p]
  PROVE  Linked(C, head, nx2, pv2)
  BY DEF Linked

(* Unlink takes one element out of the list. *)
LEMMA LinkedRemove ==
  ASSUME NEW C, C \subseteq Page, NEW head,
         NEW nx \in [Page -> Address], NEW pv \in [Page -> Address],
         Linked(C, head, nx, pv), NEW p \in C, NEW nx2, NEW pv2,
         nx2 = IF pv[p] = 0 THEN nx ELSE [nx EXCEPT ![pv[p]] = nx[p]],
         pv2 = IF nx[p] = 0 THEN pv ELSE [pv EXCEPT ![nx[p]] = pv[p]]
  PROVE  Linked(C \ {p}, IF p = head THEN nx[p] ELSE head, nx2, pv2)
<1> DEFINE D == C \ {p}
           h == IF p = head THEN nx[p] ELSE head
<1>0. /\ \A r \in C : r \in Page /\ r \in Int /\ r > 0
      /\ p \in Int /\ p > 0 /\ nx[p] \in Int /\ pv[p] \in Int
      /\ \A r \in C : nx[r] \in Int /\ pv[r] \in Int
  BY SizeAssumption DEF Page, Address
<1>1. Up(C, 0, head) /\ Up(C, p, nx[p]) /\ Down(C, p, pv[p])
  BY DEF Linked
<1>2. Up(D, 0, h)
  BY <1>0, <1>1 DEF Up
<1>3. ASSUME NEW r \in D PROVE Up(D, r, nx2[r])
  <2>1. Up(C, r, nx[r])
    BY <1>3 DEF Linked
  <2>2. CASE r = pv[p]
    <3>1. nx2[r] = nx[p]
      BY <1>0, <1>3, <2>2
    <3>2. Up(D, r, nx[p])
      BY <1>0, <1>1, <1>3, <2>2 DEF Up, Down
    <3> QED
      BY <3>1, <3>2
  <2>3. CASE r # pv[p]
    <3>1. nx2[r] = nx[r]
      BY <1>3, <2>3
    <3>2. nx[r] # p
      BY <1>0, <1>1, <1>3, <2>1, <2>3 DEF Up, Down
    <3>3. Up(D, r, nx[r])
      BY <2>1, <3>2 DEF Up
    <3> QED
      BY <3>1, <3>3
  <2> QED
    BY <2>2, <2>3
<1>4. ASSUME NEW r \in D PROVE Down(D, r, pv2[r])
  <2>1. Down(C, r, pv[r])
    BY <1>4 DEF Linked
  <2>2. CASE r = nx[p]
    <3>1. pv2[r] = pv[p]
      BY <1>0, <1>4, <2>2
    <3>2. Down(D, r, pv[p])
      BY <1>0, <1>1, <1>4, <2>2 DEF Up, Down
    <3> QED
      BY <3>1, <3>2
  <2>3. CASE r # nx[p]
    <3>1. pv2[r] = pv[r]
      BY <1>4, <2>3
    <3>2. pv[r] # p
      BY <1>0, <1>1, <1>4, <2>1, <2>3 DEF Up, Down
    <3>3. Down(D, r, pv[r])
      BY <2>1, <3>2 DEF Down
    <3> QED
      BY <3>1, <3>3
  <2> QED
    BY <2>2, <2>3
<1> QED
  BY <1>2, <1>3, <1>4 DEF Linked

(* A new element is linked in behind q, at the place the search of         *)
(* freePages finds.                                                        *)
LEMMA LinkedInsert ==
  ASSUME NEW C, C \subseteq Page, NEW head,
         NEW nx \in [Page -> Address], NEW pv \in [Page -> Address],
         Linked(C, head, nx, pv), NEW b \in Page, b \notin C,
         NEW q \in C, q < b, nx[q] = 0 \/ b < nx[q], NEW nx2, NEW pv2,
         nx2 = [nx EXCEPT ![b] = nx[q], ![q] = b],
         pv2 = [(IF nx[q] = 0 THEN pv ELSE [pv EXCEPT ![nx[q]] = b])
                  EXCEPT ![b] = q]
  PROVE  Linked(C \union {b}, head, nx2, pv2)
<1> DEFINE D == C \union {b}
<1>0. /\ \A r \in C : r \in Page /\ r \in Int /\ r > 0
      /\ b \in Int /\ b > 0 /\ q \in Int /\ nx[q] \in Int
      /\ \A r \in C : nx[r] \in Int /\ pv[r] \in Int
  BY SizeAssumption DEF Page, Address
<1>1. Up(C, 0, head) /\ Up(C, q, nx[q])
  BY DEF Linked
<1>2. Up(D, 0, head)
  <2>1. head # 0
    BY <1>0, <1>1 DEF Up
  <2>2. head \in C /\ head <= q
    BY <1>0, <1>1, <2>1 DEF Up
  <2>3. 0 < head /\ head <= b
    BY <1>0, <2>2
  <2> QED
    BY <1>0, <1>1, <2>1, <2>2, <2>3 DEF Up
<1>3. ASSUME NEW r \in D PROVE Up(D, r, nx2[r])
  <2>1. r \in C => Up(C, r, nx[r])
    BY DEF Linked
  <2>2. CASE r = b
    <3>1. nx2[r] = nx[q]
      BY <1>0, <2>2
    <3>2. Up(D, b, nx[q])
      BY <1>0, <1>1 DEF Up
    <3> QED
      BY <2>2, <3>1, <3>2
  <2>3. CASE r = q
    <3>1. nx2[r] = b
      BY <1>0, <2>3
    <3>2. Up(D, q, b)
      BY <1>0, <1>1 DEF Up
    <3> QED
      BY <2>3, <3>1, <3>2
  <2>4. CASE r # b /\ r # q
    <3>1. nx2[r] = nx[r] /\ r \in C
      BY <1>3, <2>4
    <3>2. Up(D, r, nx[r])
      BY <1>0, <1>1, <2>1, <2>4, <3>1 DEF Up
    <3> QED
      BY <3>1, <3>2
  <2> QED
    BY <2>2, <2>3, <2>4
<1>4. ASSUME NEW r \in D PROVE Down(D, r, pv2[r])
  <2>1. r \in C => Down(C, r, pv[r])
    BY DEF Linked
  <2>2. CASE r = b
    <3>1. pv2[r] = q
      BY <1>0, <2>2
    <3>2. Down(D, b, q)
      BY <1>0, <1>1 DEF Up, Down
    <3> QED
      BY <2>2, <3>1, <3>2
  <2>3. CASE r # b /\ r = nx[q]
    <3>1. pv2[r] = b /\ r \in C
      BY <1>0, <1>3, <2>3
    <3>2. Down(D, r, b)
      BY <1>0, <1>1, <2>3, <3>1 DEF Up, Down
    <3> QED
      BY <3>1, <3>2
  <2>4. CASE r # b /\ r # nx[q]
    <3>1. pv2[r] = pv[r] /\ r \in C
      BY <1>3, <2>4
    <3>2. Down(D, r, pv[r])
      BY <1>0, <1>1, <2>1, <2>4, <3>1 DEF Up, Down
    <3> QED
      BY <3>1, <3>2
  <2> QED
    BY <2>2, <2>3, <2>4
<1> QED
  BY <1>2, <1>3, <1>4 DEF Linked

-----------------------------------------------------------------------------
(* The inductive invariant, for the boot processor alone *)

at == pc[BSP]
b == base[BSP]
k == n[BSP]
cur == cursor[BSP]
beh == behind[BSP]

Free == {p \in Page : claims[p] = 0}

(* Entering, Leaving and Chunks of one processor. *)
Coming == IF at \in {"freeSpin", "freeHead", "freeScan"} THEN Run(b, k) ELSE {}
Going == IF at \in {"allocUnlock", "allocReturn"} THEN Run(EndOf(cur), k) ELSE {}
Headers == {p \in Page : claims[p] = 0 /\ num[p] > 0 /\ p \notin Coming}

(* The chunks with headers C and lengths len are runs of F that neither    *)
(* overlap nor touch, and together they are F.                             *)
Tiled(C, len, F) ==
  /\ \A p \in C :
       /\ Run(p, len[p]) \subseteq F
       /\ \A q \in Run(p, len[p]) : q \in C => q = p
       /\ p + len[p] \notin C
  /\ \A q \in F : \E p \in C : q \in Run(p, len[p])

ListInv ==
  /\ Linked(Headers, freeList, next, prev)
  /\ Tiled(Headers, num, Free \ (Coming \union Going))

(* What callers hold is claimed once and disjoint. *)
LentInv ==
  /\ \A r \in lent :
       /\ r[1] + r[2] - 1 <= NumPages
       /\ \A p \in Run(r[1], r[2]) : claims[p] = 1
  /\ \A r, s \in lent : r # s => Run(r[1], r[2]) \cap Run(s[1], s[2]) = {}

(* While the memory map is handed over, free memory comes from the usable  *)
(* entries before the one the loop is at, and nobody allocates.            *)
BootInv ==
  ~MapDone =>
    /\ lent = {}
    /\ at \in {"idle", "freeSpin", "freeHead", "freeScan", "freeUnlock"}
    /\ \A p \in Free : \E j \in 1 .. entry - 1 :
         /\ MemoryMap[j].usable
         /\ p \in Run(MemoryMap[j].base, MemoryMap[j].n)

(* The chunks the search of allocatePages has passed are too short. *)
AllocInv ==
  /\ at \in {"allocSpin", "allocHead", "allocScan", "allocUnlock",
             "allocReturn"} => k \in 1 .. MaxRequest
  /\ at = "allocScan" =>
       /\ cur = Null \/ cur \in Headers
       /\ \A r \in Headers : (cur = Null \/ r < cur) => num[r] < k
  /\ at \in {"allocUnlock", "allocReturn"} =>
       /\ cur \in Free /\ EndOf(cur) + k - 1 <= NumPages
       /\ \A p \in Going : claims[p] = 0 /\ num[p] = 0

(* The range to be freed touches no free page and lies behind the first    *)
(* chunk, and the search of freePages has not gone past it.                *)
FreeInv ==
  /\ at \in {"freeSpin", "freeHead", "freeScan"} =>
       /\ b \in Page /\ k \in Page /\ b + k - 1 <= NumPages
       /\ \A p \in Run(b, k) : claims[p] = 0
       /\ \A p \in Free : p # b - 1 /\ p # b + k
       /\ freeList = Null \/ freeList < b
  /\ at = "freeScan" =>
       /\ num[b] = k /\ \A p \in Run(b, k) : p # b => num[p] = 0
       /\ freeList # Null
       /\ beh = Null => cur = freeList
       /\ beh # Null => beh \in Headers /\ beh < b /\ cur = next[beh]

(* Every page has one owner or none, and has a count. *)
ClaimsInv == \A p \in Page : claims[p] \in {0, 1}

MemoryInv ==
  TypeOK /\ ClaimsInv /\ ListInv /\ LentInv /\ BootInv /\ AllocInv /\ FreeInv

-----------------------------------------------------------------------------
(* Facts the actions share *)

(* One processor's pages on the way in and out are everybody's. *)
LEMMA Alone ==
  ASSUME OneProcessor, TypeOK
  PROVE  Entering = Coming /\ Leaving = Going /\ Chunks = Headers
<1>1. CPU = {BSP}
  BY DEF OneProcessor
<1>2. Entering = Coming
  <2>1. CASE at \in {"freeSpin", "freeHead", "freeScan"}
    <3>1. {d \in CPU : pc[d] \in {"freeSpin", "freeHead", "freeScan"}} = {BSP}
      BY <1>1, <2>1 DEF at
    <3>2. {Run(base[c], n[c]) : c \in {BSP}} = {Run(b, k)}
      BY DEF b, k
    <3> QED
      BY <2>1, <3>1, <3>2 DEF Entering, Coming
  <2>2. CASE at \notin {"freeSpin", "freeHead", "freeScan"}
    <3>1. {d \in CPU : pc[d] \in {"freeSpin", "freeHead", "freeScan"}} = {}
      BY <1>1, <2>2 DEF at
    <3>2. {Run(base[c], n[c]) : c \in {}} = {}
      OBVIOUS
    <3> QED
      BY <2>2, <3>1, <3>2 DEF Entering, Coming
  <2> QED
    BY <2>1, <2>2
<1>3. Leaving = Going
  <2>1. CASE at \in {"allocUnlock", "allocReturn"}
    <3>1. {d \in CPU : pc[d] \in {"allocUnlock", "allocReturn"}} = {BSP}
      BY <1>1, <2>1 DEF at
    <3>2. {Run(cursor[c] + num[cursor[c]], n[c]) : c \in {BSP}}
            = {Run(EndOf(cur), k)}
      BY DEF cur, k, EndOf
    <3> QED
      BY <2>1, <3>1, <3>2 DEF Leaving, Going
  <2>2. CASE at \notin {"allocUnlock", "allocReturn"}
    <3>1. {d \in CPU : pc[d] \in {"allocUnlock", "allocReturn"}} = {}
      BY <1>1, <2>2 DEF at
    <3>2. {Run(cursor[c] + num[cursor[c]], n[c]) : c \in {}} = {}
      OBVIOUS
    <3> QED
      BY <2>2, <3>1, <3>2 DEF Leaving, Going
  <2> QED
    BY <2>1, <2>2
<1> QED
  BY <1>2, <1>3 DEF Chunks, Headers

(* The types of what the boot processor works on. *)
LEMMA Types ==
  ASSUME TypeOK
  PROVE  /\ at \in Step
         /\ b \in Int /\ b >= 0 /\ k \in Int /\ k >= 0
         /\ cur \in Address /\ beh \in Address /\ freeList \in Address
         /\ cur \in Int /\ beh \in Int /\ freeList \in Int
         /\ \A p \in Page : p \in Int /\ p > 0 /\ p <= NumPages
         /\ \A p \in Page : num[p] \in Int /\ num[p] >= 0
         /\ \A p \in Page : next[p] \in Address /\ prev[p] \in Address
         /\ \A p \in Page : next[p] \in Int /\ prev[p] \in Int
         /\ \A p \in Address : p # 0 => p \in Page
  BY BSPAssumption, SizeAssumption
     DEF TypeOK, at, b, k, cur, beh, Page, Address

(* What a header is. *)
LEMMA HeaderFacts ==
  ASSUME TypeOK
  PROVE  \A p \in Headers : /\ p \in Page /\ p \in Free /\ claims[p] = 0
                            /\ num[p] > 0 /\ p \in Run(p, num[p])
                            /\ p \notin Coming
<1> SUFFICES ASSUME NEW p \in Headers
             PROVE  /\ p \in Page /\ p \in Free /\ claims[p] = 0
                    /\ num[p] > 0 /\ p \in Run(p, num[p])
                    /\ p \notin Coming
  OBVIOUS
<1>1. p \in Page /\ claims[p] = 0 /\ num[p] > 0 /\ p \notin Coming
  BY DEF Headers
<1>2. p \in Int /\ num[p] \in Int
  BY <1>1, Types
<1> QED
  BY <1>1, <1>2 DEF Free, Run

(* The list depends on the headers and their words only. *)
LEMMA ListKeeps ==
  ASSUME ListInv, Headers' = Headers, freeList' = freeList,
         \A p \in Headers :
           next'[p] = next[p] /\ prev'[p] = prev[p] /\ num'[p] = num[p],
         (Free \ (Coming \union Going))' = Free \ (Coming \union Going)
  PROVE  ListInv'
<1>1. Linked(Headers, freeList, next', prev')
  BY LinkedSame DEF ListInv
<1>2. Tiled(Headers, num', Free \ (Coming \union Going))
  BY DEF ListInv, Tiled
<1> QED
  BY <1>1, <1>2 DEF ListInv

(* Where the first chunk is. *)
LEMMA FirstChunk ==
  ASSUME TypeOK, ListInv
  PROVE  /\ freeList = Null => Headers = {}
         /\ freeList # Null => /\ freeList \in Headers
                               /\ \A r \in Headers : freeList <= r
<1>1. Up(Headers, 0, freeList)
  BY DEF ListInv, Linked
<1>2. \A r \in Headers : r \in Int /\ r > 0
  BY HeaderFacts, Types
<1> QED
  BY <1>1, <1>2 DEF Up, Null

(* Where the chunk after a chunk is. *)
LEMMA NextChunk ==
  ASSUME TypeOK, ListInv, NEW p \in Headers
  PROVE  /\ next[p] = Null => \A r \in Headers : r <= p
         /\ next[p] # Null => /\ next[p] \in Headers /\ p < next[p]
                              /\ \A r \in Headers : r <= p \/ next[p] <= r
<1>1. Up(Headers, p, next[p])
  BY DEF ListInv, Linked
<1> QED
  BY <1>1 DEF Up, Null

(* A step of a search or of the lock leaves the list and the owners alone. *)
LEMMA Walks ==
  ASSUME MemoryInv, UNCHANGED <<next, prev, num, freeList, claims, lent>>,
         Coming' = Coming, Going' = Going
  PROVE  /\ Headers' = Headers /\ Free' = Free
         /\ ListInv' /\ LentInv' /\ ClaimsInv'
<1>1. Headers' = Headers /\ Free' = Free
  BY DEF Headers, Free
<1>2. ListInv'
  BY <1>1, ListKeeps DEF MemoryInv
<1> QED
  BY <1>1, <1>2 DEF MemoryInv, LentInv, ClaimsInv

(* Two chunks have no page in common: the header of the one behind would   *)
(* lie in the one before it.                                               *)
LEMMA Disjoint ==
  ASSUME TypeOK, NEW F, Tiled(Headers, num, F),
         NEW p \in Headers, NEW q \in Headers, p # q
  PROVE  Run(p, num[p]) \cap Run(q, num[q]) = {}
<1>1. /\ p \in Int /\ q \in Int /\ num[p] \in Int /\ num[q] \in Int
  BY HeaderFacts, Types
<1>2. q \notin Run(p, num[p]) /\ p \notin Run(q, num[q])
  BY DEF Tiled
<1> QED
  BY <1>1, <1>2 DEF Run

(* What a caller holds is memory with one owner. *)
LEMMA LentPages ==
  ASSUME TypeOK, LentInv, NEW r \in lent
  PROVE  /\ r[1] \in Page /\ r[2] \in 1 .. MaxRequest /\ r[2] \in Page
         /\ r[1] \in Int /\ r[2] \in Int
         /\ \A p \in Run(r[1], r[2]) : p \in Page /\ claims[p] = 1
<1>1. r[1] \in Page /\ r[2] \in 1 .. MaxRequest
  BY DEF TypeOK
<1>2. r[1] + r[2] - 1 <= NumPages /\ \A p \in Run(r[1], r[2]) : claims[p] = 1
  BY DEF LentInv
<1> QED
  BY <1>1, <1>2, SizeAssumption DEF Run, Page

(* The pages on their way to a caller lie in memory. *)
LEMMA GoingPages ==
  ASSUME TypeOK, AllocInv, at \in {"allocUnlock", "allocReturn"}
  PROVE  Going \subseteq Page
<1>1. /\ cur \in Page /\ EndOf(cur) + k - 1 <= NumPages
      /\ Going = Run(EndOf(cur), k)
  BY DEF AllocInv, Going, Free
<1>2. EndOf(cur) \in Int /\ EndOf(cur) > 0 /\ k \in Int
  BY <1>1, Types DEF EndOf
<1> QED
  BY <1>1, <1>2, SizeAssumption DEF Run, Page

-----------------------------------------------------------------------------
(* allocatePages keeps the invariant *)

(* The call is outside the list while it takes the lock. *)
LEMMA AllocateCallKeeps ==
  ASSUME MemoryInv, NEW m \in 1 .. MaxRequest, AllocateCall(BSP, m)
  PROVE  MemoryInv'
<1> USE DEF MemoryInv
<1>1. /\ at = "idle" /\ at' \in {"allocSpin", "allocHead"}
      /\ k' = m /\ m \in 1 .. MaxRequest /\ MapDone
      /\ UNCHANGED <<next, prev, num, freeList, claims, lent, entry>>
  BY BSPAssumption
     DEF AllocateCall, TestUsingLock, Goto, TypeOK, at, k, MayCall, list, boot,
         history
<1>2. TypeOK'
  BY BSPAssumption, SizeAssumption
     DEF AllocateCall, TestUsingLock, Goto, TypeOK, Step, list, lock, boot,
         walk, history
<1>3. Coming' = Coming /\ Going' = Going
  BY <1>1 DEF Coming, Going
<1>4. ListInv' /\ LentInv' /\ ClaimsInv'
  BY <1>1, <1>3, Walks
<1>5. BootInv'
  BY <1>1 DEF BootInv, MapDone
<1>6. AllocInv' /\ FreeInv'
  BY <1>1 DEF AllocInv, FreeInv
<1> QED
  BY <1>2, <1>4, <1>5, <1>6

(* A processor starts to look for a chunk. *)
LEMMA AllocateAcquireKeeps ==
  ASSUME MemoryInv, AllocateAcquire(BSP)
  PROVE  MemoryInv'
<1> USE DEF MemoryInv
<1>1. /\ at = "allocSpin" /\ at' = "allocHead" /\ k' = k
      /\ UNCHANGED <<next, prev, num, freeList, claims, lent, entry>>
  BY BSPAssumption
     DEF AllocateAcquire, Acquire, Goto, TypeOK, at, k, list, boot, args,
         history
<1>2. TypeOK'
  BY BSPAssumption
     DEF AllocateAcquire, Acquire, Goto, TypeOK, Step, list, lock, boot, args,
         walk, history
<1>3. Coming' = Coming /\ Going' = Going
  BY <1>1 DEF Coming, Going
<1>4. ListInv' /\ LentInv' /\ ClaimsInv'
  BY <1>1, <1>3, Walks
<1>5. BootInv'
  BY <1>1 DEF BootInv, MapDone
<1>6. AllocInv' /\ FreeInv'
  BY <1>1 DEF AllocInv, FreeInv
<1> QED
  BY <1>2, <1>4, <1>5, <1>6

(* The search starts at the first chunk: none is passed yet. *)
LEMMA AllocateHeadKeeps ==
  ASSUME MemoryInv, AllocateHead(BSP)
  PROVE  MemoryInv'
<1> USE DEF MemoryInv
<1>1. /\ at = "allocHead" /\ at' = "allocScan" /\ k' = k /\ cur' = freeList
      /\ UNCHANGED <<next, prev, num, freeList, claims, lent, entry>>
  BY BSPAssumption
     DEF AllocateHead, Goto, TypeOK, at, k, cur, list, boot, args, history
<1>2. TypeOK'
  BY BSPAssumption
     DEF AllocateHead, Goto, TypeOK, Step, list, lock, boot, args, history
<1>3. Coming' = Coming /\ Going' = Going
  BY <1>1 DEF Coming, Going
<1>4. ListInv' /\ LentInv' /\ ClaimsInv' /\ Headers' = Headers
  BY <1>1, <1>3, Walks
<1>5. BootInv'
  BY <1>1 DEF BootInv, MapDone
<1>6. /\ cur' = Null \/ cur' \in Headers
      /\ \A r \in Headers : ~(cur' = Null \/ r < cur')
  BY <1>1, FirstChunk, HeaderFacts, Types
<1>7. AllocInv' /\ FreeInv'
  BY <1>1, <1>4, <1>6 DEF AllocInv, FreeInv
<1> QED
  BY <1>2, <1>4, <1>5, <1>7

(* A chunk that is too short is passed. *)
LEMMA AllocateNextKeeps ==
  ASSUME MemoryInv, AllocateNext(BSP)
  PROVE  MemoryInv'
<1> USE DEF MemoryInv
<1>1. /\ at = "allocScan" /\ at' = "allocScan" /\ k' = k /\ cur' = next[cur]
      /\ cur # Null /\ ~(num[cur] >= k)
      /\ UNCHANGED <<next, prev, num, freeList, claims, lent, entry>>
  BY BSPAssumption
     DEF AllocateNext, LongEnough, Goto, TypeOK, at, k, cur, list, boot, args,
         history
<1>2. cur \in Headers /\ cur \in Page
  BY <1>1, HeaderFacts DEF AllocInv
<1>3. TypeOK'
  <2>1. next[cursor[BSP]] \in Address
    BY <1>2, Types DEF cur
  <2> QED
    BY <2>1, BSPAssumption
       DEF AllocateNext, Goto, TypeOK, Step, list, lock, boot, args, history
<1>4. Coming' = Coming /\ Going' = Going
  BY <1>1 DEF Coming, Going
<1>5. ListInv' /\ LentInv' /\ ClaimsInv' /\ Headers' = Headers
  BY <1>1, <1>4, Walks
<1>6. BootInv'
  BY <1>1 DEF BootInv, MapDone
<1>7. cur' = Null \/ cur' \in Headers
  BY <1>1, <1>2, NextChunk
<1>8. ASSUME NEW r \in Headers, cur' = Null \/ r < cur'
      PROVE  num[r] < k
  <2>1. /\ r \in Int /\ cur \in Int /\ next[cur] \in Int /\ k \in Int
        /\ num[cur] \in Int
    BY <1>2, HeaderFacts, Types
  <2>2. r <= cur
    BY <1>1, <1>2, <1>8, <2>1, NextChunk
  <2>3. r < cur => num[r] < k
    BY <1>1 DEF AllocInv
  <2>4. num[cur] < k
    BY <1>1, <2>1
  <2> QED
    BY <2>1, <2>2, <2>3, <2>4
<1>9. AllocInv' /\ FreeInv'
  BY <1>1, <1>5, <1>7, <1>8 DEF AllocInv, FreeInv
<1> QED
  BY <1>3, <1>5, <1>6, <1>9

(* A processor gives up the lock with what it found. *)
LEMMA AllocateReleaseKeeps ==
  ASSUME MemoryInv, AllocateRelease(BSP)
  PROVE  MemoryInv'
<1> USE DEF MemoryInv
<1>1. /\ at = "allocUnlock" /\ at' = "allocReturn" /\ k' = k /\ cur' = cur
      /\ UNCHANGED <<next, prev, num, freeList, claims, lent, entry>>
  BY BSPAssumption
     DEF AllocateRelease, Goto, TypeOK, at, k, cur, list, boot, args, walk,
         history
<1>2. TypeOK'
  BY BSPAssumption
     DEF AllocateRelease, Release, Goto, TypeOK, Step, list, boot, args, walk,
         history
<1>3. Coming' = Coming /\ Going' = Going /\ EndOf(cur)' = EndOf(cur)
  BY <1>1 DEF Coming, Going, EndOf
<1>4. ListInv' /\ LentInv' /\ ClaimsInv' /\ Free' = Free
  BY <1>1, <1>3, Walks
<1>5. BootInv'
  BY <1>1, <1>4 DEF BootInv, MapDone
<1>6. AllocInv' /\ FreeInv'
  BY <1>1, <1>3, <1>4 DEF AllocInv, FreeInv
<1> QED
  BY <1>2, <1>4, <1>5, <1>6

(* A call that returns leaves its variables cleared. *)
LEMMA LeaveTypes ==
  ASSUME TypeOK, NEW from, Leave(BSP, from)
  PROVE  /\ pc' \in [CPU -> Step]
         /\ base' \in [CPU -> Address]
         /\ n' \in [CPU -> 0 .. NumPages + MaxRequest]
         /\ cursor' \in [CPU -> Address] /\ behind' \in [CPU -> Address]
<1>1. /\ 0 \in Address /\ 0 \in 0 .. NumPages + MaxRequest
      /\ "idle" \in Step
  BY SizeAssumption DEF Address, Step
<1> QED
  BY <1>1, BSPAssumption DEF TypeOK, Leave, Goto, Null

(* The list ends: there is no chunk long enough. *)
LEMMA AllocateFailKeeps ==
  ASSUME MemoryInv, AllocateFail(BSP)
  PROVE  MemoryInv'
<1> USE DEF MemoryInv
<1>1. /\ at = "allocScan" /\ at' = "idle"
      /\ UNCHANGED <<next, prev, num, freeList, claims, lent, entry>>
  BY BSPAssumption DEF AllocateFail, Leave, Goto, TypeOK, at, list, boot
<1>2. TypeOK'
  <2>1. 0 \in Address
    BY SizeAssumption DEF Address
  <2> QED
    BY <2>1, LeaveTypes DEF AllocateFail, Release, TypeOK, list, boot, Null
<1>3. Coming' = Coming /\ Going' = Going
  BY <1>1 DEF Coming, Going
<1>4. ListInv' /\ LentInv' /\ ClaimsInv' /\ Free' = Free
  BY <1>1, <1>3, Walks
<1>5. BootInv'
  BY <1>1, <1>4 DEF BootInv, MapDone
<1>6. AllocInv' /\ FreeInv'
  BY <1>1 DEF AllocInv, FreeInv
<1> QED
  BY <1>2, <1>4, <1>5, <1>6

(* The chunk gives up its last pages, which are on their way to the caller *)
(* and carry no header any more.                                           *)
LEMMA AllocateTakeKeeps ==
  ASSUME MemoryInv, AllocateTake(BSP)
  PROVE  MemoryInv'
<1> USE DEF MemoryInv
<1>1. /\ at = "allocScan" /\ at' = "allocUnlock" /\ k' = k /\ cur' = cur
      /\ cur # Null /\ num[cur] >= k
      /\ num' = [num EXCEPT ![cur] = num[cur] - k]
      /\ IF num[cur] = k THEN Unlink(cur)
         ELSE UNCHANGED <<next, prev, freeList>>
      /\ UNCHANGED <<claims, lent, entry>>
  BY BSPAssumption
     DEF AllocateTake, LongEnough, Goto, TypeOK, at, k, cur, boot, args, walk,
         history
<1>2. /\ cur \in Headers /\ cur \in Page /\ cur \in Int /\ cur > 0
      /\ num[cur] \in Int /\ num[cur] > 0 /\ claims[cur] = 0
      /\ k \in Int /\ k > 0 /\ k <= num[cur]
      /\ num[cur] - k \in 0 .. NumPages
  <2>1. cur \in Headers /\ k \in 1 .. MaxRequest
    BY <1>1 DEF AllocInv
  <2>2. cur \in Page /\ num[cur] > 0 /\ claims[cur] = 0
    BY <2>1, HeaderFacts
  <2>3. num[cur] <= NumPages
    BY <2>2 DEF TypeOK
  <2>4. k \in Int /\ k > 0 /\ cur \in Int /\ cur > 0 /\ num[cur] \in Int
    BY <2>1, <2>2, Types, SizeAssumption
  <2>5. num[cur] - k \in 0 .. NumPages
    BY <1>1, <2>3, <2>4, SizeAssumption
  <2> QED
    BY <1>1, <2>1, <2>2, <2>4, <2>5
<1>3. num \in [Page -> 0 .. NumPages] /\ next \in [Page -> Address]
      /\ prev \in [Page -> Address]
  BY DEF TypeOK
<1>4. num'[cur] = num[cur] - k /\ \A p \in Page : p # cur => num'[p] = num[p]
  BY <1>1, <1>2, <1>3
<1>5. /\ Coming = {} /\ Going = {} /\ Coming' = {} /\ Free' = Free
      /\ Going' = Run(cur + num'[cur], k)
      /\ EndOf(cur)' = cur + num'[cur]
  BY <1>1 DEF Coming, Going, EndOf, Free
<1>7. Run(cur, num[cur]) \subseteq Free
  BY <1>2, <1>5 DEF ListInv, Tiled
<1>8. \A p \in Run(cur, num[cur]) : p \in Page /\ claims[p] = 0 /\ p \in Int
  BY <1>7, Types DEF Free
<1>9. \A p \in Run(cur, num[cur]) : p # cur => num[p] = 0
  <2> SUFFICES ASSUME NEW p \in Run(cur, num[cur]), p # cur
               PROVE  num[p] = 0
    OBVIOUS
  <2>1. p \notin Headers
    BY <1>2 DEF ListInv, Tiled
  <2>2. p \in Page /\ claims[p] = 0 /\ num[p] \in Int /\ num[p] >= 0
    BY <1>8, Types
  <2> QED
    BY <1>5, <2>1, <2>2 DEF Headers
<1>10. Going' \subseteq Run(cur, num[cur])
  BY <1>2, <1>4, <1>5 DEF Run
<1>11. \A p \in Going' : p \in Page /\ claims[p] = 0 /\ num'[p] = 0
  <2> SUFFICES ASSUME NEW p \in Going'
               PROVE  p \in Page /\ claims[p] = 0 /\ num'[p] = 0
    OBVIOUS
  <2>1. p \in Page /\ claims[p] = 0 /\ (p # cur => num'[p] = 0)
    BY <1>4, <1>8, <1>9, <1>10
  <2>2. CASE p = cur
    <3>1. cur + num'[cur] <= cur
      BY <1>2, <1>4, <1>5, <2>2 DEF Run
    <3>2. num'[cur] = 0
      BY <1>2, <1>4, <3>1
    <3> QED
      BY <2>1, <2>2, <3>2
  <2> QED
    BY <2>1, <2>2
<1>12. cur + num[cur] - 1 <= NumPages
  <2>1. cur + num[cur] - 1 \in Run(cur, num[cur])
    BY <1>2 DEF Run
  <2> QED
    BY <1>8, <2>1, Types
<1>13. AllocInv' /\ FreeInv'
  <2>1. cur' \in Free'
    BY <1>1, <1>2, <1>5 DEF Free
  <2>2. EndOf(cur)' + k' - 1 <= NumPages
    BY <1>1, <1>2, <1>4, <1>5, <1>12
  <2>3. k' \in 1 .. MaxRequest
    BY <1>1 DEF AllocInv
  <2> QED
    BY <1>1, <1>11, <2>1, <2>2, <2>3 DEF AllocInv, FreeInv
<1>14. LentInv' /\ BootInv' /\ ClaimsInv'
  BY <1>1, <1>5 DEF LentInv, BootInv, ClaimsInv, MapDone, AllocInv
<1>15. TypeOK'
  <2>1. num' \in [Page -> 0 .. NumPages]
    BY <1>1, <1>2, <1>3
  <2>2. /\ next' \in [Page -> Address] /\ prev' \in [Page -> Address]
        /\ freeList' \in Address
    <3>1. next[cur] \in Address /\ prev[cur] \in Address
      BY <1>2, Types
    <3>2. CASE num[cur] = k
      BY <1>1, <1>3, <3>1, <3>2 DEF Unlink, TypeOK
    <3>3. CASE num[cur] # k
      BY <1>1, <3>3 DEF TypeOK
    <3> QED
      BY <3>2, <3>3
  <2> QED
    BY <2>1, <2>2, BSPAssumption
       DEF AllocateTake, Goto, TypeOK, Step, lock, boot, args, walk, history
<1>16. CASE num[cur] = k
  <2>1. Headers' = Headers \ {cur}
    BY <1>1, <1>2, <1>4, <1>5, <1>16 DEF Headers
  <2>2. Linked(Headers', freeList', next', prev')
    <3>1. Headers \subseteq Page /\ Linked(Headers, freeList, next, prev)
      BY HeaderFacts DEF ListInv
    <3>2. /\ next' = IF prev[cur] = 0 THEN next
                     ELSE [next EXCEPT ![prev[cur]] = next[cur]]
          /\ prev' = IF next[cur] = 0 THEN prev
                     ELSE [prev EXCEPT ![next[cur]] = prev[cur]]
          /\ freeList' = IF cur = freeList THEN next[cur] ELSE freeList
      BY <1>1, <1>16 DEF Unlink, Null
    <3>3. Linked(Headers \ {cur},
                 IF cur = freeList THEN next[cur] ELSE freeList, next', prev')
      BY <1>2, <1>3, <3>1, <3>2, LinkedRemove
    <3> QED
      BY <2>1, <3>2, <3>3
  <2>3. Going' = Run(cur, num[cur])
    BY <1>2, <1>4, <1>5, <1>16
  <2>4. ASSUME NEW p \in Headers'
        PROVE  /\ Run(p, num'[p]) \subseteq Free \ Run(cur, num[cur])
               /\ \A q \in Run(p, num'[p]) : q \in Headers' => q = p
               /\ p + num'[p] \notin Headers'
    <3>1. p \in Headers /\ p # cur /\ num'[p] = num[p]
      BY <1>4, <2>1, HeaderFacts
    <3>2. /\ Run(p, num[p]) \subseteq Free
          /\ \A q \in Run(p, num[p]) : q \in Headers => q = p
          /\ p + num[p] \notin Headers
      BY <1>5, <3>1 DEF ListInv, Tiled
    <3>3. Run(p, num[p]) \cap Run(cur, num[cur]) = {}
      BY <1>2, <1>5, <3>1, Disjoint DEF ListInv
    <3> QED
      BY <2>1, <3>1, <3>2, <3>3
  <2>5. ASSUME NEW q \in Free \ Run(cur, num[cur])
        PROVE  \E p \in Headers' : q \in Run(p, num'[p])
    <3>1. PICK p \in Headers : q \in Run(p, num[p])
      BY <1>5 DEF ListInv, Tiled
    <3>2. p # cur /\ num'[p] = num[p]
      BY <1>4, <3>1, HeaderFacts
    <3> QED
      BY <2>1, <3>1, <3>2
  <2>6. (Free \ (Coming \union Going))' = Free \ Run(cur, num[cur])
    BY <1>5, <2>3
  <2>7. ListInv'
    BY <2>2, <2>4, <2>5, <2>6 DEF ListInv, Tiled
  <2> QED
    BY <1>13, <1>14, <1>15, <2>7
<1>17. CASE num[cur] # k
  <2>1. num'[cur] > 0 /\ num'[cur] < num[cur] /\ num'[cur] \in Int
    BY <1>1, <1>2, <1>4, <1>17
  <2>2. Headers' = Headers
    BY <1>1, <1>2, <1>4, <1>5, <2>1 DEF Headers
  <2>3. Linked(Headers', freeList', next', prev')
    BY <1>1, <1>17, <2>2 DEF ListInv
  <2>4. /\ Run(cur, num'[cur]) \subseteq Run(cur, num[cur])
        /\ Run(cur, num'[cur]) \cap Going' = {}
        /\ Run(cur, num[cur]) = Run(cur, num'[cur]) \union Going'
    BY <1>2, <1>4, <1>5, <2>1 DEF Run
  <2>5. ASSUME NEW p \in Headers
        PROVE  /\ Run(p, num'[p]) \subseteq Free \ Going'
               /\ \A q \in Run(p, num'[p]) : q \in Headers => q = p
               /\ p + num'[p] \notin Headers
    <3>1. /\ Run(p, num[p]) \subseteq Free
          /\ \A q \in Run(p, num[p]) : q \in Headers => q = p
          /\ p + num[p] \notin Headers
      BY <1>5 DEF ListInv, Tiled
    <3>2. CASE p = cur
      <4>1. p + num'[p] \in Run(cur, num[cur]) /\ p + num'[p] # cur
        BY <1>2, <2>1, <3>2 DEF Run
      <4> QED
        BY <2>4, <3>1, <3>2, <4>1
    <3>3. CASE p # cur
      <4>1. num'[p] = num[p]
        BY <1>4, <3>3, HeaderFacts
      <4>2. Run(p, num[p]) \cap Run(cur, num[cur]) = {}
        BY <1>2, <1>5, <3>3, Disjoint DEF ListInv
      <4> QED
        BY <1>10, <3>1, <4>1, <4>2
    <3> QED
      BY <3>2, <3>3
  <2>6. ASSUME NEW q \in Free \ Going'
        PROVE  \E p \in Headers : q \in Run(p, num'[p])
    <3>1. PICK p \in Headers : q \in Run(p, num[p])
      BY <1>5 DEF ListInv, Tiled
    <3>2. q \in Run(p, num'[p])
      BY <1>4, <2>4, <3>1, HeaderFacts
    <3> QED
      BY <3>2
  <2>7. (Free \ (Coming \union Going))' = Free \ Going'
    BY <1>5
  <2>8. ListInv'
    BY <2>2, <2>3, <2>5, <2>6, <2>7 DEF ListInv, Tiled
  <2> QED
    BY <1>13, <1>14, <1>15, <2>8
<1> QED
  BY <1>16, <1>17

(* The pages get an owner when the call returns. *)
LEMMA AllocateReturnKeeps ==
  ASSUME MemoryInv, AllocateReturn(BSP)
  PROVE  /\ MemoryInv'
         /\ EndOf(cur) \in Page /\ k \in 1 .. MaxRequest
         /\ result' = EndOf(cur)
         /\ Run(EndOf(cur), k) \subseteq Free
         /\ Free' = Free \ Run(EndOf(cur), k)
<1> USE DEF MemoryInv
<1> DEFINE a == EndOf(cur)
<1>1. /\ at = "allocReturn" /\ at' = "idle" /\ result' = a
      /\ claims' = [p \in Page |-> claims[p] + (IF p \in Run(a, k) THEN 1 ELSE 0)]
      /\ lent' = lent \union {<<a, k>>}
      /\ UNCHANGED <<next, prev, num, freeList, entry>>
  BY BSPAssumption
     DEF AllocateReturn, Leave, Goto, Claim, TypeOK, at, k, cur, list, boot
<1>2. k \in 1 .. MaxRequest /\ k \in Int /\ k > 0
  BY <1>1, SizeAssumption DEF AllocInv
<1>3. /\ cur \in Page /\ a \in Int /\ a > 0 /\ a + k - 1 <= NumPages
      /\ a \in Page
  <2>1. cur \in Page /\ a + k - 1 <= NumPages
    BY <1>1 DEF AllocInv, Free
  <2>2. a \in Int /\ a > 0
    BY <2>1, Types DEF EndOf
  <2> QED
    BY <1>2, <2>1, <2>2, SizeAssumption DEF Page
<1> HIDE DEF a
<1>4. /\ Coming = {} /\ Going = Run(a, k) /\ Coming' = {} /\ Going' = {}
  BY <1>1 DEF Coming, Going, a
<1>5. /\ Run(a, k) \subseteq Page
      /\ \A p \in Run(a, k) : claims[p] = 0 /\ num[p] = 0
  <2>1. Run(a, k) \subseteq Page
    BY <1>2, <1>3, SizeAssumption DEF Run, Page
  <2> QED
    BY <1>1, <1>4, <2>1 DEF AllocInv
<1>6. \A p \in Page : claims'[p] = IF p \in Run(a, k) THEN 1 ELSE claims[p]
  BY <1>1, <1>5 DEF ClaimsInv
<1>7. Free' = Free \ Run(a, k) /\ Run(a, k) \subseteq Free
  BY <1>5, <1>6 DEF Free
<1>8. Headers' = Headers
  BY <1>1, <1>4, <1>5, <1>6 DEF Headers
<1>9. ListInv'
  BY <1>1, <1>4, <1>7, <1>8, ListKeeps
<1>10. ClaimsInv'
  BY <1>6 DEF ClaimsInv
<1>11. LentInv'
  <2>1. \A r \in lent : \A p \in Run(r[1], r[2]) :
          p \in Page /\ claims[p] = 1
    BY LentPages
  <2>2. \A r \in lent : Run(r[1], r[2]) \cap Run(a, k) = {}
    BY <1>5, <2>1
  <2>3. \A r \in lent : \A p \in Run(r[1], r[2]) : claims'[p] = 1
    BY <1>6, <2>1, <2>2
  <2>4. \A p \in Run(a, k) : claims'[p] = 1
    BY <1>5, <1>6
  <2>5. \A r \in lent' : /\ r[1] + r[2] - 1 <= NumPages
                         /\ \A p \in Run(r[1], r[2]) : claims'[p] = 1
    BY <1>1, <1>3, <2>3, <2>4 DEF LentInv
  <2>6. \A r, s \in lent' :
          r # s => Run(r[1], r[2]) \cap Run(s[1], s[2]) = {}
    BY <1>1, <2>2 DEF LentInv
  <2> QED
    BY <2>5, <2>6 DEF LentInv
<1>12. BootInv'
  BY <1>1 DEF BootInv, MapDone
<1>13. AllocInv' /\ FreeInv'
  BY <1>1 DEF AllocInv, FreeInv
<1>14. TypeOK'
  <2>1. claims' \in [Page -> Nat]
    BY <1>1 DEF TypeOK
  <2>2. lent' \subseteq Page \X (1 .. MaxRequest)
    BY <1>1, <1>2, <1>3 DEF TypeOK
  <2>3. result' \in Address
    BY <1>1, <1>3, SizeAssumption DEF Page, Address
  <2> QED
    BY <2>1, <2>2, <2>3, LeaveTypes
       DEF AllocateReturn, TypeOK, list, lock, boot
<1> QED
  BY <1>1, <1>2, <1>3, <1>7, <1>9, <1>10, <1>11, <1>12, <1>13, <1>14 DEF a

-----------------------------------------------------------------------------
(* freePages keeps the invariant *)

(* A range that has one owner and no free neighbour is given up. *)
LEMMA FreeCallKeeps ==
  ASSUME MemoryInv, at = "idle", NEW f \in Page, NEW m \in Page,
         f + m - 1 <= NumPages,
         \A p \in Run(f, m) : claims[p] = 1,
         \A p \in Free : p # f - 1 /\ p # f + m,
         freeList = Null \/ freeList < f,
         FreeCall(BSP, f, m)
  PROVE  /\ ClaimsInv' /\ ListInv' /\ AllocInv' /\ FreeInv'
         /\ Free' = Free \union Run(f, m)
         /\ Run(f, m) \subseteq Page \ Free
         /\ \A p \in Page \ Run(f, m) : claims'[p] = claims[p]
         /\ claims' \in [Page -> Nat] /\ pc' \in [CPU -> Step]
         /\ base' \in [CPU -> Address]
         /\ n' \in [CPU -> 0 .. NumPages + MaxRequest]
         /\ at' \in {"freeSpin", "freeHead"}
<1> USE DEF MemoryInv
<1>1. /\ at' \in {"freeSpin", "freeHead"} /\ b' = f /\ k' = m
      /\ claims' = [p \in Page |-> claims[p] - (IF p \in Run(f, m) THEN 1 ELSE 0)]
      /\ UNCHANGED <<next, prev, num, freeList>>
  BY BSPAssumption
     DEF FreeCall, TestUsingLock, Goto, Disclaim, TypeOK, at, b, k, list
<1>2. /\ f \in Int /\ m \in Int /\ f > 0 /\ m > 0 /\ m <= NumPages
      /\ Run(f, m) \subseteq Page
  <2>1. f \in Int /\ m \in Int /\ f > 0 /\ m > 0 /\ m <= NumPages
    BY SizeAssumption DEF Page
  <2> QED
    BY <2>1, SizeAssumption DEF Run, Page
<1>3. \A p \in Page : claims'[p] = IF p \in Run(f, m) THEN 0 ELSE claims[p]
  BY <1>1, <1>2 DEF ClaimsInv
<1>4. Free' = Free \union Run(f, m) /\ Run(f, m) \subseteq Page \ Free
  <2>1. \A p \in Page : claims'[p] = 0 <=> claims[p] = 0 \/ p \in Run(f, m)
    BY <1>3
  <2>2. Run(f, m) \subseteq Page \ Free
    BY <1>2 DEF Free
  <2> QED
    BY <1>2, <2>1, <2>2 DEF Free
<1>5. /\ Coming = {} /\ Going = {} /\ Going' = {} /\ Coming' = Run(f, m)
  BY <1>1 DEF Coming, Going
<1>6. Headers' = Headers
  <2>1. \A p \in Headers : p \in Page /\ p \notin Run(f, m)
    BY <1>4, HeaderFacts
  <2> QED
    BY <1>1, <1>3, <1>5, <2>1 DEF Headers
<1>7. ListInv'
  <2>1. (Free \ (Coming \union Going))' = Free \ (Coming \union Going)
    BY <1>4, <1>5
  <2> QED
    BY <1>1, <1>6, <2>1, ListKeeps
<1>8. ClaimsInv'
  BY <1>3 DEF ClaimsInv
<1>9. FreeInv'
  <2>1. \A p \in Free' : p # f - 1 /\ p # f + m
    BY <1>2, <1>4 DEF Run
  <2>2. \A p \in Run(f, m) : claims'[p] = 0
    BY <1>2, <1>3
  <2> QED
    BY <1>1, <2>1, <2>2 DEF FreeInv
<1>10. AllocInv'
  BY <1>1 DEF AllocInv
<1>11. /\ claims' \in [Page -> Nat] /\ pc' \in [CPU -> Step]
       /\ base' \in [CPU -> Address]
       /\ n' \in [CPU -> 0 .. NumPages + MaxRequest]
  <2>1. claims' \in [Page -> Nat]
    <3>1. \A p \in Page : claims'[p] \in Nat
      BY <1>3 DEF TypeOK
    <3> QED
      BY <1>1, <3>1
  <2>2. f \in Address /\ m \in 0 .. NumPages + MaxRequest
    BY <1>2, SizeAssumption DEF Page, Address
  <2> QED
    BY <2>1, <2>2, BSPAssumption
       DEF FreeCall, TestUsingLock, Goto, TypeOK, Step
<1> QED
  BY <1>1, <1>3, <1>4, <1>7, <1>8, <1>9, <1>10, <1>11

(* The entries of the memory map come in address order and usable ones do  *)
(* not touch, so nothing that is free yet is near the next one.            *)
LEMMA HandOverKeeps ==
  ASSUME MemoryInv, HandOver
  PROVE  /\ MemoryInv' /\ result' = result
         /\ \/ Free' = Free
            \/ \E f \in Page, m \in Page :
                 /\ Run(f, m) \subseteq Page \ Free
                 /\ Free' = Free \union Run(f, m)
<1> USE DEF MemoryInv
<1>1. /\ ~MapDone /\ at = "idle" /\ entry' = entry + 1 /\ lent' = lent
      /\ smp' = smp
  BY DEF HandOver, at
<1>2. /\ entry \in DOMAIN MemoryMap /\ entry \in Int /\ entry >= 1
      /\ entry' \in 1 .. Len(MemoryMap) + 1
  BY <1>1, MapAssumption DEF MapDone, TypeOK
<1>3. /\ MemoryMap[entry] \in [base : Page, n : Page, usable : BOOLEAN]
      /\ MemoryMap[entry].base + MemoryMap[entry].n - 1 <= NumPages
      /\ \A j \in 1 .. entry - 1 :
           /\ MemoryMap[j] \in [base : Page, n : Page, usable : BOOLEAN]
           /\ MemoryMap[j].base + MemoryMap[j].n <= MemoryMap[entry].base
           /\ MemoryMap[j].usable /\ MemoryMap[entry].usable =>
                MemoryMap[j].base + MemoryMap[j].n < MemoryMap[entry].base
  <2>1. \A j \in 1 .. entry - 1 : j \in DOMAIN MemoryMap
    BY <1>2, MapAssumption
  <2>2. \A j \in DOMAIN MemoryMap :
          MemoryMap[j] \in [base : Page, n : Page, usable : BOOLEAN]
    <3> DEFINE E == [base : Page, n : Page, usable : BOOLEAN]
    <3>1. MemoryMap \in Seq(E)
      BY MapAssumption
    <3> HIDE DEF E
    <3>2. \A j \in DOMAIN MemoryMap : MemoryMap[j] \in E
      BY <3>1
    <3> QED
      BY <3>2 DEF E
  <2>3. \A i \in DOMAIN MemoryMap :
          /\ MemoryMap[i].base + MemoryMap[i].n - 1 <= NumPages
          /\ \A j \in 1 .. i - 1 :
               /\ MemoryMap[j].base + MemoryMap[j].n <= MemoryMap[i].base
               /\ MemoryMap[j].usable /\ MemoryMap[i].usable =>
                    MemoryMap[j].base + MemoryMap[j].n < MemoryMap[i].base
    BY MapAssumption
  <2> QED
    BY <1>2, <2>1, <2>2, <2>3
<1>4. LentInv' /\ lent = {}
  BY <1>1 DEF BootInv, LentInv
<1>5. CASE ~MemoryMap[entry].usable
  <2>1. UNCHANGED <<next, prev, num, freeList, usingLock, held, pc, base, n,
                    cursor, behind, claims, result>>
    BY <1>5 DEF HandOver, list, lock, args, walk
  <2>2. /\ at' = at /\ b' = b /\ k' = k /\ cur' = cur /\ beh' = beh
        /\ Coming' = Coming /\ Going' = Going
    BY <1>1, <2>1 DEF at, b, k, cur, beh, Coming, Going
  <2>3. ListInv' /\ ClaimsInv' /\ Free' = Free
    BY <1>1, <2>1, <2>2, Walks
  <2>4. AllocInv' /\ FreeInv'
    BY <1>1, <2>2 DEF AllocInv, FreeInv
  <2>5. BootInv'
    BY <1>1, <1>2, <2>2, <2>3 DEF BootInv, MapDone
  <2>6. TypeOK'
    BY <1>1, <1>2, <2>1 DEF TypeOK
  <2> QED
    BY <1>4, <2>1, <2>3, <2>4, <2>5, <2>6
<1>6. CASE MemoryMap[entry].usable
  <2> DEFINE f == MemoryMap[entry].base
             m == MemoryMap[entry].n
  <2>1. FreeCall(BSP, f, m)
    BY <1>6 DEF HandOver
  <2>2. f \in Page /\ m \in Page /\ f + m - 1 <= NumPages
    BY <1>3
  <2>3. \A p \in Free : p \in Int /\ p < f - 1
    <3> SUFFICES ASSUME NEW p \in Free PROVE p \in Int /\ p < f - 1
      OBVIOUS
    <3>1. PICK j \in 1 .. entry - 1 :
            /\ MemoryMap[j].usable
            /\ p \in Run(MemoryMap[j].base, MemoryMap[j].n)
      BY <1>1 DEF BootInv
    <3>2. MemoryMap[j].base + MemoryMap[j].n < f
      BY <1>3, <1>6, <3>1
    <3>3. MemoryMap[j].base \in Page /\ MemoryMap[j].n \in Page
      BY <1>3
    <3> QED
      BY <2>2, <3>1, <3>2, <3>3, Types DEF Run
  <2>4. \A p \in Run(f, m) : claims[p] = 1
    <3> SUFFICES ASSUME NEW p \in Run(f, m) PROVE claims[p] = 1
      OBVIOUS
    <3>1. f \in Int /\ m \in Int /\ f > 0
      BY <2>2, Types
    <3>2. p \in Page /\ p >= f
      BY <2>2, <3>1, SizeAssumption DEF Run, Page
    <3>3. p \notin Free
      BY <2>3, <3>1, <3>2
    <3> QED
      BY <3>2, <3>3 DEF Free, ClaimsInv
  <2>5. \A p \in Free : p # f - 1 /\ p # f + m
    BY <2>2, <2>3, Types
  <2>6. freeList = Null \/ freeList < f
    <3>1. freeList # Null => freeList \in Free
      BY FirstChunk, HeaderFacts
    <3> QED
      BY <2>2, <2>3, <3>1, Types
  <2>7. /\ ClaimsInv' /\ ListInv' /\ AllocInv' /\ FreeInv'
        /\ Free' = Free \union Run(f, m)
        /\ Run(f, m) \subseteq Page \ Free
        /\ claims' \in [Page -> Nat] /\ pc' \in [CPU -> Step]
        /\ base' \in [CPU -> Address]
        /\ n' \in [CPU -> 0 .. NumPages + MaxRequest]
        /\ at' \in {"freeSpin", "freeHead"}
    <3> HIDE DEF f, m
    <3> QED
      BY <1>1, <2>1, <2>2, <2>4, <2>5, <2>6, FreeCallKeeps
  <2>8. BootInv'
    <3>1. \A p \in Free' : \E j \in 1 .. entry :
            /\ MemoryMap[j].usable
            /\ p \in Run(MemoryMap[j].base, MemoryMap[j].n)
      BY <1>1, <1>2, <1>6, <2>7 DEF BootInv
    <3>2. 1 .. entry' - 1 = 1 .. entry
      BY <1>1, <1>2
    <3> QED
      BY <1>1, <1>4, <2>7, <3>1, <3>2 DEF BootInv
  <2>9. TypeOK' /\ result' = result
    <3> HIDE DEF f, m
    <3> QED
      BY <1>1, <1>2, <2>1, <2>7
         DEF TypeOK, FreeCall, TestUsingLock, list, lock, walk
  <2> QED
    BY <1>4, <2>2, <2>7, <2>8, <2>9
<1> QED
  BY <1>5, <1>6

(* A range that is given back had one owner, and the policy keeps it away  *)
(* from free memory.                                                       *)
LEMMA GiveBackKeeps ==
  ASSUME OneProcessor, MemoryInv, GiveBack(BSP)
  PROVE  /\ MemoryInv' /\ result' = result
         /\ \E f \in Page, m \in Page :
              /\ Run(f, m) \subseteq Page \ Free
              /\ Free' = Free \union Run(f, m)
<1> USE DEF MemoryInv
<1>1. PICK r \in lent : /\ MayFree(r[1], r[2])
                        /\ FreeCall(BSP, r[1], r[2])
                        /\ lent' = lent \ {r}
  BY DEF GiveBack
<1>2. MapDone /\ entry' = entry /\ smp' = smp
  BY DEF GiveBack, MayCall, boot
<1>3. at = "idle"
  BY <1>1 DEF FreeCall, TestUsingLock, Goto, at
<1>4. /\ r[1] \in Page /\ r[2] \in Page /\ r[1] + r[2] - 1 <= NumPages
      /\ \A p \in Run(r[1], r[2]) : p \in Page /\ claims[p] = 1
  BY LentPages DEF LentInv
<1>5. /\ \A p \in Free : p # r[1] - 1 /\ p # r[1] + r[2]
      /\ freeList = Null \/ freeList < r[1]
  BY <1>1 DEF MayFree, Isolated, OneProcessor, Free
<1>6. /\ ClaimsInv' /\ ListInv' /\ AllocInv' /\ FreeInv'
      /\ Free' = Free \union Run(r[1], r[2])
      /\ Run(r[1], r[2]) \subseteq Page \ Free
      /\ \A p \in Page \ Run(r[1], r[2]) : claims'[p] = claims[p]
      /\ claims' \in [Page -> Nat] /\ pc' \in [CPU -> Step]
      /\ base' \in [CPU -> Address]
      /\ n' \in [CPU -> 0 .. NumPages + MaxRequest]
  BY <1>1, <1>3, <1>4, <1>5, FreeCallKeeps
<1>7. BootInv'
  BY <1>2 DEF BootInv, MapDone
<1>8. LentInv'
  <2>1. ASSUME NEW s \in lent'
        PROVE  /\ s[1] + s[2] - 1 <= NumPages
               /\ \A p \in Run(s[1], s[2]) : claims'[p] = 1
    <3>1. s \in lent /\ s # r
      BY <1>1, <2>1
    <3>2. Run(s[1], s[2]) \cap Run(r[1], r[2]) = {}
      BY <3>1 DEF LentInv
    <3>3. \A p \in Run(s[1], s[2]) : p \in Page /\ claims[p] = 1
      BY <3>1, LentPages
    <3>4. s[1] + s[2] - 1 <= NumPages
      BY <3>1 DEF LentInv
    <3> QED
      BY <1>6, <3>2, <3>3, <3>4
  <2> QED
    BY <1>1, <2>1 DEF LentInv
<1>9. TypeOK' /\ result' = result
  BY <1>1, <1>2, <1>6 DEF TypeOK, FreeCall, TestUsingLock, list, lock, walk
<1> QED
  BY <1>4, <1>6, <1>7, <1>8, <1>9

(* A processor starts to free what it was lent. *)
LEMMA FreeAcquireKeeps ==
  ASSUME MemoryInv, FreeAcquire(BSP)
  PROVE  MemoryInv'
<1> USE DEF MemoryInv
<1>1. /\ at = "freeSpin" /\ at' = "freeHead" /\ b' = b /\ k' = k
      /\ UNCHANGED <<next, prev, num, freeList, claims, lent, entry>>
  BY BSPAssumption
     DEF FreeAcquire, Acquire, Goto, TypeOK, at, b, k, list, boot, args,
         history
<1>2. TypeOK'
  BY BSPAssumption
     DEF FreeAcquire, Acquire, Goto, TypeOK, Step, list, lock, boot, args,
         walk, history
<1>3. Coming' = Coming /\ Going' = Going
  BY <1>1 DEF Coming, Going
<1>4. ListInv' /\ LentInv' /\ ClaimsInv' /\ Free' = Free
  BY <1>1, <1>3, Walks
<1>5. BootInv'
  BY <1>1, <1>4 DEF BootInv, MapDone
<1>6. AllocInv' /\ FreeInv'
  BY <1>1, <1>4 DEF AllocInv, FreeInv
<1> QED
  BY <1>2, <1>4, <1>5, <1>6

(* The header is written over memory no chunk lies in: an empty list gets  *)
(* its first chunk, another list is not touched.                           *)
LEMMA FreeHeadKeeps ==
  ASSUME MemoryInv, FreeHead(BSP)
  PROVE  MemoryInv'
<1> USE DEF MemoryInv
<1>1. /\ at = "freeHead" /\ b' = b /\ k' = k /\ cur' = freeList /\ beh' = Null
      /\ at' = IF freeList = Null THEN "freeUnlock" ELSE "freeScan"
      /\ num' = [p \in Page |-> IF p = b THEN k
                                ELSE IF p \in Run(b, k) THEN 0 ELSE num[p]]
      /\ next' = [p \in Page |-> IF p \in Run(b, k) THEN Null ELSE next[p]]
      /\ prev' = [p \in Page |-> IF p \in Run(b, k) THEN Null ELSE prev[p]]
      /\ freeList' = IF freeList = Null THEN b ELSE freeList
      /\ UNCHANGED <<claims, lent, entry>>
  BY BSPAssumption
     DEF FreeHead, TypeOK, at, b, k, cur, beh, boot, args, history
<1>2. /\ b \in Page /\ k \in Page /\ b \in Int /\ k \in Int /\ k > 0 /\ b > 0
      /\ b + k - 1 <= NumPages
      /\ \A p \in Run(b, k) : claims[p] = 0
      /\ \A p \in Free : p # b - 1 /\ p # b + k
      /\ freeList = Null \/ freeList < b
  BY <1>1, Types DEF FreeInv
<1>3. Run(b, k) \subseteq Page /\ b \in Run(b, k) /\ Run(b, k) \subseteq Free
  <2>1. Run(b, k) \subseteq Page /\ b \in Run(b, k)
    BY <1>2, SizeAssumption DEF Run, Page
  <2> QED
    BY <1>2, <2>1 DEF Free
<1>4. /\ Coming = Run(b, k) /\ Going = {} /\ Going' = {} /\ Free' = Free
      /\ Coming' = IF freeList = Null THEN {} ELSE Run(b, k)
  BY <1>1 DEF Coming, Going, Free
<1>5. /\ num'[b] = k /\ next'[b] = 0 /\ prev'[b] = 0
      /\ \A p \in Run(b, k) : p # b => num'[p] = 0
      /\ \A p \in Page \ Run(b, k) :
           num'[p] = num[p] /\ next'[p] = next[p] /\ prev'[p] = prev[p]
  BY <1>1, <1>2, <1>3 DEF Null
<1>6. TypeOK'
  <2>1. /\ num' \in [Page -> 0 .. NumPages]
        /\ next' \in [Page -> Address] /\ prev' \in [Page -> Address]
        /\ freeList' \in Address
    <3>1. k \in 0 .. NumPages /\ 0 \in Address /\ b \in Address
          /\ 0 \in 0 .. NumPages
      BY <1>2, SizeAssumption DEF Page, Address
    <3>2. num \in [Page -> 0 .. NumPages] /\ next \in [Page -> Address]
          /\ prev \in [Page -> Address] /\ freeList \in Address
      BY DEF TypeOK
    <3> QED
      BY <1>1, <3>1, <3>2 DEF Null
  <2>2. 0 \in Address /\ freeList \in Address
    BY SizeAssumption DEF Address, TypeOK
  <2>3. pc' \in [CPU -> Step]
    BY BSPAssumption DEF FreeHead, TypeOK, Step
  <2>4. cursor' \in [CPU -> Address] /\ behind' \in [CPU -> Address]
    BY <2>2, BSPAssumption DEF FreeHead, TypeOK, Null
  <2> QED
    BY <2>1, <2>3, <2>4 DEF FreeHead, TypeOK, lock, boot, args, history
<1>7. ClaimsInv' /\ LentInv' /\ BootInv'
  BY <1>1, <1>4 DEF ClaimsInv, LentInv, BootInv, MapDone
<1>8. CASE freeList = Null
  <2>1. Headers = {}
    BY <1>8, FirstChunk
  <2>2. Free = Run(b, k)
    BY <1>3, <1>4, <2>1 DEF ListInv, Tiled
  <2>3. Headers' = {b}
    <3>1. \A p \in Headers' : p \in Run(b, k) /\ num'[p] > 0
      BY <1>1, <1>4, <2>2 DEF Headers, Free
    <3>2. b \in Headers'
      BY <1>1, <1>2, <1>3, <1>4, <1>5, <1>8 DEF Headers
    <3> QED
      BY <1>5, <3>1, <3>2
  <2>4. Linked({b}, b, next', prev')
    BY <1>2, <1>5 DEF Linked, Up, Down
  <2>5. Tiled({b}, num', Free)
    BY <1>2, <1>3, <1>5, <2>2 DEF Tiled
  <2>6. ListInv'
    BY <1>1, <1>4, <1>8, <2>3, <2>4, <2>5 DEF ListInv
  <2>7. AllocInv' /\ FreeInv'
    BY <1>1, <1>8 DEF AllocInv, FreeInv
  <2> QED
    BY <1>6, <1>7, <2>6, <2>7
<1>9. CASE freeList # Null
  <2>1. Headers' = Headers
    BY <1>1, <1>4, <1>5, <1>9 DEF Headers
  <2>2. \A p \in Headers : p \in Page \ Run(b, k)
    BY <1>4, HeaderFacts
  <2>3. ListInv'
    <3>1. (Free \ (Coming \union Going))' = Free \ (Coming \union Going)
      BY <1>4, <1>9
    <3>2. freeList' = freeList
      BY <1>1, <1>9
    <3> QED
      BY <1>5, <2>1, <2>2, <3>1, <3>2, ListKeeps
  <2>4. AllocInv'
    BY <1>1, <1>9 DEF AllocInv
  <2>5. FreeInv'
    BY <1>1, <1>2, <1>4, <1>5, <1>9 DEF FreeInv
  <2> QED
    BY <1>6, <1>7, <2>3, <2>4, <2>5
<1> QED
  BY <1>8, <1>9

(* Where the search of freePages is. *)
LEMMA FreeScanFacts ==
  ASSUME MemoryInv, at = "freeScan"
  PROVE  /\ b \in Page /\ k \in Page /\ b \in Int /\ k \in Int /\ k > 0 /\ b > 0
         /\ b + k - 1 <= NumPages
         /\ \A p \in Free : p # b - 1 /\ p # b + k
         /\ Coming = Run(b, k) /\ Going = {}
         /\ Run(b, k) \subseteq Free /\ b \in Run(b, k)
         /\ num[b] = k
         /\ cur \in Int /\ (cur # Null => cur \in Headers /\ cur # b)
         /\ cur # Null /\ cur > b => beh # Null
         /\ cur = Null => beh # Null
         /\ beh # Null => beh \in Headers /\ beh < b /\ cur = next[beh]
<1> USE DEF MemoryInv
<1>1. /\ b \in Page /\ k \in Page /\ b + k - 1 <= NumPages
      /\ \A p \in Run(b, k) : claims[p] = 0
      /\ \A p \in Free : p # b - 1 /\ p # b + k
      /\ freeList < b /\ freeList # Null
      /\ num[b] = k
      /\ beh = Null => cur = freeList
      /\ beh # Null => beh \in Headers /\ beh < b /\ cur = next[beh]
  BY DEF FreeInv
<1>2. b \in Int /\ k \in Int /\ k > 0 /\ b > 0 /\ cur \in Int
  BY <1>1, Types
<1>3. Coming = Run(b, k) /\ Going = {}
  BY DEF Coming, Going
<1>4. Run(b, k) \subseteq Free /\ b \in Run(b, k)
  <2>1. Run(b, k) \subseteq Page /\ b \in Run(b, k)
    BY <1>1, <1>2, SizeAssumption DEF Run, Page
  <2> QED
    BY <1>1, <2>1 DEF Free
<1>5. cur # Null => cur \in Headers
  BY <1>1, FirstChunk, NextChunk
<1>6. cur # Null => cur # b
  BY <1>3, <1>4, <1>5, HeaderFacts
<1>7. beh = Null => cur # Null /\ ~(cur > b)
  BY <1>1, <1>2
<1> QED
  BY <1>1, <1>2, <1>3, <1>4, <1>5, <1>6, <1>7

(* The walk for the place of a freed range goes on. *)
LEMMA FreeNextKeeps ==
  ASSUME MemoryInv, FreeNext(BSP)
  PROVE  MemoryInv'
<1> USE DEF MemoryInv
<1>1. /\ at = "freeScan" /\ at' = "freeScan" /\ b' = b /\ k' = k
      /\ cur # Null /\ cur <= b /\ beh' = cur /\ cur' = next[cur]
      /\ UNCHANGED <<next, prev, num, freeList, claims, lent, entry>>
  BY BSPAssumption
     DEF FreeNext, Following, Goto, TypeOK, at, b, k, cur, beh, list, boot,
         args, history
<1>2. cur \in Headers /\ cur < b /\ cur \in Page
  BY <1>1, FreeScanFacts, HeaderFacts
<1>3. TypeOK'
  <2>1. next[cursor[BSP]] \in Address /\ cursor[BSP] \in Address
    BY <1>2, Types DEF cur
  <2> QED
    BY <2>1, BSPAssumption
       DEF FreeNext, Following, Goto, TypeOK, Step, list, lock, boot, args,
           history
<1>4. Coming' = Coming /\ Going' = Going
  BY <1>1 DEF Coming, Going
<1>5. /\ ListInv' /\ LentInv' /\ ClaimsInv'
      /\ Free' = Free /\ Headers' = Headers
  BY <1>1, <1>4, Walks
<1>6. BootInv'
  BY <1>1, <1>5 DEF BootInv, MapDone
<1>7. AllocInv' /\ FreeInv'
  BY <1>1, <1>2, <1>5 DEF AllocInv, FreeInv
<1> QED
  BY <1>3, <1>5, <1>6, <1>7

(* The range is linked in behind a chunk it does not touch: nothing is     *)
(* merged.                                                                 *)
LEMMA FreeLinkKeeps ==
  ASSUME MemoryInv, FreeLink(BSP)
  PROVE  MemoryInv'
<1> USE DEF MemoryInv
<1>1. /\ at = "freeScan" /\ at' = "freeUnlock" /\ b' = b /\ k' = k
      /\ cur' = cur /\ beh' = beh
      /\ cur = Null \/ cur > b
      /\ UNCHANGED <<freeList, claims, lent, entry>>
  BY BSPAssumption
     DEF FreeLink, Goto, TypeOK, at, b, k, cur, beh, boot, args, walk, history
<1>2. /\ b \in Page /\ k \in Page /\ b \in Int /\ k \in Int /\ k > 0 /\ b > 0
      /\ \A p \in Free : p # b - 1 /\ p # b + k
      /\ Coming = Run(b, k) /\ Going = {}
      /\ Run(b, k) \subseteq Free /\ b \in Run(b, k) /\ num[b] = k
      /\ beh \in Headers /\ beh < b /\ cur = next[beh] /\ beh # Null
      /\ cur # Null => cur \in Headers /\ cur # b
  BY <1>1, FreeScanFacts
<1>3. /\ beh \in Page /\ beh \in Int /\ num[beh] \in Int /\ num[beh] > 0
      /\ cur \in Address /\ cur \in Int
  BY <1>2, HeaderFacts, Types
<1>4. ~(cur # Null /\ b + k = cur)
  BY <1>2, HeaderFacts
<1>5. \A p \in Headers : p + num[p] # b
  <2> SUFFICES ASSUME NEW p \in Headers, p + num[p] = b PROVE FALSE
    OBVIOUS
  <2>1. p \in Int /\ num[p] \in Int /\ num[p] > 0
    BY HeaderFacts, Types
  <2>2. b - 1 \in Run(p, num[p])
    BY <2>1 DEF Run
  <2>3. b - 1 \in Free
    BY <2>2 DEF ListInv, Tiled
  <2> QED
    BY <1>2, <2>3
<1>6. /\ num' = num
      /\ next' = Store([next EXCEPT ![b] = cur], beh, b)
      /\ prev' = [Store(prev, cur, b) EXCEPT ![b] = beh]
  <2>1. base[BSP] = b /\ n[BSP] = k /\ cursor[BSP] = cur /\ behind[BSP] = beh
    BY DEF b, k, cur, beh
  <2> HIDE DEF MemoryInv
  <2> QED
    BY <1>2, <1>4, <1>5, <2>1 DEF FreeLink, BackLink
<1>7. next \in [Page -> Address] /\ prev \in [Page -> Address]
  BY DEF TypeOK
<1>8. /\ next' = [next EXCEPT ![b] = next[beh], ![beh] = b]
      /\ prev' = [(IF next[beh] = 0 THEN prev
                   ELSE [prev EXCEPT ![next[beh]] = b]) EXCEPT ![b] = beh]
  BY <1>2, <1>6 DEF Store, Null
<1>9. /\ Coming' = {} /\ Going' = {} /\ Free' = Free
  BY <1>1 DEF Coming, Going, Free
<1>10. Headers' = Headers \union {b}
  <2>1. \A p \in Run(b, k) : p # b => ~(num[p] > 0)
    BY <1>1 DEF FreeInv
  <2>2. Headers' = {p \in Page : claims[p] = 0 /\ num[p] > 0}
    BY <1>1, <1>6, <1>9 DEF Headers
  <2>3. claims[b] = 0
    BY <1>2 DEF Free
  <2> QED
    BY <1>2, <2>1, <2>2, <2>3 DEF Headers
<1>11. Linked(Headers \union {b}, freeList, next', prev')
  <2>1. Headers \subseteq Page /\ Linked(Headers, freeList, next, prev)
    BY HeaderFacts DEF ListInv
  <2>2. b \notin Headers
    BY <1>2, HeaderFacts
  <2>3. next[beh] = 0 \/ b < next[beh]
    BY <1>1, <1>2, <1>3 DEF Null
  <2> QED
    BY <1>2, <1>7, <1>8, <2>1, <2>2, <2>3, LinkedInsert
<1>12. Tiled(Headers \union {b}, num, Free)
  <2>1. ASSUME NEW p \in Headers
        PROVE  /\ Run(p, num[p]) \subseteq Free
               /\ \A q \in Run(p, num[p]) : q \in Headers \union {b} => q = p
               /\ p + num[p] \notin Headers \union {b}
    BY <1>2, <1>5 DEF ListInv, Tiled
  <2>2. /\ \A q \in Run(b, num[b]) : q \in Headers \union {b} => q = b
        /\ b + num[b] \notin Headers \union {b}
    BY <1>2, HeaderFacts
  <2>3. \A q \in Free : \E p \in Headers \union {b} : q \in Run(p, num[p])
    BY <1>2 DEF ListInv, Tiled
  <2> QED
    BY <1>2, <2>1, <2>2, <2>3 DEF Tiled
<1>13. ListInv'
  BY <1>1, <1>6, <1>9, <1>10, <1>11, <1>12 DEF ListInv
<1>14. AllocInv' /\ FreeInv' /\ ClaimsInv' /\ LentInv' /\ BootInv'
  BY <1>1, <1>9 DEF AllocInv, FreeInv, ClaimsInv, LentInv, BootInv, MapDone
<1>15. TypeOK'
  <2>1. b \in Address /\ beh \in Address
    BY <1>2, Types DEF Page, Address
  <2>2. next' \in [Page -> Address] /\ prev' \in [Page -> Address]
    BY <1>3, <1>6, <1>7, <2>1 DEF Store
  <2> QED
    BY <1>6, <2>2, BSPAssumption
       DEF FreeLink, Goto, TypeOK, Step, lock, boot, args, walk, history
<1> QED
  BY <1>13, <1>14, <1>15

(* A processor gives up the lock when the range is in the list. *)
LEMMA FreeReleaseKeeps ==
  ASSUME MemoryInv, FreeRelease(BSP)
  PROVE  MemoryInv'
<1> USE DEF MemoryInv
<1>1. /\ at = "freeUnlock" /\ at' = "idle"
      /\ UNCHANGED <<next, prev, num, freeList, claims, lent, entry>>
  BY BSPAssumption
     DEF FreeRelease, Leave, Goto, TypeOK, at, list, boot, history
<1>2. TypeOK'
  BY LeaveTypes DEF FreeRelease, Release, TypeOK, list, boot, history
<1>3. Coming' = Coming /\ Going' = Going
  BY <1>1 DEF Coming, Going
<1>4. ListInv' /\ LentInv' /\ ClaimsInv' /\ Free' = Free
  BY <1>1, <1>3, Walks
<1>5. BootInv'
  BY <1>1, <1>4 DEF BootInv, MapDone
<1>6. AllocInv' /\ FreeInv'
  BY <1>1 DEF AllocInv, FreeInv
<1> QED
  BY <1>2, <1>4, <1>5, <1>6

-----------------------------------------------------------------------------
(* The other steps *)

(* From here on the lock is really taken. *)
LEMMA LockInUseKeeps ==
  ASSUME MemoryInv, thereIsNowMoreThanOneProcessor
  PROVE  MemoryInv'
<1> USE DEF MemoryInv
<1>1. /\ at = "idle" /\ at' = "idle"
      /\ UNCHANGED <<next, prev, num, freeList, claims, lent, entry>>
  BY DEF thereIsNowMoreThanOneProcessor, at, list, history
<1>2. TypeOK'
  BY DEF thereIsNowMoreThanOneProcessor, TypeOK, list, args, walk, history
<1>3. Coming' = Coming /\ Going' = Going
  BY <1>1 DEF Coming, Going
<1>4. ListInv' /\ LentInv' /\ ClaimsInv' /\ Free' = Free
  BY <1>1, <1>3, Walks
<1>5. BootInv'
  BY <1>1, <1>4 DEF BootInv, MapDone
<1>6. AllocInv' /\ FreeInv'
  BY <1>1 DEF AllocInv, FreeInv
<1> QED
  BY <1>2, <1>4, <1>5, <1>6

(* What a caller writes into its pages no chunk's header lies in. *)
LEMMA ScribbleKeeps ==
  ASSUME MemoryInv, NEW w \in Page, NEW v \in Junk, Scribble(w, v)
  PROVE  MemoryInv'
<1> USE DEF MemoryInv
<1>1. /\ next' = [next EXCEPT ![w] = v] /\ prev' = [prev EXCEPT ![w] = v]
      /\ num' = [num EXCEPT ![w] = v]
      /\ UNCHANGED <<freeList, usingLock, held, entry, smp, pc, base, n, cursor,
                     behind, claims, lent, result>>
  BY DEF Scribble, lock, boot, args, walk, history
<1>2. claims[w] = 1
  BY LentPages DEF Scribble
<1>3. /\ at' = at /\ b' = b /\ k' = k /\ cur' = cur /\ beh' = beh
      /\ Free' = Free /\ Coming' = Coming
  BY <1>1 DEF at, b, k, cur, beh, Free, Coming
<1>4. \A p \in Free : /\ p \in Page
                      /\ next'[p] = next[p] /\ prev'[p] = prev[p]
                      /\ num'[p] = num[p]
  BY <1>1, <1>2 DEF Free, TypeOK
<1>5. Headers' = Headers
  BY <1>1, <1>3, <1>4 DEF Headers, Free
<1>6. EndOf(cur)' = EndOf(cur) \/ at \notin {"allocUnlock", "allocReturn"}
  BY <1>3, <1>4 DEF AllocInv, EndOf
<1>7. Going' = Going
  BY <1>3, <1>6 DEF Going
<1>8. ListInv'
  BY <1>1, <1>3, <1>4, <1>5, <1>7, HeaderFacts, ListKeeps
<1>9. ClaimsInv' /\ LentInv' /\ BootInv'
  BY <1>1, <1>3 DEF ClaimsInv, LentInv, BootInv, MapDone
<1>10. AllocInv'
  <2>1. ASSUME at \in {"allocUnlock", "allocReturn"}, NEW p \in Going
        PROVE  claims[p] = 0 /\ num'[p] = 0
    <3>1. claims[p] = 0 /\ num[p] = 0
      BY <2>1 DEF AllocInv
    <3>2. p \in Page
      BY <2>1, GoingPages
    <3> QED
      BY <1>4, <3>1, <3>2 DEF Free
  <2>2. \A r \in Headers : num'[r] = num[r]
    BY <1>4, HeaderFacts
  <2> QED
    BY <1>1, <1>3, <1>5, <1>6, <1>7, <2>1, <2>2 DEF AllocInv
<1>11. FreeInv'
  <2>1. ASSUME at = "freeScan"
        PROVE  /\ num'[b] = k /\ \A p \in Run(b, k) : p # b => num'[p] = 0
               /\ beh # Null => next'[beh] = next[beh]
    <3>1. Run(b, k) \subseteq Free /\ b \in Run(b, k) /\ num[b] = k
      BY <2>1, FreeScanFacts
    <3>2. beh # Null => beh \in Free
      BY <2>1, FreeScanFacts, HeaderFacts
    <3> QED
      BY <1>4, <2>1, <3>1, <3>2 DEF FreeInv
  <2> QED
    BY <1>1, <1>3, <1>5, <2>1 DEF FreeInv
<1>12. TypeOK'
  <2>1. v \in Address /\ v \in 0 .. NumPages
    BY JunkAssumption DEF Address
  <2> QED
    BY <1>1, <2>1 DEF TypeOK
<1> QED
  BY <1>8, <1>9, <1>10, <1>11, <1>12

(* All memory belongs to the firmware and the list is empty. *)
LEMMA InitHolds ==
  ASSUME Init
  PROVE  MemoryInv
<1>1. 0 \in Address /\ 0 \in 0 .. NumPages /\ 0 \in 0 .. NumPages + MaxRequest
  BY SizeAssumption DEF Address
<1>2. TypeOK
  <2>1. 1 \in 1 .. Len(MemoryMap) + 1
    BY MapAssumption
  <2> QED
    BY <1>1, <2>1 DEF Init, TypeOK, Step, Null
<1>3. at = "idle" /\ Coming = {} /\ Going = {} /\ Free = {} /\ Headers = {}
  BY BSPAssumption DEF Init, at, Coming, Going, Free, Headers
<1>4. ListInv
  BY <1>3 DEF Init, ListInv, Linked, Tiled, Up, Null
<1>5. ClaimsInv /\ LentInv
  BY DEF Init, ClaimsInv, LentInv
<1>6. BootInv
  BY <1>3 DEF Init, BootInv
<1>7. AllocInv /\ FreeInv
  BY <1>3 DEF AllocInv, FreeInv
<1> QED
  BY <1>2, <1>4, <1>5, <1>6, <1>7 DEF MemoryInv

(* A state that differs in nothing keeps the invariant. *)
LEMMA StutterKeeps ==
  ASSUME MemoryInv, UNCHANGED vars
  PROVE  MemoryInv' /\ Free' = Free /\ result' = result
<1>1. UNCHANGED <<next, prev, num, freeList, usingLock, held, entry, smp, pc,
                  base, n, cursor, behind, claims, lent, result>>
  BY DEF vars, list, lock, boot, args, walk, history
<1>2. /\ at' = at /\ b' = b /\ k' = k /\ cur' = cur /\ beh' = beh
      /\ EndOf(cur)' = EndOf(cur)
  BY <1>1 DEF at, b, k, cur, beh, EndOf
<1>3. Coming' = Coming /\ Going' = Going
  BY <1>2 DEF Coming, Going
<1>4. /\ ListInv' /\ LentInv' /\ ClaimsInv'
      /\ Free' = Free /\ Headers' = Headers
  BY <1>1, <1>3, Walks
<1>5. TypeOK' /\ BootInv'
  BY <1>1, <1>2, <1>4 DEF TypeOK, BootInv, MapDone, MemoryInv
<1>6. AllocInv' /\ FreeInv'
  BY <1>1, <1>2, <1>3, <1>4 DEF AllocInv, FreeInv, MemoryInv
<1> QED
  BY <1>1, <1>4, <1>5, <1>6 DEF MemoryInv

(* Every step keeps the invariant. *)
LEMMA NextKeeps ==
  ASSUME OneProcessor, MemoryInv, [Next]_vars
  PROVE  MemoryInv'
<1>1. CASE HandOver
  BY <1>1, HandOverKeeps
<1>2. CASE thereIsNowMoreThanOneProcessor
  BY <1>2, LockInUseKeeps
<1>3. ASSUME NEW w \in Page, NEW v \in Junk, Scribble(w, v) PROVE MemoryInv'
  BY <1>3, ScribbleKeeps
<1>4. ASSUME NEW m \in 1 .. MaxRequest, AllocateCall(BSP, m) PROVE MemoryInv'
  BY <1>4, AllocateCallKeeps
<1>5. CASE GiveBack(BSP)
  BY <1>5, GiveBackKeeps
<1>6. CASE InCall(BSP)
  BY <1>6, AllocateAcquireKeeps, AllocateHeadKeeps, AllocateNextKeeps,
     AllocateTakeKeeps, AllocateReleaseKeeps, AllocateReturnKeeps,
     AllocateFailKeeps, FreeAcquireKeeps, FreeHeadKeeps, FreeNextKeeps,
     FreeLinkKeeps, FreeReleaseKeeps DEF InCall
<1>7. CASE UNCHANGED vars
  BY <1>7, StutterKeeps
<1> QED
  BY <1>1, <1>2, <1>3, <1>4, <1>5, <1>6, <1>7 DEF Next, OneProcessor

-----------------------------------------------------------------------------
(* The theorems *)

(* The list of PhysicalMemoryManagement.cpp and the owners of the pages    *)
(* agree at every moment of allocatePages and freePages: MemoryInv holds.  *)
THEOREM Invariance == ASSUME OneProcessor PROVE Spec => []MemoryInv
<1>1. Init => MemoryInv
  BY InitHolds
<1>2. MemoryInv /\ [Next]_vars => MemoryInv'
  BY NextKeeps
<1> QED
  BY <1>1, <1>2, PTL DEF Spec

(* The variables keep their types: in particular no address allocatePages  *)
(* returns and no length it computes lies outside memory.                  *)
THEOREM TypeCorrect == ASSUME OneProcessor PROVE Spec => []TypeOK
<1>1. MemoryInv => TypeOK
  BY DEF MemoryInv
<1> QED
  BY <1>1, Invariance, PTL

(* allocatePages never hands out a page that a caller holds, for any       *)
(* memory map and any sequence of calls.                                   *)
THEOREM LentOnce == ASSUME OneProcessor PROVE Spec => []NoDoubleAllocation
<1>1. MemoryInv => NoDoubleAllocation
  BY DEF MemoryInv, ClaimsInv, NoDoubleAllocation
<1> QED
  BY <1>1, Invariance, PTL

(* The free list of allocatePages and freePages is in address order,       *)
(* linked in both directions, and covers exactly the free memory.          *)
THEOREM ListRight == ASSUME OneProcessor PROVE Spec => []ListWellFormed
<1>1. MemoryInv => ListWellFormed
  <2> SUFFICES ASSUME MemoryInv PROVE ListWellFormed
    OBVIOUS
  <2> USE DEF MemoryInv
  <2>1. Entering = Coming /\ Leaving = Going /\ Chunks = Headers
    BY Alone
  <2>2. Above(0, freeList)
    BY <2>1 DEF ListInv, Linked, Up, Above, Null
  <2>3. ASSUME NEW p \in Chunks
        PROVE  /\ Above(p, next[p]) /\ Below(p, prev[p])
               /\ p + num[p] - 1 <= NumPages
               /\ \A q \in Run(p, num[p]) :
                    claims[q] = 0 /\ (q \in Chunks => q = p)
               /\ p + num[p] \notin Chunks
    <3>1. Above(p, next[p]) /\ Below(p, prev[p])
      BY <2>1, <2>3 DEF ListInv, Linked, Up, Down, Above, Below, Null
    <3>2. /\ Run(p, num[p]) \subseteq Free
          /\ \A q \in Run(p, num[p]) : q \in Headers => q = p
          /\ p + num[p] \notin Headers
      BY <2>1, <2>3 DEF ListInv, Tiled
    <3>3. p \in Int /\ num[p] \in Int /\ num[p] > 0
      BY <2>1, <2>3, HeaderFacts, Types
    <3>4. p + num[p] - 1 \in Run(p, num[p])
      BY <3>3 DEF Run
    <3>5. p + num[p] - 1 <= NumPages
      BY <3>2, <3>4, Types DEF Free
    <3> QED
      BY <2>1, <3>1, <3>2, <3>5 DEF Free
  <2>4. \A q \in Page : claims[q] = 0 /\ q \notin Entering \union Leaving =>
          \E p \in Chunks : q \in Run(p, num[p])
    BY <2>1 DEF ListInv, Tiled, Free
  <2> QED
    BY <2>2, <2>3, <2>4 DEF ListWellFormed
<1> QED
  BY <1>1, Invariance, PTL

(* When the search has passed every chunk, no run of free pages is as long *)
(* as the request: a run in two chunks would need them to touch.           *)
LEMMA NothingToLend ==
  ASSUME MemoryInv, at = "allocScan", cur = Null, NEW f \in Page,
         Run(f, k) \subseteq Free
  PROVE  FALSE
<1> USE DEF MemoryInv
<1>1. k \in Int /\ k > 0 /\ f \in Int
  BY Types, SizeAssumption DEF AllocInv
<1>2. Tiled(Headers, num, Free)
  <2>1. Coming = {} /\ Going = {}
    BY DEF Coming, Going
  <2> QED
    BY <2>1 DEF ListInv
<1>3. f \in Free
  BY <1>1 DEF Run
<1>4. PICK p \in Headers : f \in Run(p, num[p])
  BY <1>2, <1>3 DEF Tiled
<1>5. p \in Int /\ num[p] \in Int /\ num[p] > 0 /\ num[p] < k
  BY HeaderFacts, Types DEF AllocInv
<1> DEFINE x == p + num[p]
<1>6. x \in Run(f, k) /\ x \in Int /\ x \in Free
  <2>1. x \in Run(f, k)
    BY <1>1, <1>4, <1>5 DEF Run
  <2> QED
    BY <1>5, <2>1
<1>7. PICK q \in Headers : x \in Run(q, num[q])
  BY <1>2, <1>6 DEF Tiled
<1>8. q \in Int /\ num[q] \in Int
  BY HeaderFacts, Types
<1>9. q # x
  BY <1>2 DEF Tiled
<1>10. q # p
  BY <1>5, <1>7 DEF Run
<1>11. q \in Run(p, num[p]) \/ p \in Run(q, num[q])
  BY <1>5, <1>7, <1>8, <1>9 DEF Run
<1> QED
  BY <1>2, <1>10, <1>11 DEF Tiled

(* The request of the one processor is the argument of the call it is in. *)
InAllocate == {"allocSpin", "allocHead", "allocScan", "allocUnlock", "allocReturn"}

LEMMA OneRequest ==
  ASSUME OneProcessor
  PROVE  /\ Wanted = [c \in CPU |-> IF at \in InAllocate THEN k ELSE 0]
         /\ Wanted' = [c \in CPU |-> IF at' \in InAllocate THEN k' ELSE 0]
BY DEF OneProcessor, Wanted, at, k, InAllocate

(* Every step is a step of PageAllocator or changes nothing it sees. *)
LEMMA StepImplements ==
  ASSUME OneProcessor, MemoryInv, [Next]_vars
  PROVE  [Allocator!Next]_<<Free, Wanted, result>>
<1> USE DEF InAllocate
<1>0. BSP \in CPU /\ pc \in [CPU -> Step] /\ n \in [CPU -> Int]
  BY BSPAssumption, SizeAssumption DEF MemoryInv, TypeOK
<1> DEFINE Done == Free' = Free /\ Wanted' = Wanted /\ result' = result
<1>1. ASSUME NEW f \in Page, NEW m \in Page,
             Run(f, m) \subseteq Page \ Free, Free' = Free \union Run(f, m),
             Wanted' = Wanted, result' = result
      PROVE  Allocator!Next
  <2> DEFINE l == f + m - 1
  <2>1. f \in Int /\ m \in Int /\ m > 0 /\ l \in Int /\ Run(f, m) = f .. l
    BY SizeAssumption DEF Page, Run
  <2>2. f <= l /\ l \in Run(f, m)
    BY <2>1
  <2>3. l \in Page
    BY <1>1, <2>2
  <2> HIDE DEF l
  <2>4. Allocator!Return
    BY <1>1, <2>1, <2>2, <2>3 DEF Allocator!Return, Free
  <2> QED
    BY <2>4 DEF Allocator!Next
<1>2. CASE HandOver
  <2>1. at = "idle" /\ at' \notin InAllocate
    BY <1>2, <1>0 DEF HandOver, FreeCall, TestUsingLock, Goto, at
  <2>2. Wanted' = Wanted
    BY <2>1, OneRequest
  <2> QED
    BY <1>1, <1>2, <2>2, HandOverKeeps
<1>3. CASE GiveBack(BSP)
  <2>1. at = "idle" /\ at' \notin InAllocate
    BY <1>3, <1>0 DEF GiveBack, FreeCall, TestUsingLock, Goto, at
  <2>2. Wanted' = Wanted
    BY <2>1, OneRequest
  <2> QED
    BY <1>1, <1>3, <2>2, GiveBackKeeps
<1>4. CASE AllocateReturn(BSP)
  <2>1. /\ EndOf(cur) \in Page /\ k \in 1 .. MaxRequest
        /\ result' = EndOf(cur)
        /\ Run(EndOf(cur), k) \subseteq Free
        /\ Free' = Free \ Run(EndOf(cur), k)
    BY <1>4, AllocateReturnKeeps
  <2>2. at = "allocReturn" /\ at' = "idle"
    BY <1>4, <1>0 DEF AllocateReturn, Leave, Goto, at
  <2>3. Allocator!Answer(BSP) /\ Wanted[BSP] = k
    BY <2>1, <2>2, OneRequest DEF Allocator!Answer, OneProcessor
  <2>4. Allocator!Lend(BSP)
    BY <2>1, <2>3 DEF Allocator!Lend, Allocator!Run, Run, Free
  <2> QED
    BY <2>4 DEF Allocator!Next, OneProcessor
<1>5. CASE AllocateFail(BSP)
  <2>1. /\ at = "allocScan" /\ at' = "idle"
        /\ cur = Null /\ result' = 0 /\ Free' = Free
    BY <1>5, <1>0 DEF AllocateFail, Leave, Goto, at, cur, Free, Null
  <2>2. k \in 1 .. MaxRequest
    BY <2>1 DEF MemoryInv, AllocInv
  <2>3. ~ \E f \in Page : Run(f, k) \subseteq Free
    BY <2>1, NothingToLend
  <2>4. Allocator!Answer(BSP) /\ Wanted[BSP] = k
    BY <2>1, <2>2, OneRequest DEF Allocator!Answer, OneProcessor
  <2>5. Allocator!Refuse(BSP)
    BY <2>1, <2>3, <2>4 DEF Allocator!Refuse, Allocator!Run, Run, Free
  <2> QED
    BY <2>5 DEF Allocator!Next, OneProcessor
<1>6. ASSUME NEW w \in Page, NEW v \in Junk, Scribble(w, v) PROVE Done
  BY <1>6 DEF Scribble, history, args, Free, Wanted
<1>7. ASSUME NEW m \in 1 .. MaxRequest, AllocateCall(BSP, m) PROVE Allocator!Next
  <2>1. /\ at = "idle" /\ at' \in InAllocate /\ k' = m
        /\ Free' = Free /\ result' = result
    BY <1>7, <1>0
       DEF AllocateCall, TestUsingLock, Goto, at, k, history, Free
  <2>2. Allocator!Request(BSP, m)
    BY <2>1, OneRequest DEF Allocator!Request, OneProcessor, Free
  <2> QED
    BY <2>2 DEF Allocator!Next, OneProcessor
<1>8. CASE thereIsNowMoreThanOneProcessor
  BY <1>8 DEF thereIsNowMoreThanOneProcessor, history, args, Free, Wanted
<1>9. CASE AllocateAcquire(BSP) \/ FreeAcquire(BSP)
  <2>1. /\ at \in InAllocate <=> at' \in InAllocate
        /\ k' = k /\ Free' = Free /\ result' = result
    BY <1>9, <1>0 DEF AllocateAcquire, FreeAcquire, Acquire, Goto, MemoryInv, TypeOK,
                       at, k, args, history, Free
  <2> QED
    BY <2>1, OneRequest
<1>10. CASE AllocateHead(BSP) \/ AllocateNext(BSP) \/ AllocateTake(BSP)
              \/ AllocateRelease(BSP)
  <2>1. /\ at \in InAllocate /\ at' \in InAllocate
        /\ k' = k /\ Free' = Free /\ result' = result
    BY <1>10, <1>0 DEF AllocateHead, AllocateNext, AllocateTake, AllocateRelease, Goto,
                        at, k, args, history, Free
  <2> QED
    BY <2>1, OneRequest
<1>11. CASE FreeHead(BSP) \/ FreeNext(BSP) \/ FreeLink(BSP) \/ FreeRelease(BSP)
  <2>1. /\ at \notin InAllocate /\ at' \notin InAllocate
        /\ Free' = Free /\ result' = result
    BY <1>11, <1>0 DEF FreeHead, FreeNext, FreeLink, FreeRelease, Leave, Goto,
                        at, history, Free
  <2> QED
    BY <2>1, OneRequest
<1>12. CASE UNCHANGED vars
  BY <1>12 DEF vars, history, args, Free, Wanted
<1> QED
  BY <1>2, <1>3, <1>4, <1>5, <1>6, <1>7, <1>8, <1>9, <1>10, <1>11, <1>12
     DEF Next, InCall, OneProcessor

(* allocatePages and freePages implement PageAllocator: a call gets as     *)
(* many pages as it asked for, all of them free, what comes back was not   *)
(* free, and a call is refused only when no run of free pages is as long   *)
(* as its request, although allocatePages looks at one chunk at a time and *)
(* first-fit may leave memory in pieces.                                   *)
THEOREM Implements == ASSUME OneProcessor PROVE Spec => ImplementsPageAllocator
<1>1. Init => Allocator!Init
  BY DEF Init, Allocator!Init, Null, Wanted
<1>2. MemoryInv /\ [Next]_vars => [Allocator!Next]_<<Free, Wanted, result>>
  BY StepImplements
<1> QED
  BY <1>1, <1>2, Invariance, PTL
     DEF Spec, ImplementsPageAllocator, Allocator!Spec, Free
=============================================================================

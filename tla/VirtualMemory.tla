--------------------------- MODULE VirtualMemory ----------------------------
(***************************************************************************)
(* Page tables (VirtualMemoryManagement.cpp) and the way boot uses them:   *)
(* initializeVirtualMemory builds the kernel's table with a direct mapping *)
(* of all physical memory, the kernel's image and preallocated tables for  *)
(* the higher half; createFirstProcess copies its root for a process and   *)
(* maps the program.                                                       *)
(*                                                                         *)
(* Addresses are page numbers.  The number of levels (4) and of entries    *)
(* per table (512) are constants.  map follows whatever address an entry   *)
(* holds, also where it got no table for it or the address was cut: lost   *)
(* tells that this has happened.  A store to the null address or to one    *)
(* below the direct mapping ends in the state "fault".                     *)
(***************************************************************************)
EXTENDS Integers, FiniteSets, FiniteSetsExt

CONSTANTS
  Levels, Fanout,       \* shape of the page table tree
  NumFrames,            \* maxPhysicalMemory, in pages
  UsableMemory,         \* the possible sets of frames the memory manager has
  DirectMapBase,        \* HigherHalfDirectMapOffset
  KernelStart, KernelPages, ImageFrame,  \* the kernel's image
  Entrypoint,           \* the page the program is mapped at
  FieldLimit,           \* frames that PageTableEntry::physicalAddress can hold
  IntLimit,             \* the first frame whose address does not fit an int
  LeftBehind            \* what pages may hold when the kernel gets them

Frame == 0 .. NumFrames - 1
Index == 0 .. Fanout - 1
KernelHalf == Fanout \div 2 .. Fanout - 1
VirtualPage == 0 .. Fanout^Levels - 1
None == -1

ASSUME ShapeAssumption ==
  /\ Levels \in Nat \ {0, 1} /\ Fanout \in Nat \ {0, 1}
  /\ {NumFrames, FieldLimit, IntLimit} \subseteq Nat \ {0}
  /\ LeftBehind \subseteq [Index -> [present : BOOLEAN, frame : Frame]]
(* True of all naturals; the provers know nothing of powers. *)
ASSUME PowerAssumption ==
  /\ Fanout^0 = 1
  /\ \A n \in 0 .. Levels :
       Fanout^n \in Nat \ {0} /\ Fanout^(n + 1) = Fanout * Fanout^n
(* Frame 0 is never usable memory: its address would be the null address. *)
ASSUME UsableAssumption == \A u \in UsableMemory : u \subseteq Frame \ {0}
ASSUME LayoutAssumption ==
  /\ {DirectMapBase, KernelStart, KernelPages, ImageFrame, Entrypoint} \subseteq Nat
  /\ DirectMapBase + NumFrames <= KernelStart
  /\ KernelStart + KernelPages <= Fanout^Levels /\ Entrypoint < Fanout^Levels
  /\ ImageFrame + KernelPages <= NumFrames

(* The digit of a page number that the processor uses at a level. *)
Digit(level, page) == (page \div Fanout^(level - 1)) % Fanout

(* The direct mapping and the kernel are in the upper half of the address  *)
(* space, the program is in the lower half.                                *)
ASSUME HalvesAssumption ==
  /\ \A p \in DirectMapBase .. KernelStart + KernelPages - 1 :
       Digit(Levels, p) \in KernelHalf
  /\ Digit(Levels, Entrypoint) \notin KernelHalf

VARIABLES
  table,            \* every frame read as a page table
  free,             \* the frames the physical memory manager has
  KernelPageTable,  \* the kernel's root table
  pageTable,        \* ProcessInfo::pageTable of the first process
  program,          \* the frame that holds its program
  cr3,              \* the root table in use
  pc,               \* where the boot processor is
  i,                \* the loop variable of initializeVirtualMemory
  walk,             \* the call of map in progress, or no call
  lost              \* history: map went on at a page that is no table it made

vars == <<table, free, KernelPageTable, pageTable, program, cr3, pc, i, walk, lost>>

(* physicalAddress is a field of 28 bits. *)
Field(f) == f % FieldLimit
NotPresent == [present |-> FALSE, frame |-> 0]
Entry(f) == [present |-> TRUE, frame |-> Field(f)]
EmptyTable == [x \in Index |-> NotPresent]
NoCall == [level |-> 0, root |-> None, page |-> 0, frame |-> 0, at |-> None]

Init ==
  /\ \E left \in LeftBehind : table = [f \in Frame |-> left]
  /\ free \in UsableMemory
  /\ KernelPageTable = None /\ pageTable = None /\ program = None
  /\ cr3 = None
  /\ pc = "root"
  /\ i = 0
  /\ walk = NoCall /\ lost = FALSE

-----------------------------------------------------------------------------
Goto(from, to) == pc = from /\ walk = NoCall /\ pc' = to

(* allocatePage takes the last page of the first chunk of the free list. *)
allocatePage ==
  Max({f \in free : \A g \in Min(free) .. f : g \in free})

(* Faulty index: the shift is that of the next level up. *)
IndexOneLevelUp(level, page) == (page \div Fanout^level) % Fanout

(* level4Index to level1Index of map. *)
index(level, page) == (page \div Fanout^(level - 1)) % Fanout

(* pe2v: the field is promoted to int before it is shifted, so that of the *)
(* address 32 bits are left, the highest of them the sign.                 *)
pe2v(f) == LET shifted == f % (2 * IntLimit)
           IN  IF shifted < IntLimit THEN shifted ELSE shifted - 2 * IntLimit

(* allocatePageTableForTableEntry with a page at hand: the entry of table  *)
(* t points to a table that memset has emptied.                            *)
NewTable(t, x, f) == [table EXCEPT ![t][x] = Entry(f), ![Field(f)] = EmptyTable]

(* map is called. *)
MapCall(root, page, frame) ==
  walk' = [level |-> Levels, root |-> root, page |-> page, frame |-> frame,
           at |-> root]

(* map goes on where the entry of walk.at says, which is right or not. *)
Follow(f, right) ==
  /\ lost' = (lost \/ ~right)
  /\ IF pe2v(f) >= 0
     THEN /\ walk' = [level |-> walk.level - 1, root |-> walk.root, page |-> walk.page,
                      frame |-> walk.frame, at |-> pe2v(f)]
          /\ pc' = pc
     ELSE walk' = NoCall /\ pc' = "fault"

(* map, the three upper levels: an entry that is not present gets a new    *)
(* table.  map does not look at whether it got one, and without memory     *)
(* follows the entry as it is, to page 0 if the entry is empty.            *)
MapDescend ==
  LET x == index(walk.level, walk.page)
      e == table[walk.at][x]
  IN  /\ walk.level > 1
      /\ IF e.present
         THEN Follow(e.frame, pe2v(e.frame) = e.frame) /\ UNCHANGED <<table, free>>
         ELSE IF free = {}
         THEN Follow(e.frame, FALSE) /\ UNCHANGED <<table, free>>
         ELSE LET f == table'[walk.at][x].frame
              IN  /\ table' = NewTable(walk.at, x, allocatePage)
                  /\ free' = free \ {allocatePage}
                  /\ Follow(f, pe2v(f) = allocatePage)
      /\ UNCHANGED <<KernelPageTable, pageTable, program, cr3, i>>

(* map, the lowest level. *)
MapLeaf ==
  /\ walk.level = 1
  /\ table' = [table EXCEPT
                 ![walk.at][index(1, walk.page)] = Entry(walk.frame)]
  /\ walk' = NoCall
  /\ UNCHANGED <<free, KernelPageTable, pageTable, program, cr3, pc, i, lost>>

-----------------------------------------------------------------------------
(* initializeVirtualMemory *)

(* allocateRootPageTable; map writes through the nullptr if there is none. *)
allocateRootPageTable ==
  /\ IF free = {} THEN Goto("root", "fault") /\ UNCHANGED <<table, free, KernelPageTable>>
     ELSE /\ Goto("root", "direct")
          /\ KernelPageTable' = allocatePage
          /\ table' = [table EXCEPT ![allocatePage] = EmptyTable]
          /\ free' = free \ {allocatePage}
  /\ UNCHANGED <<pageTable, program, cr3, i, walk, lost>>

(* One round of the loop over physical memory, or its end. *)
MapDirect ==
  /\ IF i < NumFrames
     THEN /\ Goto("direct", "direct")
          /\ MapCall(KernelPageTable, DirectMapBase + i, i)
          /\ i' = i + 1
     ELSE Goto("direct", "image") /\ i' = 0 /\ UNCHANGED walk
  /\ UNCHANGED <<table, free, KernelPageTable, pageTable, program, cr3, lost>>

(* One round of the loop over the kernel's image, or its end. *)
MapImage ==
  /\ IF i < KernelPages
     THEN /\ Goto("image", "image")
          /\ MapCall(KernelPageTable, KernelStart + i, ImageFrame + i)
          /\ i' = i + 1
     ELSE Goto("image", "prealloc") /\ i' = Min(KernelHalf) /\ UNCHANGED walk
  /\ UNCHANGED <<table, free, KernelPageTable, pageTable, program, cr3, lost>>

(* Faulty preallocation: present entries get a new table too. *)
AnyEntry(e) == TRUE

(* The preallocation has to give an entry its table. *)
WithoutTable(e) == ~e.present

(* One round of the loop over the higher half of the root table, or its    *)
(* end, where cr3 gets the new table.  An entry that cannot be allocated   *)
(* stays as it is.                                                         *)
Preallocate ==
  /\ IF i \in KernelHalf
     THEN /\ Goto("prealloc", "prealloc")
          /\ IF WithoutTable(table[KernelPageTable][i]) /\ free # {}
             THEN /\ table' = NewTable(KernelPageTable, i, allocatePage)
                  /\ free' = free \ {allocatePage}
                  /\ lost' = (lost \/ Field(allocatePage) # allocatePage)
             ELSE UNCHANGED <<table, free, lost>>
          /\ i' = i + 1 /\ UNCHANGED cr3
     ELSE /\ Goto("prealloc", "up")
          /\ cr3' = KernelPageTable /\ UNCHANGED <<table, free, i, lost>>
  /\ UNCHANGED <<KernelPageTable, pageTable, program, walk>>

-----------------------------------------------------------------------------
(* The first process *)

(* Faulty copies: into the kernel's own root table, only the lower half. *)
KernelRoot == KernelPageTable
LowerHalf(t) == [x \in Index |-> IF x \in KernelHalf THEN NotPresent ELSE t[x]]

(* shallowCopy: where the copy goes, and what is copied. *)
CopyRoot == allocatePage
WholeTable(t) == t

(* shallowCopy in allocateProcess; it copies to nullptr without memory. *)
shallowCopy ==
  /\ IF free = {} THEN Goto("up", "fault") /\ UNCHANGED <<table, free, pageTable>>
     ELSE /\ Goto("up", "copied")
          /\ pageTable' = CopyRoot
          /\ table' = [table EXCEPT ![CopyRoot] = WholeTable(table[KernelPageTable])]
          /\ free' = free \ {allocatePage}
  /\ UNCHANGED <<KernelPageTable, program, cr3, i, walk, lost>>

(* createFirstProcess: a page for the program, and map for the entry point *)
(* in the process's table; without memory memcpy writes to nullptr.        *)
LoadProgram ==
  /\ IF free = {} THEN Goto("copied", "fault") /\ UNCHANGED <<free, program, walk>>
     ELSE /\ Goto("copied", "loaded")
          /\ program' = allocatePage
          /\ free' = free \ {allocatePage}
          /\ MapCall(pageTable, Entrypoint, allocatePage)
  /\ UNCHANGED <<table, KernelPageTable, pageTable, cr3, i, lost>>

(* schedule loads the process's table before it switches to the process. *)
LoadProcessTable ==
  /\ Goto("loaded", "running")
  /\ cr3' = pageTable
  /\ UNCHANGED <<table, free, KernelPageTable, pageTable, program, i, walk, lost>>

(* A kernel that is lost may fault wherever it goes on in tables that are  *)
(* not what they should be.                                                *)
LostFault ==
  /\ lost /\ pc # "fault" /\ pc' = "fault" /\ walk' = NoCall
  /\ UNCHANGED <<table, free, KernelPageTable, pageTable, program, cr3, i, lost>>

(* Once the kernel's table is in use, other parts of the kernel and other  *)
(* processors allocate pages of their own at any time.                     *)
OtherAllocation ==
  /\ free # {}
  /\ pc \in {"up", "copied", "loaded"}
  /\ free' = free \ {allocatePage}
  /\ UNCHANGED <<table, KernelPageTable, pageTable, program, cr3, pc, i, walk, lost>>

-----------------------------------------------------------------------------
Step ==
  \/ MapDescend \/ MapLeaf
  \/ allocateRootPageTable \/ MapDirect \/ MapImage \/ Preallocate
  \/ shallowCopy \/ LoadProgram \/ LoadProcessTable

Next == Step \/ LostFault \/ OtherAllocation

Spec == Init /\ [][Next]_vars

(* The boot processor keeps executing. *)
FairSpec == Spec /\ WF_vars(Step)

-----------------------------------------------------------------------------
(* The processor's own walk from a root table down to a page's frame: at   *)
(* each level it uses that digit of the page number.                       *)
Below(m, f, level, page) ==
  IF f = None \/ ~m[f][Digit(level, page)].present THEN None
  ELSE m[f][Digit(level, page)].frame
Path(m, root, page) ==
  LET at[level \in 0 .. Levels] ==
        IF level = Levels THEN root ELSE Below(m, at[level + 1], level + 1, page)
  IN  at
Translate(root, page) == Path(table, root, page)[0]

KernelPage == {p \in VirtualPage : Digit(Levels, p) \in KernelHalf}

Roots == {KernelPageTable, pageTable} \ {None}

(* While the kernel's table or a process's table is in use, the physical   *)
(* memory that an entry can name is accessible at the direct mapping and   *)
(* the kernel's image is where it was, as long as map never failed to get  *)
(* a table and was never led astray (initializeVirtualMemory, map,         *)
(* shallowCopy).                                                           *)
KernelMapped ==
  ~lost /\ cr3 # None =>
    /\ \A f \in Frame : f < FieldLimit => Translate(cr3, DirectMapBase + f) = f
    /\ \A k \in 0 .. KernelPages - 1 : ImageFrame + k < FieldLimit =>
         Translate(cr3, KernelStart + k) = ImageFrame + k

(* The tables of the kernel half are shared: the root of a process has the *)
(* kernel's entries there, so that what is mapped below them later is      *)
(* mapped in both (the preallocation in initializeVirtualMemory).          *)
KernelHalfShared ==
  ~lost /\ pageTable # None =>
    \A x \in KernelHalf : table[pageTable][x] = table[KernelPageTable][x]

(* The program is the only thing in a process's half, and it is in no      *)
(* other table: map of a process never reaches the kernel's own table, as  *)
(* long as it gets the tables it asks for (map, createFirstProcess).       *)
UserHalfPrivate ==
  ~lost =>
    \A p \in VirtualPage \ KernelPage :
      /\ KernelPageTable # None => Translate(KernelPageTable, p) = None
      /\ pageTable # None /\ (p = Entrypoint => program < FieldLimit) =>
           Translate(pageTable, p) =
             IF p = Entrypoint /\ walk = NoCall /\ pc \in {"loaded", "running"}
             THEN program ELSE None

(* A step of map that gets its table changes the translation of no page    *)
(* but its own, which it changes to the frame it was given, if an entry    *)
(* can name that.                                                          *)
MapExact ==
  [][~lost' => \A root \in Roots : \A p \in VirtualPage :
       Translate(root, p)' # Translate(root, p) =>
         /\ p = walk.page
         /\ walk.frame < FieldLimit => Translate(root, p)' = walk.frame]_vars

(* The kernel gets all of physical memory mapped and switches to its own   *)
(* table.                                                                  *)
DirectMapEstablished == <>(cr3 # None)
=============================================================================

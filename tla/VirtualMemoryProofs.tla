------------------------- MODULE VirtualMemoryProofs -------------------------
(***************************************************************************)
(* Page tables, for any shape of the tree, any memory and any layout, as   *)
(* long as map gets the tables it asks for and follows no cut address      *)
(* (~lost):                                                                *)
(*   - the kernel half of a process's root is the kernel's (HalfShared);   *)
(*   - a step of map moves no page but its own (MapsOne);                  *)
(*   - the kernel stays mapped in every table in use (KernelStays);        *)
(*   - the program is in the process's table alone (UserPrivate).          *)
(* What happens once the way is lost is left to TLC.                       *)
(* TableInv is about the entries of the two roots, TreeInv about all       *)
(* tables: each is for one level and one range of pages.  What a root maps *)
(* is a recursive function of the tables; facts about it are proved by     *)
(* induction from the root downwards, from a least counterexample.         *)
(***************************************************************************)
EXTENDS VirtualMemory, NaturalsInduction, WellFoundedInduction, TLAPS

PageEntry == [present : BOOLEAN, frame : Frame]
PageTable == [Index -> PageEntry]
Call == [level : 0 .. Levels, root : Frame, page : Nat, frame : Frame, at : Frame]

TypeInv ==
  /\ table \in [Frame -> PageTable] /\ free \subseteq Frame
  /\ KernelPageTable \in Frame \union {None}
  /\ pageTable \in Frame \union {None}
  /\ walk = NoCall \/ walk \in Call
  /\ i \in Int
  /\ pc \in {"root", "direct", "image", "prealloc", "up", "copied", "loaded",
             "running", "fault"}

(* The tables of the kernel, when each has a level: the root's is the      *)
(* highest, a table at an upper level has present entries for tables one   *)
(* level below, and what is free is no table.                              *)
Shaped(lev) ==
  /\ lev \in [Frame -> 0 .. Levels] /\ lev[KernelPageTable] = Levels
  /\ \A f \in free : lev[f] = 0
  /\ \A f \in Frame : lev[f] = Levels => f = KernelPageTable
  /\ \A f \in Frame : lev[f] > 1 =>
       \A x \in Index : table[f][x].present => lev[table[f][x].frame] = lev[f] - 1
  /\ walk # NoCall => walk.level > 0 /\ lev[walk.at] = walk.level

(* A root without entries in the half of the processes. *)
NoUserEntry(root) ==
  \A x \in Index \ KernelHalf : table[root][x] = NotPresent

(* While the kernel's table is built: map is called for pages of the       *)
(* kernel's half only.                                                     *)
Building == {"direct", "image", "prealloc", "up"}
BuildInv ==
  pc \in Building =>
    /\ KernelPageTable \in Frame /\ \E lev : Shaped(lev)
    /\ NoUserEntry(KernelPageTable) /\ pageTable = None
    /\ walk # NoCall => Digit(Levels, walk.page) \in KernelHalf
    /\ pc \in {"direct", "image"} => i >= 0
    /\ pc \in {"prealloc", "up"} => walk = NoCall

(* The kernel's half of a process's root. *)
HalfCopied ==
  \A x \in KernelHalf : table[pageTable][x] = table[KernelPageTable][x]

(* Once a process has a root: map for its program starts there, goes into  *)
(* its own half, and from then on through tables that are new and empty.   *)
ProcessInv ==
  pageTable # None =>
    /\ KernelPageTable \in Frame \ free /\ pageTable \in Frame \ free
    /\ pageTable # KernelPageTable /\ HalfCopied
    /\ NoUserEntry(KernelPageTable)
    /\ pc \in {"copied", "loaded", "running", "fault"}
    /\ pc = "copied" => NoUserEntry(pageTable)
    /\ walk # NoCall =>
         /\ pc = "loaded" /\ walk.page = Entrypoint /\ walk.at \notin free
         /\ walk.level = Levels => walk.at = pageTable /\ NoUserEntry(pageTable)
         /\ walk.level # Levels => /\ walk.at \notin {pageTable, KernelPageTable}
                                   /\ table[walk.at] = EmptyTable

StartInv ==
  /\ pc = "root" => pageTable = None /\ walk = NoCall /\ i = 0
  /\ pc \in {"copied", "loaded", "running"} => pageTable # None
  /\ pc \in {"fault", "running"} => walk = NoCall

(* The inductive invariant of the entries of the two roots. *)
TableInv == TypeInv /\ StartInv /\ BuildInv /\ ProcessInv

(* The part of a page number above a level: what all pages below one table *)
(* of that level have in common.                                           *)
Above(l, p) == p \div Fanout^l

(* The tables in m, when each has a level and serves the pages that have   *)
(* pre in common: an entry leads to the table for one more digit.          *)
Nested(m, lev, pre) ==
  /\ lev \in [Frame -> 0 .. Levels] /\ pre \in [Frame -> Nat]
  /\ \A f \in Frame : lev[f] > 1 =>
       \A x \in Index : m[f][x].present =>
         /\ lev[m[f][x].frame] = lev[f] - 1
         /\ pre[m[f][x].frame] = Fanout * pre[f] + x

(* The tables of both roots; what is free is no table. *)
Tree(lev, pre) ==
  /\ Nested(table, lev, pre)
  /\ \A f \in Roots : lev[f] = Levels /\ pre[f] = 0
  /\ \A f \in free : lev[f] = 0

(* map is where the processor would come to for the same page. *)
WalkInv ==
  walk # NoCall =>
    /\ walk.root \in Roots /\ walk.page \in VirtualPage
    /\ Path(table, walk.root, walk.page)[walk.level] = walk.at

(* The inductive invariant of the tables. *)
TreeInv == (\E lev, pre : Tree(lev, pre)) /\ WalkInv

(* What the two loops of initializeVirtualMemory have mapped: the pages    *)
(* before i, without the one that map is busy with.                        *)
Mapped(base, frame, n) ==
  \A j \in 0 .. n - 1 : Translate(KernelPageTable, base + j) = Field(frame + j)
Busy(base, frame) ==
  walk # NoCall => /\ i > 0 /\ walk.root = KernelPageTable
                   /\ walk.page = base + (i - 1) /\ walk.frame = frame + (i - 1)
Loop(base, frame, n) ==
  /\ i <= n /\ Busy(base, frame)
  /\ Mapped(base, frame, IF walk = NoCall THEN i ELSE i - 1)
BuiltSteps == {"prealloc", "up", "copied", "loaded", "running"}
MappedInv ==
  /\ pc = "direct" => Loop(DirectMapBase, 0, NumFrames)
  /\ pc = "image" => Loop(KernelStart, ImageFrame, KernelPages)
  /\ pc \in {"image"} \union BuiltSteps => Mapped(DirectMapBase, 0, NumFrames)
  /\ pc \in BuiltSteps => Mapped(KernelStart, ImageFrame, KernelPages)
  /\ cr3 # None =>
       /\ cr3 \in {KernelPageTable, pageTable} /\ KernelPageTable # None
       /\ pc \in BuiltSteps \union {"fault"}
       /\ Mapped(DirectMapBase, 0, NumFrames)
       /\ Mapped(KernelStart, ImageFrame, KernelPages)

(* The half of the processes: nothing in the kernel's table, the program   *)
(* in the other.                                                           *)
PrivateInv ==
  /\ \A p \in VirtualPage \ KernelPage :
       /\ KernelPageTable # None => Translate(KernelPageTable, p) = None
       /\ pageTable # None =>
            Translate(pageTable, p) =
              IF p = Entrypoint /\ walk = NoCall /\ pc \in {"loaded", "running"}
              THEN Field(program) ELSE None
  /\ pc \in {"loaded", "running"} => program \in Frame
  /\ pc = "loaded" /\ walk # NoCall => walk.root = pageTable /\ walk.frame = program

(* The entry that names a frame, a new table that an entry leads to, and   *)
(* map gone one level down, when the addresses are not cut.                *)
Linked(f) == [present |-> TRUE, frame |-> f]
Extended(t, x, f) ==
  table' = [table EXCEPT ![t][x] = Linked(f), ![f] = EmptyTable]
Down(f) ==
  /\ walk' = [level |-> walk.level - 1, root |-> walk.root, page |-> walk.page,
              frame |-> walk.frame, at |-> f]
  /\ pc' = pc

-----------------------------------------------------------------------------
(* Sets of frames, and entries of tables *)

(* The less-than relation of the naturals as a set of pairs. *)
Less == {ss \in Nat \X Nat : ss[1] < ss[2]}

(* A nonempty set of naturals has a least element. *)
LEMMA LeastElement ==
  ASSUME NEW S, S \subseteq Nat, S # {}
  PROVE  \E m \in S : \A n \in S : m <= n
<1>1. IsWellFoundedOn(Less, Nat)
  BY NatLessThanWellFounded DEF OpToRel, Less
<1>2. PICK m \in S : \A n \in S : ~ (<<n, m>> \in Less)
  BY <1>1, WFMin
<1>3. \A n \in S : ~ (n < m)
  BY <1>2 DEF Less
<1>4. \A n \in S : m <= n
  BY <1>3
<1> QED
  BY <1>4

(* A nonempty set of frames has a last one. *)
LEMMA LastFrame ==
  ASSUME NEW S, S \subseteq Frame, S # {}
  PROVE  Max(S) \in S
<1> DEFINE D == {n \in Nat : \E f \in S : n = NumFrames - f}
<1>1. NumFrames \in Nat
  BY ShapeAssumption
<1>2. \A f \in S : f \in Nat /\ NumFrames - f \in D
  BY <1>1 DEF Frame
<1>3. D \subseteq Nat /\ D # {}
  BY <1>2
<1>4. PICK m \in D : \A n \in D : m <= n
  BY <1>3, LeastElement
<1>5. PICK g \in S : m = NumFrames - g
  BY <1>4
<1>6. \A f \in S : g >= f
  <2> TAKE f \in S
  <2>1. m <= NumFrames - f
    BY <1>2, <1>4
  <2> QED
    BY <1>1, <1>2, <1>5, <2>1
<1> QED
  BY <1>6 DEF Max

(* allocatePage returns a page that was free. *)
LEMMA Allocates ==
  ASSUME NEW S, free = S, S \subseteq Frame, S # {}
  PROVE  allocatePage \in S
<1> DEFINE T == {f \in S : \A g \in Min(S) .. f : g \in S}
<1>1. S \subseteq Nat
  BY DEF Frame
<1>2. PICK m \in S : \A n \in S : m <= n
  BY <1>1, LeastElement
<1>3. Min(S) \in S /\ \A n \in S : Min(S) <= n
  BY <1>2 DEF Min
<1>4. Min(S) \in T
  <2>1. PICK k \in S : k = Min(S)
    BY <1>3
  <2>2. \A g \in k .. k : g = k
    BY <1>1
  <2> QED
    BY <2>1, <2>2
<1>5. Max(T) \in T
  BY <1>4, LastFrame
<1> QED
  BY <1>5 DEF allocatePage

(* The kernel and the processor agree on the index. *)
LEMMA Indexed ==
  ASSUME NEW l \in 1 .. Levels, NEW p \in Nat
  PROVE  index(l, p) = Digit(l, p) /\ index(l, p) \in Index
<1>1. l - 1 \in 0 .. Levels
  BY ShapeAssumption
<1>2. Fanout^(l - 1) \in Int
  BY <1>1, PowerAssumption
<1>3. PICK q \in Int : q = Fanout^(l - 1)
  BY <1>2
<1>4. Fanout \in Nat \ {0}
  BY ShapeAssumption
<1>5. (p \div q) % Fanout \in 0 .. Fanout - 1
  BY <1>4
<1> QED
  BY <1>3, <1>5 DEF index, Digit, Index

(* An empty table, and an entry. *)
LEMMA Entries ==
  /\ EmptyTable \in PageTable /\ \A x \in Index : EmptyTable[x] = NotPresent
  /\ NotPresent.present = FALSE
  /\ \A f \in Frame : /\ Linked(f) \in PageEntry
                      /\ Linked(f).present = TRUE /\ Linked(f).frame = f
<1>1. 0 \in Frame
  BY ShapeAssumption DEF Frame
<1>2. NotPresent \in PageEntry /\ NotPresent.present = FALSE
  BY <1>1 DEF NotPresent, PageEntry
<1>3. \A f \in Frame : /\ Linked(f) \in PageEntry
                       /\ Linked(f).present = TRUE /\ Linked(f).frame = f
  BY DEF Linked, PageEntry
<1>4. EmptyTable \in PageTable /\ \A x \in Index : EmptyTable[x] = NotPresent
  BY <1>2 DEF EmptyTable, PageTable
<1> QED
  BY <1>2, <1>3, <1>4

(* One entry of one table is written. *)
Written(m, t, x, e) == [m EXCEPT ![t][x] = e]
LEMMA EntryWritten ==
  ASSUME NEW m \in [Frame -> PageTable], NEW t \in Frame, NEW x \in Index,
         NEW e \in PageEntry
  PROVE  /\ Written(m, t, x, e) \in [Frame -> PageTable]
         /\ \A g \in Frame : g # t => Written(m, t, x, e)[g] = m[g]
         /\ Written(m, t, x, e)[t][x] = e
         /\ \A y \in Index : y # x => Written(m, t, x, e)[t][y] = m[t][y]
<1>1. Written(m, t, x, e) = [m EXCEPT ![t] = [m[t] EXCEPT ![x] = e]]
  BY DEF Written
<1>2. m[t] \in [Index -> PageEntry]
  BY DEF PageTable
<1>3. /\ [m[t] EXCEPT ![x] = e] \in [Index -> PageEntry]
      /\ \A y \in Index : [m[t] EXCEPT ![x] = e][y] = IF y = x THEN e ELSE m[t][y]
  BY <1>2
<1>4. Written(m, t, x, e)[t] = [m[t] EXCEPT ![x] = e]
  BY <1>1
<1> QED
  BY <1>1, <1>3, <1>4 DEF PageTable

(* A new table is made, and the entry x of t leads to it. *)
LEMMA TableAdded ==
  ASSUME TypeInv, NEW t \in Frame, NEW x \in Index, NEW f \in Frame, f # t,
         Extended(t, x, f)
  PROVE  /\ table' \in [Frame -> PageTable] /\ table'[f] = EmptyTable
         /\ \A g \in Frame : g \notin {f, t} => table'[g] = table[g]
         /\ table'[t][x] = Linked(f)
         /\ \A y \in Index : y # x => table'[t][y] = table[t][y]
<1> DEFINE m2 == Written(table, t, x, Linked(f))
<1>1. table \in [Frame -> PageTable] /\ Linked(f) \in PageEntry
  BY Entries DEF TypeInv
<1>2. /\ m2 \in [Frame -> PageTable]
      /\ \A g \in Frame : g # t => m2[g] = table[g]
      /\ m2[t][x] = Linked(f)
      /\ \A y \in Index : y # x => m2[t][y] = table[t][y]
  BY <1>1, EntryWritten
<1>3. table' = [m2 EXCEPT ![f] = EmptyTable]
  BY DEF Extended, Written
<1> HIDE DEF m2
<1> QED
  BY <1>2, <1>3, Entries

-----------------------------------------------------------------------------
(* Steps that get the table they need *)

(* What is left of a division. *)
LEMMA Remainder ==
  ASSUME NEW a \in Nat, NEW m \in Nat \ {0}
  PROVE  a % m \in Nat /\ a % m < m /\ a % m <= a /\ (a < m => a % m = a)
<1>1. PICK q \in Nat, r \in 0 .. m - 1 : a = m * q + r /\ r = a % m
  <2>1. a \div m \in Nat /\ a % m \in 0 .. m - 1 /\ a = m * (a \div m) + (a % m)
    OBVIOUS
  <2> QED
    BY <2>1
<1>2. m * q \in Nat /\ (q # 0 => m * q >= m)
  BY <1>1
<1>3. q = 0 => m * q = 0
  BY <1>1
<1> QED
  BY <1>1, <1>2, <1>3

(* An entry names the frame, or a lower one if the frame is too high; pe2v *)
(* returns what the entry names, or something below.                       *)
LEMMA Names ==
  ASSUME NEW f \in Frame
  PROVE  /\ Field(f) \in Frame /\ Field(f) <= f /\ Entry(f) = Linked(Field(f))
         /\ f < FieldLimit => Field(f) = f
         /\ pe2v(f) \in Int /\ pe2v(f) <= f
<1>1. f \in Nat /\ f < NumFrames /\ NumFrames \in Nat
  BY ShapeAssumption DEF Frame
<1>2. FieldLimit \in Nat \ {0} /\ 2 * IntLimit \in Nat \ {0} /\ IntLimit \in Nat \ {0}
  BY ShapeAssumption
<1>3. Field(f) \in Nat /\ Field(f) <= f /\ (f < FieldLimit => Field(f) = f)
  BY <1>1, <1>2, Remainder DEF Field
<1>4. f % (2 * IntLimit) \in Nat /\ f % (2 * IntLimit) <= f
  BY <1>1, <1>2, Remainder
<1>5. pe2v(f) \in Int /\ pe2v(f) <= f
  BY <1>1, <1>2, <1>4 DEF pe2v
<1> QED
  BY <1>1, <1>3, <1>5 DEF Frame, Entry, Linked

(* A step of map that does not lose its way follows an entry that is right *)
(* or gets a page for a new table, which the entry then names.             *)
LEMMA DescendsRight ==
  ASSUME TypeInv, walk.at \in Frame, MapDescend, ~lost',
         NEW x \in Index, x = index(walk.level, walk.page)
  PROVE  \/ /\ table[walk.at][x].present /\ Down(table[walk.at][x].frame)
            /\ table' = table /\ free' = free
         \/ /\ ~table[walk.at][x].present /\ free # {}
            /\ Extended(walk.at, x, allocatePage) /\ free' = free \ {allocatePage}
            /\ Down(allocatePage)
<1>1. table[walk.at][x].frame \in Frame /\ table \in [Frame -> PageTable]
  BY DEF TypeInv, PageTable, PageEntry
<1>2. CASE table[walk.at][x].present
  <2>1. PICK f \in Frame : f = table[walk.at][x].frame
    BY <1>1
  <2>2. Follow(f, pe2v(f) = f) /\ table' = table /\ free' = free
    BY <1>2, <2>1 DEF MapDescend
  <2>3. f >= 0
    BY DEF Frame
  <2>4. pe2v(f) = f
    BY <2>2, Zenon DEF Follow
  <2> QED
    BY <1>2, <2>1, <2>2, <2>3, <2>4 DEF Follow, Down
<1>3. CASE ~table[walk.at][x].present /\ free = {}
  BY <1>3 DEF MapDescend, Follow
<1>4. CASE ~table[walk.at][x].present /\ free # {}
  <2>1. PICK f \in Frame : f = allocatePage
    BY <1>4, Allocates DEF TypeInv
  <2>2. PICK t \in Frame : t = walk.at
    OBVIOUS
  <2>3. PICK h \in Frame : /\ h = Field(f) /\ h <= f /\ Entry(f) = Linked(h)
                           /\ pe2v(h) <= h /\ pe2v(h) \in Int
    BY Names
  <2>4. PICK g : g = table'[t][x].frame
    OBVIOUS
  <2>5. /\ table' = NewTable(t, x, f) /\ free' = free \ {f}
        /\ Follow(g, pe2v(g) = f)
    BY <1>4, <2>1, <2>2, <2>4 DEF MapDescend
  <2>6. table' = [Written(table, t, x, Linked(h)) EXCEPT ![h] = EmptyTable]
    BY <2>3, <2>5 DEF NewTable, Written
  <2>7. pe2v(g) = f
    BY <2>5 DEF Follow
  <2>8. Linked(h) \in PageEntry /\ Linked(h).frame = h
    BY Entries
  <2>9. /\ Written(table, t, x, Linked(h)) \in [Frame -> PageTable]
        /\ Written(table, t, x, Linked(h))[t][x] = Linked(h)
    BY <1>1, <2>8, EntryWritten
  <2>10. ASSUME t = h PROVE h = f /\ g = f
    <3>1. table'[t] = EmptyTable
      BY <2>6, <2>9, <2>10
    <3>2. g = 0
      BY <2>4, <3>1, Entries DEF NotPresent
    <3>3. 0 \in Frame
      BY ShapeAssumption DEF Frame
    <3>4. f <= 0
      BY <2>7, <3>2, <3>3, Names
    <3> QED
      BY <2>3, <3>2, <3>4 DEF Frame
  <2>11. ASSUME t # h PROVE h = f /\ g = f
    <3>1. g = h
      BY <2>4, <2>6, <2>8, <2>9, <2>11
    <3> QED
      BY <2>3, <2>7, <3>1 DEF Frame
  <2>12. h = f /\ g = f /\ pe2v(g) >= 0
    BY <2>7, <2>10, <2>11 DEF Frame
  <2>13. Extended(t, x, f)
    BY <2>6, <2>12 DEF Extended, Written
  <2>14. Down(f)
    BY <2>5, <2>7, <2>12 DEF Follow, Down
  <2> QED
    BY <1>4, <2>1, <2>2, <2>5, <2>13, <2>14
<1> QED
  BY <1>2, <1>3, <1>4

-----------------------------------------------------------------------------
(* What a state has to fulfil *)

(* Whatever a call of map does, it belongs to one of the two tables. *)
LEMMA InCall ==
  ASSUME TableInv, walk.level > 0
  PROVE  /\ walk \in Call /\ walk # NoCall
         /\ walk.level \in 1 .. Levels /\ walk.at \in Frame
         /\ walk.page \in Nat /\ walk.frame \in Frame /\ walk.root \in Frame
         /\ \/ pc \in {"direct", "image"} /\ pageTable = None
            \/ pc = "loaded" /\ pageTable # None
<1>1. NoCall.level = 0
  BY DEF NoCall
<1>2. walk # NoCall /\ walk \in Call
  BY <1>1 DEF TableInv, TypeInv
<1>3. /\ walk.level \in 1 .. Levels /\ walk.at \in Frame /\ walk.page \in Nat
      /\ walk.frame \in Frame /\ walk.root \in Frame
  BY <1>2, ShapeAssumption DEF Call
<1>4. \/ pc \in {"direct", "image"} /\ pageTable = None
      \/ pc = "loaded" /\ pageTable # None
  BY <1>2 DEF TableInv, TypeInv, StartInv, BuildInv, ProcessInv, Building
<1> QED
  BY <1>2, <1>3, <1>4

(* A fault before there was a process. *)
LEMMA FaultHolds ==
  ASSUME TypeInv', pc' = "fault", walk' = NoCall, pageTable' = None
  PROVE  TableInv'
  BY DEF TableInv, StartInv, BuildInv, ProcessInv, Building

(* A table that is being built as it should be. *)
LEMMA BuildHolds ==
  ASSUME TypeInv', pc' \in Building, KernelPageTable' \in Frame,
         NEW lev, Shaped(lev)', NoUserEntry(KernelPageTable)', pageTable' = None,
         walk' # NoCall => Digit(Levels, walk'.page) \in KernelHalf,
         pc' \in {"direct", "image"} => i' >= 0,
         pc' \in {"prealloc", "up"} => walk' = NoCall
  PROVE  TableInv'
  BY DEF TableInv, StartInv, BuildInv, ProcessInv, Building

(* map goes one level down. *)
LEMMA Followed ==
  ASSUME TableInv, walk \in Call, walk.level \in 2 .. Levels,
         NEW f \in Frame, Down(f),
         table' \in [Frame -> PageTable], free' \subseteq Frame,
         UNCHANGED <<KernelPageTable, pageTable, i>>
  PROVE  /\ TypeInv' /\ pc' = pc /\ walk' \in Call /\ walk' # NoCall /\ walk'.at = f
         /\ walk'.level = walk.level - 1 /\ walk'.page = walk.page
         /\ walk'.root = walk.root /\ walk'.frame = walk.frame
<1>1. /\ walk' = [level |-> walk.level - 1, root |-> walk.root, page |-> walk.page,
                  frame |-> walk.frame, at |-> f]
      /\ pc' = pc
  BY DEF Down
<1>2. /\ walk.level - 1 \in 0 .. Levels /\ walk.level - 1 # 0
      /\ walk.root \in Frame /\ walk.page \in Nat /\ walk.frame \in Frame
  BY ShapeAssumption DEF Call
<1>3. walk' \in Call
  BY <1>1, <1>2 DEF Call
<1>4. walk'.level # 0 /\ NoCall.level = 0
  BY <1>1, <1>2 DEF NoCall
<1>5. TypeInv'
  BY <1>1, <1>3 DEF TableInv, TypeInv
<1> QED
  BY <1>1, <1>3, <1>4, <1>5

(* A step of map at an upper level that does not lose its way. *)
LEMMA Descends ==
  ASSUME TableInv, MapDescend, ~lost'
  PROVE  /\ walk # NoCall /\ walk' # NoCall /\ pc' = pc
         /\ walk'.root = walk.root /\ walk'.page = walk.page /\ walk'.frame = walk.frame
<1>1. /\ walk \in Call /\ walk # NoCall /\ walk.level \in 2 .. Levels
      /\ walk.level \in 1 .. Levels /\ walk.level \in Nat
      /\ walk.at \in Frame /\ walk.page \in Nat
  <2>1. walk.level > 1 /\ walk.level \in Int
    BY ShapeAssumption DEF MapDescend, TableInv, TypeInv, NoCall, Call
  <2>2. walk.level > 0
    BY <2>1
  <2> QED
    BY <2>1, <2>2, InCall, ShapeAssumption
<1>2. PICK x \in Index : x = index(walk.level, walk.page)
  BY <1>1, Indexed
<1>3. PICK f : Down(f)
  BY <1>1, <1>2, DescendsRight DEF TableInv
<1>4. /\ walk'.level = walk.level - 1 /\ walk'.root = walk.root
      /\ walk'.page = walk.page /\ walk'.frame = walk.frame /\ pc' = pc
  BY <1>3 DEF Down
<1>5. walk'.level # 0 /\ NoCall.level = 0
  BY <1>1, <1>4 DEF NoCall
<1> QED
  BY <1>1, <1>4, <1>5

-----------------------------------------------------------------------------
(* map in the kernel's table *)

(* A new table below a table of level l has level l - 1; nothing led to it *)
(* before.                                                                 *)
LEMMA LevelAdded ==
  ASSUME TypeInv, KernelPageTable \in Frame, NoUserEntry(KernelPageTable),
         NEW lev, Shaped(lev), NEW l \in 2 .. Levels, NEW t \in Frame, lev[t] = l,
         NEW x \in Index, t = KernelPageTable => x \in KernelHalf,
         NEW f \in free, Extended(t, x, f), free' = free \ {f},
         KernelPageTable' = KernelPageTable,
         walk' = NoCall \/ (walk'.at = f /\ walk'.level = l - 1)
  PROVE  /\ table' \in [Frame -> PageTable] /\ free' \subseteq Frame
         /\ \E lev2 : Shaped(lev2)'
         /\ NoUserEntry(KernelPageTable)'
<1>1. Levels \in Nat /\ l \in Nat /\ l > 1 /\ l <= Levels
  BY ShapeAssumption
<1>2. /\ lev \in [Frame -> 0 .. Levels] /\ lev[KernelPageTable] = Levels
      /\ \A g \in Frame : lev[g] \in Int
      /\ \A g \in free : lev[g] = 0
      /\ \A g \in Frame : lev[g] = Levels => g = KernelPageTable
      /\ \A g \in Frame : lev[g] > 1 =>
           \A y \in Index : table[g][y].present => lev[table[g][y].frame] = lev[g] - 1
  BY DEF Shaped
<1>3. \A g \in Frame : \A y \in Index : table[g][y].frame \in Frame
  BY DEF TypeInv, PageTable, PageEntry
<1>4. f \in Frame /\ lev[f] = 0 /\ f # t /\ f # KernelPageTable /\ free' \subseteq Frame
  BY <1>1, <1>2 DEF TypeInv
<1>5. /\ table' \in [Frame -> PageTable] /\ table'[f] = EmptyTable
      /\ \A g \in Frame : g \notin {f, t} => table'[g] = table[g]
      /\ table'[t][x] = Linked(f)
      /\ \A y \in Index : y # x => table'[t][y] = table[t][y]
  BY <1>4, TableAdded
<1> DEFINE lev2 == [lev EXCEPT ![f] = l - 1]
<1>6. /\ lev2 \in [Frame -> 0 .. Levels] /\ lev2[f] = l - 1
      /\ \A g \in Frame : g # f => lev2[g] = lev[g]
  BY <1>1, <1>2, <1>4
<1> HIDE DEF lev2
<1>7. ASSUME NEW g \in Frame, lev2[g] > 1, NEW y \in Index, table'[g][y].present
      PROVE  lev2[table'[g][y].frame] = lev2[g] - 1
  <2>1. g # f
    BY <1>5, <1>7, Entries
  <2>2. lev2[g] = lev[g] /\ lev[g] > 1
    BY <1>6, <1>7, <2>1
  <2>3. CASE g = t /\ y = x
    BY <1>4, <1>5, <1>6, <2>2, <2>3, Entries
  <2>4. CASE g # t \/ y # x
    <3>1. table'[g][y] = table[g][y]
      BY <1>5, <2>1, <2>4
    <3>2. PICK h \in Frame : h = table[g][y].frame
      BY <1>3
    <3>3. lev[h] = lev[g] - 1
      BY <1>2, <1>7, <2>2, <3>1, <3>2
    <3>4. h # f
      BY <1>2, <1>4, <2>2, <3>3
    <3> QED
      BY <1>6, <2>2, <3>1, <3>2, <3>3, <3>4
  <2> QED
    BY <2>3, <2>4
<1>8. \A g \in Frame : lev2[g] = Levels => g = KernelPageTable
  BY <1>1, <1>2, <1>6
<1>9. Shaped(lev2)'
  <2>1. walk' # NoCall => walk'.level > 0 /\ lev2[walk'.at] = walk'.level
    BY <1>1, <1>6
  <2>2. lev2[KernelPageTable] = Levels /\ \A g \in free' : lev2[g] = 0
    BY <1>2, <1>4, <1>6 DEF TypeInv
  <2> QED
    BY <1>6, <1>7, <1>8, <2>1, <2>2 DEF Shaped
<1>10. NoUserEntry(KernelPageTable)'
  <2>1. CASE t = KernelPageTable
    BY <1>5, <2>1 DEF NoUserEntry
  <2>2. CASE t # KernelPageTable
    BY <1>4, <1>5, <2>2 DEF NoUserEntry
  <2> QED
    BY <2>1, <2>2
<1> QED
  BY <1>4, <1>5, <1>9, <1>10

(* The next level is a table that is there or a new one: the levels stay   *)
(* apart, so that only the first step writes to the root.                  *)
LEMMA BuildDescendKeeps ==
  ASSUME TableInv, MapDescend, pc \in {"direct", "image"}, ~lost'
  PROVE  TableInv'
<1> DEFINE x == index(walk.level, walk.page)
<1>1. /\ walk \in Call /\ walk # NoCall /\ walk.level \in 2 .. Levels
      /\ walk.level \in 1 .. Levels /\ walk.level \in Nat
      /\ walk.at \in Frame /\ walk.page \in Nat
  <2>1. walk.level > 1 /\ walk.level \in Int
    BY ShapeAssumption DEF MapDescend, TableInv, TypeInv, NoCall, Call
  <2>2. walk.level > 0
    BY <2>1
  <2> QED
    BY <2>1, <2>2, InCall, ShapeAssumption
<1>2. PICK lev : Shaped(lev)
  BY DEF TableInv, BuildInv, Building
<1>3. /\ KernelPageTable \in Frame /\ NoUserEntry(KernelPageTable)
      /\ pageTable = None /\ Digit(Levels, walk.page) \in KernelHalf /\ i >= 0
      /\ TypeInv /\ free \subseteq Frame /\ table \in [Frame -> PageTable]
  BY <1>1 DEF TableInv, BuildInv, Building, TypeInv
<1>4. x \in Index /\ (walk.level = Levels => x \in KernelHalf)
  BY <1>1, <1>3, Indexed
<1>5. UNCHANGED <<KernelPageTable, pageTable, i>>
  BY DEF MapDescend
<1>6. PICK l \in 2 .. Levels, t \in Frame : l = walk.level /\ t = walk.at
  BY <1>1
<1>7. Levels \in Nat /\ l \in Nat /\ l > 1 /\ l <= Levels
  BY <1>6, ShapeAssumption
<1>8. /\ lev \in [Frame -> 0 .. Levels] /\ lev[KernelPageTable] = Levels
      /\ lev[t] = l /\ \A g \in Frame : lev[g] \in Int
      /\ \A g \in free : lev[g] = 0
      /\ \A g \in Frame : lev[g] = Levels => g = KernelPageTable
      /\ \A g \in Frame : lev[g] > 1 =>
           \A y \in Index : table[g][y].present => lev[table[g][y].frame] = lev[g] - 1
  BY <1>1, <1>2, <1>6 DEF Shaped
<1>9. \A g \in Frame : \A y \in Index : table[g][y].frame \in Frame
  BY <1>3 DEF PageTable, PageEntry
<1> HIDE DEF x
<1>10. CASE /\ table[walk.at][x].present /\ Down(table[walk.at][x].frame)
            /\ table' = table /\ free' = free
  <2>1. PICK f \in Frame : f = table[walk.at][x].frame
    BY <1>1, <1>4, <1>9
  <2>2. lev[f] = l - 1
    BY <1>4, <1>6, <1>7, <1>8, <1>10, <2>1
  <2>3. /\ TypeInv' /\ pc' = pc /\ walk' \in Call /\ walk' # NoCall /\ walk'.at = f
        /\ walk'.level = walk.level - 1 /\ walk'.page = walk.page
    BY <1>1, <1>3, <1>5, <1>10, <2>1, Followed
  <2>4. Shaped(lev)'
    <3>1. walk'.level > 0 /\ lev[walk'.at] = walk'.level
      BY <1>6, <1>7, <2>2, <2>3
    <3> QED
      BY <1>5, <1>8, <1>10, <3>1 DEF Shaped
  <2>5. NoUserEntry(KernelPageTable)'
    BY <1>3, <1>5, <1>10 DEF NoUserEntry
  <2> QED
    BY <1>3, <1>5, <2>3, <2>4, <2>5, BuildHolds DEF Building
<1>11. CASE /\ ~table[walk.at][x].present /\ free # {}
            /\ Extended(walk.at, x, allocatePage) /\ free' = free \ {allocatePage}
            /\ Down(allocatePage)
  <2>1. allocatePage \in free
    BY <1>3, <1>11, Allocates
  <2>2. PICK f \in Frame : f = allocatePage
    BY <1>3, <2>1
  <2>3. Extended(t, x, f) /\ free' = free \ {f} /\ Down(f)
    BY <1>6, <1>11, <2>2
  <2>4. walk' = NoCall \/ (walk'.at = f /\ walk'.level = l - 1)
    BY <1>6, <2>3 DEF Down
  <2>5. t = KernelPageTable => x \in KernelHalf
    BY <1>4, <1>6, <1>8
  <2>6. /\ table' \in [Frame -> PageTable] /\ free' \subseteq Frame
        /\ \E lev2 : Shaped(lev2)'
        /\ NoUserEntry(KernelPageTable)'
    BY <1>2, <1>3, <1>4, <1>5, <1>8, <2>1, <2>2, <2>3, <2>4, <2>5, LevelAdded
  <2>7. TypeInv' /\ pc' = pc /\ walk'.page = walk.page
    BY <1>1, <1>3, <1>5, <2>3, <2>6, Followed
  <2> QED
    BY <1>3, <1>5, <2>6, <2>7, BuildHolds DEF Building
<1> QED
  BY <1>1, <1>3, <1>4, <1>10, <1>11, DescendsRight DEF x

(* The last step writes to a table of the lowest level. *)
LEMMA BuildLeafKeeps ==
  ASSUME TableInv, MapLeaf, pc \in {"direct", "image"}
  PROVE  TableInv'
<1> DEFINE x == index(1, walk.page)
<1>1. /\ walk \in Call /\ walk # NoCall /\ walk.level = 1
      /\ walk.at \in Frame /\ walk.page \in Nat /\ walk.frame \in Frame
  <2>1. walk.level = 1 /\ walk.level > 0
    BY DEF MapLeaf
  <2> QED
    BY <2>1, InCall
<1>2. PICK lev : Shaped(lev)
  BY DEF TableInv, BuildInv, Building
<1>3. /\ KernelPageTable \in Frame /\ NoUserEntry(KernelPageTable)
      /\ pageTable = None /\ i >= 0
      /\ TypeInv /\ free \subseteq Frame /\ table \in [Frame -> PageTable]
  BY <1>1 DEF TableInv, BuildInv, Building, TypeInv
<1>4. x \in Index
  <2>1. 1 \in 1 .. Levels
    BY ShapeAssumption
  <2> QED
    BY <1>1, <2>1, Indexed
<1>5. /\ UNCHANGED <<free, KernelPageTable, pageTable, pc, i>> /\ walk' = NoCall
      /\ table' = Written(table, walk.at, x, Entry(walk.frame))
  BY DEF MapLeaf, Written
<1>6. PICK t \in Frame : t = walk.at
  BY <1>1
<1>7. Entry(walk.frame) \in PageEntry
  BY <1>1, Names, Entries
<1> HIDE DEF x
<1>8. /\ table' \in [Frame -> PageTable]
      /\ \A g \in Frame : g # t => table'[g] = table[g]
  BY <1>3, <1>4, <1>5, <1>6, <1>7, EntryWritten
<1>9. lev[t] = 1 /\ t # KernelPageTable
  <2>1. lev[t] = 1 /\ lev[KernelPageTable] = Levels
    BY <1>1, <1>2, <1>6 DEF Shaped
  <2> QED
    BY <2>1, ShapeAssumption
<1>10. TypeInv'
  BY <1>3, <1>5, <1>8 DEF TypeInv
<1>11. Shaped(lev)'
  <2>1. \A g \in Frame : lev[g] > 1 => table'[g] = table[g]
    BY <1>8, <1>9
  <2> QED
    BY <1>2, <1>5, <2>1 DEF Shaped
<1>12. NoUserEntry(KernelPageTable)'
  BY <1>3, <1>5, <1>8, <1>9 DEF NoUserEntry
<1> QED
  BY <1>3, <1>5, <1>10, <1>11, <1>12, BuildHolds DEF Building

-----------------------------------------------------------------------------
(* initializeVirtualMemory *)

(* The first table is the root; nothing is in it. *)
LEMMA RootKeeps ==
  ASSUME TableInv, allocateRootPageTable
  PROVE  TableInv'
<1>1. /\ pc = "root" /\ walk = NoCall /\ pageTable = None
      /\ walk' = NoCall /\ pageTable' = None /\ i' = i
      /\ free \subseteq Frame /\ table \in [Frame -> PageTable] /\ TypeInv
  BY DEF allocateRootPageTable, Goto, TableInv, StartInv, TypeInv
<1>2. CASE free = {}
  <2>1. pc' = "fault" /\ UNCHANGED <<table, free, KernelPageTable>>
    BY <1>2 DEF allocateRootPageTable, Goto
  <2>2. TypeInv'
    BY <1>1, <2>1 DEF TypeInv
  <2> QED
    BY <1>1, <2>1, <2>2, FaultHolds
<1>3. CASE free # {}
  <2>1. PICK f \in free : f = allocatePage
    BY <1>1, <1>3, Allocates
  <2>2. /\ pc' = "direct" /\ KernelPageTable' = f /\ free' = free \ {f}
        /\ table' = [table EXCEPT ![f] = EmptyTable]
    BY <1>3, <2>1 DEF allocateRootPageTable, Goto
  <2>3. /\ f \in Frame /\ table' \in [Frame -> PageTable] /\ table'[f] = EmptyTable
    BY <1>1, <2>1, <2>2, Entries
  <2>4. TypeInv'
    BY <1>1, <2>2, <2>3 DEF TypeInv
  <2> DEFINE lev == [g \in Frame |-> IF g = f THEN Levels ELSE 0]
  <2>5. Shaped(lev)'
    <3>1. Levels \in Nat /\ Levels > 1
      BY ShapeAssumption
    <3>2. /\ lev \in [Frame -> 0 .. Levels] /\ lev[f] = Levels
          /\ \A g \in Frame : g # f => lev[g] = 0
      BY <2>3, <3>1
    <3> HIDE DEF lev
    <3>3. \A g \in Frame : lev[g] > 1 => \A y \in Index : ~table'[g][y].present
      BY <2>3, <3>1, <3>2, Entries
    <3>4. \A g \in Frame : lev[g] = Levels => g = f
      BY <3>1, <3>2
    <3> QED
      BY <1>1, <2>2, <3>2, <3>3, <3>4 DEF Shaped
  <2>6. NoUserEntry(KernelPageTable)'
    BY <2>2, <2>3, Entries DEF NoUserEntry
  <2>7. i' >= 0
    BY <1>1 DEF TableInv, StartInv
  <2> HIDE DEF lev
  <2> QED
    BY <1>1, <2>2, <2>3, <2>4, <2>5, <2>6, <2>7, BuildHolds DEF Building
<1> QED
  BY <1>2, <1>3

(* A call of map in the kernel's table starts at the root. *)
LEMMA CallKeeps ==
  ASSUME TableInv, pc \in {"direct", "image"}, pc' = pc, walk = NoCall,
         NEW p \in Nat, NEW f \in Frame, Digit(Levels, p) \in KernelHalf,
         MapCall(KernelPageTable, p, f), i' = i + 1,
         UNCHANGED <<table, free, KernelPageTable, pageTable>>
  PROVE  TableInv'
<1>1. PICK lev : Shaped(lev)
  BY DEF TableInv, BuildInv, Building
<1>2. /\ KernelPageTable \in Frame /\ NoUserEntry(KernelPageTable)
      /\ pageTable = None /\ i >= 0 /\ i \in Int /\ TypeInv
  BY DEF TableInv, BuildInv, Building, TypeInv
<1>3. Levels \in Nat /\ Levels > 1
  BY ShapeAssumption
<1>4. walk' = [level |-> Levels, root |-> KernelPageTable, page |-> p, frame |-> f,
               at |-> KernelPageTable]
  BY DEF MapCall
<1>5. walk' \in Call /\ walk'.level = Levels /\ walk'.at = KernelPageTable
      /\ walk'.page = p
  BY <1>2, <1>3, <1>4 DEF Call
<1>6. TypeInv' /\ i' >= 0
  BY <1>2, <1>5 DEF TypeInv
<1>7. Shaped(lev)'
  <2>1. walk'.level > 0 /\ lev[walk'.at] = walk'.level
    BY <1>1, <1>3, <1>5 DEF Shaped
  <2> QED
    BY <1>1, <2>1 DEF Shaped
<1>8. NoUserEntry(KernelPageTable)'
  BY <1>2 DEF NoUserEntry
<1> QED
  BY <1>2, <1>5, <1>6, <1>7, <1>8, BuildHolds DEF Building

(* Between two loops nothing of the table changes. *)
LEMMA LoopEnds ==
  ASSUME TableInv, walk = NoCall, walk' = NoCall, i' \in Int,
         \/ pc = "direct" /\ pc' = "image" /\ i' = 0
         \/ pc = "image" /\ pc' = "prealloc"
         \/ pc = "prealloc" /\ pc' \in {"prealloc", "up"},
         UNCHANGED <<table, free, KernelPageTable, pageTable>>
  PROVE  TableInv'
<1>1. PICK lev : Shaped(lev)
  BY DEF TableInv, BuildInv, Building
<1>2. /\ KernelPageTable \in Frame /\ NoUserEntry(KernelPageTable)
      /\ pageTable = None /\ TypeInv
  BY DEF TableInv, BuildInv, Building
<1>3. TypeInv'
  BY <1>2 DEF TypeInv
<1>4. Shaped(lev)' /\ NoUserEntry(KernelPageTable)'
  BY <1>1, <1>2 DEF Shaped, NoUserEntry
<1>5. pc' \in {"direct", "image"} => i' >= 0
  OBVIOUS
<1> QED
  BY <1>2, <1>3, <1>4, <1>5, BuildHolds DEF Building

(* The direct mapping is in the kernel's half. *)
LEMMA MapDirectKeeps ==
  ASSUME TableInv, MapDirect
  PROVE  TableInv'
<1>1. /\ pc = "direct" /\ walk = NoCall /\ i \in Int /\ i >= 0
      /\ UNCHANGED <<table, free, KernelPageTable, pageTable>>
  BY DEF MapDirect, Goto, TableInv, BuildInv, Building, TypeInv
<1>2. CASE i < NumFrames
  <2>1. /\ pc' = pc /\ MapCall(KernelPageTable, DirectMapBase + i, i) /\ i' = i + 1
    BY <1>1, <1>2 DEF MapDirect, Goto
  <2>2. PICK p \in Nat : p = DirectMapBase + i
    BY <1>1, LayoutAssumption
  <2>3. i \in Frame
    BY <1>1, <1>2, ShapeAssumption DEF Frame
  <2>4. p \in DirectMapBase .. KernelStart + KernelPages - 1
    BY <1>1, <1>2, <2>2, LayoutAssumption, ShapeAssumption
  <2>5. Digit(Levels, p) \in KernelHalf
    BY <2>4, HalvesAssumption
  <2> QED
    BY <1>1, <2>1, <2>2, <2>3, <2>5, CallKeeps
<1>3. CASE ~(i < NumFrames)
  <2>1. pc' = "image" /\ i' = 0 /\ walk' = walk
    BY <1>3 DEF MapDirect, Goto
  <2> QED
    BY <1>1, <2>1, LoopEnds
<1> QED
  BY <1>2, <1>3

(* The loop over the upper half starts with a number. *)
LEMMA HalfStarts == Min(KernelHalf) \in Int
<1>1. Fanout \in Nat /\ Fanout > 1
  BY ShapeAssumption
<1>2. KernelHalf \subseteq Nat /\ Fanout - 1 \in KernelHalf
  BY <1>1 DEF KernelHalf
<1>3. PICK m \in KernelHalf : \A n \in KernelHalf : m <= n
  BY <1>2, LeastElement
<1>4. PICK k \in KernelHalf : k = Min(KernelHalf)
  BY <1>3 DEF Min
<1>5. k \in Int
  BY <1>2
<1> QED
  BY <1>4, <1>5

(* The kernel's image is in the kernel's half. *)
LEMMA MapImageKeeps ==
  ASSUME TableInv, MapImage
  PROVE  TableInv'
<1>1. /\ pc = "image" /\ walk = NoCall /\ i \in Int /\ i >= 0
      /\ UNCHANGED <<table, free, KernelPageTable, pageTable>>
  BY DEF MapImage, Goto, TableInv, BuildInv, Building, TypeInv
<1>2. CASE i < KernelPages
  <2>1. /\ pc' = pc /\ MapCall(KernelPageTable, KernelStart + i, ImageFrame + i)
        /\ i' = i + 1
    BY <1>1, <1>2 DEF MapImage, Goto
  <2>2. PICK p \in Nat : p = KernelStart + i
    BY <1>1, LayoutAssumption
  <2>3. PICK f \in Frame : f = ImageFrame + i
    BY <1>1, <1>2, LayoutAssumption, ShapeAssumption DEF Frame
  <2>4. p \in DirectMapBase .. KernelStart + KernelPages - 1
    BY <1>1, <1>2, <2>2, LayoutAssumption, ShapeAssumption
  <2>5. Digit(Levels, p) \in KernelHalf
    BY <2>4, HalvesAssumption
  <2> QED
    BY <1>1, <2>1, <2>2, <2>3, <2>5, CallKeeps
<1>3. CASE ~(i < KernelPages)
  <2>1. pc' = "prealloc" /\ i' = Min(KernelHalf) /\ walk' = walk
    BY <1>3 DEF MapImage, Goto
  <2> QED
    BY <1>1, <2>1, HalfStarts, LoopEnds
<1> QED
  BY <1>2, <1>3

(* The preallocation gives an entry its table, unless the address is cut. *)
LEMMA PreallocatesRight ==
  ASSUME TypeInv, Preallocate, ~lost', KernelPageTable \in Frame
  PROVE  \/ UNCHANGED <<table, free>>
         \/ /\ i \in KernelHalf /\ free # {} /\ ~table[KernelPageTable][i].present
            /\ Extended(KernelPageTable, i, allocatePage) /\ free' = free \ {allocatePage}
<1>1. CASE ~UNCHANGED <<table, free>>
  <2>1. /\ i \in KernelHalf /\ free # {} /\ ~table[KernelPageTable][i].present
        /\ table' = NewTable(KernelPageTable, i, allocatePage)
        /\ free' = free \ {allocatePage}
        /\ lost' = (lost \/ Field(allocatePage) # allocatePage)
    BY <1>1 DEF Preallocate, WithoutTable
  <2>2. PICK f \in Frame : f = allocatePage
    BY <2>1, Allocates DEF TypeInv
  <2>3. Field(f) = f
    BY <2>1, <2>2, Zenon
  <2>4. Entry(f) = Linked(f)
    BY <2>3, Names
  <2> QED
    BY <2>1, <2>2, <2>3, <2>4 DEF NewTable, Extended
<1> QED
  BY <1>1

(* The preallocation writes to the kernel's half of the root. *)
LEMMA PreallocateKeeps ==
  ASSUME TableInv, Preallocate, ~lost'
  PROVE  TableInv'
<1>1. /\ pc = "prealloc" /\ walk = NoCall /\ walk' = NoCall /\ i \in Int /\ i' \in Int
      /\ UNCHANGED <<KernelPageTable, pageTable>> /\ pc' \in {"prealloc", "up"}
  BY DEF Preallocate, Goto, TableInv, TypeInv
<1>2. CASE UNCHANGED <<table, free>>
  BY <1>1, <1>2, LoopEnds
<1>3. CASE ~UNCHANGED <<table, free>>
  <2>1. /\ i \in KernelHalf /\ free # {}
        /\ Extended(KernelPageTable, i, allocatePage) /\ free' = free \ {allocatePage}
    BY <1>1, <1>3, PreallocatesRight DEF TableInv, BuildInv, Building
  <2>2. /\ KernelPageTable \in Frame /\ NoUserEntry(KernelPageTable)
        /\ pageTable = None /\ TypeInv /\ free \subseteq Frame
    BY <1>1 DEF TableInv, BuildInv, Building, TypeInv
  <2>3. PICK lev : Shaped(lev)
    BY <1>1 DEF TableInv, BuildInv, Building
  <2>4. PICK f \in free : f = allocatePage
    BY <2>1, <2>2, Allocates
  <2>5. Levels \in 2 .. Levels /\ lev[KernelPageTable] = Levels
    BY <2>3, ShapeAssumption DEF Shaped
  <2>6. PICK x \in Index : x = i /\ x \in KernelHalf
    BY <2>1, ShapeAssumption DEF KernelHalf, Index
  <2>7. /\ table' \in [Frame -> PageTable] /\ free' \subseteq Frame
        /\ \E lev2 : Shaped(lev2)'
        /\ NoUserEntry(KernelPageTable)'
    BY <1>1, <2>1, <2>2, <2>3, <2>4, <2>5, <2>6, LevelAdded
  <2>8. TypeInv'
    BY <1>1, <2>2, <2>7 DEF TypeInv
  <2> QED
    BY <1>1, <2>2, <2>7, <2>8, BuildHolds DEF Building
<1> QED
  BY <1>2, <1>3

-----------------------------------------------------------------------------
(* The first process *)

(* Once there is a process, the two roots share the kernel's half. *)
LEMMA InProcess ==
  ASSUME TableInv, pageTable # None
  PROVE  /\ TypeInv /\ KernelPageTable \in Frame /\ KernelPageTable \notin free
         /\ pageTable \in Frame /\ pageTable \notin free
         /\ pageTable # KernelPageTable
         /\ \A x \in KernelHalf : table[pageTable][x] = table[KernelPageTable][x]
         /\ free \subseteq Frame /\ table \in [Frame -> PageTable]
         /\ NoUserEntry(KernelPageTable)
  BY DEF TableInv, TypeInv, ProcessInv, HalfCopied

(* The copy of the root has all entries of the kernel's half, and none in  *)
(* the other.                                                              *)
LEMMA CopyKeeps ==
  ASSUME TableInv, shallowCopy
  PROVE  TableInv'
<1>1. /\ pc = "up" /\ walk = NoCall /\ walk' = NoCall
      /\ UNCHANGED <<KernelPageTable, i>>
  BY DEF shallowCopy, Goto
<1>2. /\ TypeInv /\ KernelPageTable \in Frame /\ NoUserEntry(KernelPageTable)
      /\ pageTable = None /\ free \subseteq Frame /\ table \in [Frame -> PageTable]
  BY <1>1 DEF TableInv, BuildInv, Building, TypeInv
<1>3. CASE free = {}
  <2>1. pc' = "fault" /\ UNCHANGED <<table, free, pageTable>>
    BY <1>3 DEF shallowCopy, Goto
  <2>2. TypeInv'
    BY <1>1, <1>2, <2>1 DEF TypeInv
  <2> QED
    BY <1>1, <1>2, <2>1, <2>2, FaultHolds
<1>4. CASE free # {}
  <2>1. PICK f \in free : f = allocatePage
    BY <1>2, <1>4, Allocates
  <2>2. /\ pc' = "copied" /\ pageTable' = f /\ free' = free \ {f}
        /\ table' = [table EXCEPT ![f] = table[KernelPageTable]]
    BY <1>4, <2>1 DEF shallowCopy, Goto, CopyRoot, WholeTable
  <2>3. KernelPageTable \notin free
    <3>1. PICK lev : Shaped(lev)
      BY <1>1 DEF TableInv, BuildInv, Building
    <3> QED
      BY <3>1, ShapeAssumption DEF Shaped
  <2>4. /\ f \in Frame /\ f # KernelPageTable /\ f # None
        /\ table' \in [Frame -> PageTable]
        /\ table'[f] = table[KernelPageTable]
        /\ table'[KernelPageTable] = table[KernelPageTable]
    BY <1>2, <2>1, <2>2, <2>3 DEF Frame, None
  <2>5. TypeInv'
    BY <1>1, <1>2, <2>2, <2>4 DEF TypeInv
  <2>6. NoUserEntry(KernelPageTable)' /\ NoUserEntry(pageTable)' /\ HalfCopied'
    BY <1>1, <1>2, <2>2, <2>4 DEF NoUserEntry, HalfCopied
  <2>7. ProcessInv'
    BY <1>1, <1>2, <2>2, <2>3, <2>4, <2>6 DEF ProcessInv
  <2>8. StartInv' /\ BuildInv'
    BY <2>2, <2>4 DEF StartInv, BuildInv, Building
  <2> QED
    BY <2>5, <2>7, <2>8 DEF TableInv
<1> QED
  BY <1>3, <1>4

(* The call of map for the program starts at the process's root. *)
LEMMA LoadKeeps ==
  ASSUME TableInv, LoadProgram
  PROVE  TableInv'
<1>1. /\ pc = "copied" /\ walk = NoCall
      /\ UNCHANGED <<table, KernelPageTable, pageTable, i>>
  BY DEF LoadProgram, Goto
<1>2. pageTable # None
  BY <1>1 DEF TableInv, StartInv
<1>3. /\ TypeInv /\ KernelPageTable \in Frame /\ KernelPageTable \notin free
      /\ pageTable \in Frame /\ pageTable \notin free
      /\ pageTable # KernelPageTable /\ free \subseteq Frame
  BY <1>2, InProcess
<1>4. HalfCopied /\ NoUserEntry(pageTable) /\ NoUserEntry(KernelPageTable)
  BY <1>1, <1>2 DEF TableInv, ProcessInv
<1>5. HalfCopied' /\ NoUserEntry(pageTable)' /\ NoUserEntry(KernelPageTable)'
  BY <1>1, <1>4 DEF HalfCopied, NoUserEntry
<1>6. CASE free = {}
  <2>1. pc' = "fault" /\ UNCHANGED <<free, walk>>
    BY <1>6 DEF LoadProgram, Goto
  <2>2. TypeInv'
    BY <1>1, <1>3, <2>1 DEF TypeInv
  <2>3. StartInv' /\ BuildInv' /\ ProcessInv'
    BY <1>1, <1>2, <1>3, <1>5, <2>1 DEF StartInv, BuildInv, Building, ProcessInv
  <2> QED
    BY <2>2, <2>3 DEF TableInv
<1>7. CASE free # {}
  <2>1. PICK f \in free : f = allocatePage
    BY <1>3, <1>7, Allocates
  <2>2. /\ pc' = "loaded" /\ free' = free \ {f}
        /\ walk' = [level |-> Levels, root |-> pageTable, page |-> Entrypoint,
                    frame |-> f, at |-> pageTable]
    BY <1>7, <2>1 DEF LoadProgram, Goto, MapCall
  <2>3. /\ walk' \in Call /\ walk'.level = Levels /\ walk'.at = pageTable
        /\ walk'.page = Entrypoint
    BY <1>3, <2>1, <2>2, ShapeAssumption, LayoutAssumption DEF Call
  <2>4. TypeInv'
    BY <1>1, <1>3, <2>2, <2>3 DEF TypeInv
  <2>5. StartInv' /\ BuildInv' /\ ProcessInv'
    BY <1>1, <1>2, <1>3, <1>5, <2>2, <2>3
       DEF StartInv, BuildInv, Building, ProcessInv
  <2> QED
    BY <2>4, <2>5 DEF TableInv
<1> QED
  BY <1>6, <1>7

(* map in the process's table meets no table that is there already. *)
LEMMA ProcessDescendKeeps ==
  ASSUME TableInv, MapDescend, pc = "loaded", ~lost'
  PROVE  TableInv'
<1> DEFINE x == index(walk.level, walk.page)
<1>1. /\ walk \in Call /\ walk # NoCall /\ walk.level \in 2 .. Levels
      /\ walk.level \in 1 .. Levels /\ walk.level \in Nat
      /\ walk.at \in Frame /\ walk.page \in Nat /\ pageTable # None
  <2>1. walk.level > 1 /\ walk.level \in Int
    BY ShapeAssumption DEF MapDescend, TableInv, TypeInv, NoCall, Call
  <2>2. walk.level > 0
    BY <2>1
  <2> QED
    BY <2>1, <2>2, InCall, ShapeAssumption
<1>2. /\ TypeInv /\ KernelPageTable \in Frame /\ KernelPageTable \notin free
      /\ pageTable \in Frame /\ pageTable \notin free
      /\ pageTable # KernelPageTable
      /\ \A y \in KernelHalf : table[pageTable][y] = table[KernelPageTable][y]
      /\ free \subseteq Frame /\ table \in [Frame -> PageTable]
      /\ NoUserEntry(KernelPageTable)
  BY <1>1, InProcess
<1>3. /\ walk.page = Entrypoint /\ walk.at \notin free
      /\ walk.level = Levels => walk.at = pageTable /\ NoUserEntry(pageTable)
      /\ walk.level # Levels => /\ walk.at \notin {pageTable, KernelPageTable}
                                /\ table[walk.at] = EmptyTable
  BY <1>1 DEF TableInv, ProcessInv
<1>4. x \in Index /\ (walk.level = Levels => x \notin KernelHalf)
  BY <1>1, <1>3, Indexed, HalvesAssumption
<1>5. UNCHANGED <<KernelPageTable, pageTable, i>>
  BY DEF MapDescend
<1>6. PICK t \in Frame : t = walk.at
  BY <1>1
<1> HIDE DEF x
<1>7. ~table[walk.at][x].present
  BY <1>3, <1>4, Entries DEF NoUserEntry
<1>8. /\ free # {} /\ Extended(walk.at, x, allocatePage)
      /\ free' = free \ {allocatePage} /\ Down(allocatePage)
  BY <1>1, <1>2, <1>4, <1>7, DescendsRight DEF x
<1>9. PICK f \in free : f = allocatePage
  BY <1>2, <1>8, Allocates
<1>10. Extended(t, x, f) /\ free' = free \ {f} /\ Down(f)
  BY <1>6, <1>8, <1>9
<1>11. f \in Frame /\ f # t /\ f \notin {KernelPageTable, pageTable}
  BY <1>2, <1>3, <1>6
<1>12. /\ table' \in [Frame -> PageTable] /\ table'[f] = EmptyTable
       /\ \A g \in Frame : g \notin {f, t} => table'[g] = table[g]
       /\ table'[t][x] = Linked(f)
       /\ \A y \in Index : y # x => table'[t][y] = table[t][y]
  BY <1>2, <1>4, <1>10, <1>11, TableAdded
<1>13. /\ \A y \in KernelHalf : table'[pageTable][y] = table'[KernelPageTable][y]
       /\ table'[KernelPageTable] = table[KernelPageTable]
  <2>1. t # KernelPageTable
    BY <1>2, <1>3, <1>6
  <2>2. table'[KernelPageTable] = table[KernelPageTable]
    BY <1>2, <1>11, <1>12, <2>1
  <2>3. \A y \in KernelHalf : table'[pageTable][y] = table[pageTable][y]
    <3>1. CASE t = pageTable
      <4>1. x \notin KernelHalf
        BY <1>3, <1>4, <1>6, <3>1
      <4>2. KernelHalf \subseteq Index
        BY ShapeAssumption DEF KernelHalf, Index
      <4>3. \A y \in KernelHalf : y \in Index /\ y # x
        BY <4>1, <4>2
      <4> QED
        BY <1>12, <3>1, <4>3
    <3>2. CASE t # pageTable
      BY <1>2, <1>11, <1>12, <3>2
    <3> QED
      BY <3>1, <3>2
  <2> QED
    BY <1>2, <2>2, <2>3
<1>14. free' \subseteq Frame /\ KernelPageTable \notin free' /\ pageTable \notin free'
       /\ f \notin free'
  BY <1>2, <1>10
<1>15. /\ TypeInv' /\ pc' = pc /\ walk' \in Call /\ walk' # NoCall /\ walk'.at = f
       /\ walk'.level = walk.level - 1 /\ walk'.page = walk.page
  BY <1>1, <1>5, <1>10, <1>11, <1>12, <1>14, Followed
<1>16. walk.level - 1 # Levels
  BY <1>1, ShapeAssumption
<1>17. StartInv' /\ BuildInv'
  BY <1>1, <1>5, <1>15 DEF StartInv, BuildInv, Building
<1>18. ProcessInv'
  <2>1. NoUserEntry(KernelPageTable)'
    BY <1>2, <1>5, <1>13 DEF NoUserEntry
  <2> QED
    BY <1>1, <1>2, <1>3, <1>5, <1>11, <1>12, <1>13, <1>14, <1>15, <1>16, <2>1
       DEF ProcessInv, HalfCopied
<1> QED
  BY <1>15, <1>17, <1>18 DEF TableInv

(* The program is mapped by a table of the process's own. *)
LEMMA ProcessLeafKeeps ==
  ASSUME TableInv, MapLeaf, pc = "loaded"
  PROVE  TableInv'
<1> DEFINE x == index(1, walk.page)
<1>1. /\ walk \in Call /\ walk # NoCall /\ walk.level = 1 /\ walk.at \in Frame
      /\ walk.page \in Nat /\ walk.frame \in Frame /\ pageTable # None
  <2>1. walk.level = 1 /\ walk.level > 0
    BY DEF MapLeaf
  <2> QED
    BY <2>1, InCall
<1>2. /\ TypeInv /\ KernelPageTable \in Frame /\ KernelPageTable \notin free
      /\ pageTable \in Frame /\ pageTable \notin free
      /\ pageTable # KernelPageTable
      /\ \A y \in KernelHalf : table[pageTable][y] = table[KernelPageTable][y]
      /\ table \in [Frame -> PageTable] /\ NoUserEntry(KernelPageTable)
  BY <1>1, InProcess
<1>3. walk.at \notin {pageTable, KernelPageTable}
  <2>1. walk.level # Levels
    BY <1>1, ShapeAssumption
  <2> QED
    BY <1>1, <2>1 DEF TableInv, ProcessInv
<1>4. x \in Index
  <2>1. 1 \in 1 .. Levels
    BY ShapeAssumption
  <2> QED
    BY <1>1, <2>1, Indexed
<1>5. /\ UNCHANGED <<free, KernelPageTable, pageTable, pc, i>> /\ walk' = NoCall
      /\ table' = Written(table, walk.at, x, Entry(walk.frame))
  BY DEF MapLeaf, Written
<1>6. Entry(walk.frame) \in PageEntry
  BY <1>1, Names, Entries
<1> HIDE DEF x
<1>7. /\ table' \in [Frame -> PageTable]
      /\ \A g \in Frame : g # walk.at => table'[g] = table[g]
  BY <1>1, <1>2, <1>4, <1>5, <1>6, EntryWritten
<1>8. /\ table'[pageTable] = table[pageTable]
      /\ table'[KernelPageTable] = table[KernelPageTable]
  BY <1>2, <1>3, <1>7
<1>9. TypeInv'
  BY <1>2, <1>5, <1>7 DEF TypeInv
<1>10. StartInv' /\ BuildInv' /\ ProcessInv'
  BY <1>1, <1>2, <1>5, <1>8
     DEF StartInv, BuildInv, Building, ProcessInv, HalfCopied, NoUserEntry
<1> QED
  BY <1>9, <1>10 DEF TableInv

(* Loading cr3, and pages taken by others, change no table. *)
LEMMA OthersKeep ==
  ASSUME TableInv, LoadProcessTable \/ OtherAllocation \/ UNCHANGED vars
  PROVE  TableInv'
<1>1. /\ UNCHANGED <<table, KernelPageTable, pageTable, i, walk>>
      /\ free' \subseteq free /\ TypeInv
      /\ \/ pc' = pc
         \/ pc = "loaded" /\ walk = NoCall /\ pc' = "running"
  BY DEF LoadProcessTable, OtherAllocation, Goto, vars, TableInv
<1>2. TypeInv'
  BY <1>1 DEF TypeInv
<1>3. StartInv'
  BY <1>1 DEF TableInv, StartInv
<1>4. BuildInv'
  <2>1. \A lev : Shaped(lev) => Shaped(lev)'
    BY <1>1 DEF Shaped
  <2>2. NoUserEntry(KernelPageTable)' = NoUserEntry(KernelPageTable)
    BY <1>1 DEF NoUserEntry
  <2> QED
    BY <1>1, <2>1, <2>2 DEF TableInv, BuildInv, Building
<1>5. ProcessInv'
  BY <1>1 DEF TableInv, ProcessInv, HalfCopied, NoUserEntry
<1> QED
  BY <1>2, <1>3, <1>4, <1>5 DEF TableInv

(* Boot starts without tables. *)
LEMMA InitHolds == Init => TableInv
<1> SUFFICES ASSUME Init PROVE TableInv
  OBVIOUS
<1>1. TypeInv
  BY UsableAssumption, ShapeAssumption DEF Init, TypeInv, PageTable, PageEntry
<1> QED
  BY <1>1 DEF Init, TableInv, StartInv, BuildInv, Building, ProcessInv

-----------------------------------------------------------------------------
(* The entries of the two roots *)

(* No step finds the way back. *)
LEMMA StillLost ==
  ASSUME [Next]_vars, ~lost'
  PROVE  ~lost
<1>1. CASE MapDescend
  <2>1. PICK f, r : Follow(f, r)
    BY <1>1, Zenon DEF MapDescend
  <2> QED
    BY <2>1, Zenon DEF Follow
<1>2. CASE Preallocate
  BY <1>2, Zenon DEF Preallocate
<1>3. CASE UNCHANGED lost
  BY <1>3
<1> QED
  BY <1>1, <1>2, <1>3
     DEF Next, Step, MapLeaf, allocateRootPageTable, MapDirect, MapImage, shallowCopy,
         LoadProgram, LoadProcessTable, LostFault, OtherAllocation, vars

(* At every moment of boot, as long as map gets its tables and loses no    *)
(* address, the tables have levels, map reaches the root with its first    *)
(* step only, and once there is a process no step of map writes to the     *)
(* kernel's half.                                                          *)
THEOREM Invariance == Spec => [](~lost => TableInv)
<1>1. ASSUME TableInv, [Next]_vars, ~lost' PROVE TableInv'
  <2>1. CASE MapDescend
    <3>1. walk.level > 0
      <4>1. walk.level > 1 /\ walk.level \in Int
        BY <1>1, <2>1, ShapeAssumption DEF MapDescend, TableInv, TypeInv, NoCall, Call
      <4> QED
        BY <4>1
    <3> QED
      BY <1>1, <2>1, <3>1, InCall, BuildDescendKeeps, ProcessDescendKeeps
  <2>2. CASE MapLeaf
    <3>1. walk.level > 0
      BY <2>2 DEF MapLeaf
    <3> QED
      BY <1>1, <2>2, <3>1, InCall, BuildLeafKeeps, ProcessLeafKeeps
  <2>3. CASE LoadProcessTable \/ OtherAllocation \/ UNCHANGED vars
    BY <1>1, <2>3, OthersKeep
  <2>4. ~LostFault
    BY <1>1, StillLost DEF LostFault
  <2> QED
    BY <1>1, <2>1, <2>2, <2>3, <2>4, RootKeeps, MapDirectKeeps, MapImageKeeps,
       PreallocateKeeps, CopyKeeps, LoadKeeps DEF Next, Step
<1>2. ASSUME ~lost => TableInv, [Next]_vars PROVE (~lost => TableInv)'
  BY <1>1, <1>2, StillLost
<1>3. Init => (~lost => TableInv)
  BY InitHolds
<1> QED
  BY <1>2, <1>3, PTL DEF Spec

(* The root of a process has the kernel's entries in the kernel's half, as *)
(* long as map gets its tables and loses no address: what map does for the *)
(* process leaves both roots alone there (initializeVirtualMemory,         *)
(* shallowCopy, map).                                                      *)
THEOREM HalfShared == Spec => []KernelHalfShared
<1>1. (~lost => TableInv) => KernelHalfShared
  BY DEF TableInv, ProcessInv, HalfCopied, KernelHalfShared
<1> QED
  BY Invariance, <1>1, PTL

-----------------------------------------------------------------------------
(* Page numbers, and the processor's walk *)

(* Dividing twice, and the digit in between. *)
LEMMA NestedDivision ==
  ASSUME NEW p \in Nat, NEW a \in Nat \ {0}, NEW b \in Nat \ {0}
  PROVE  p \div a = b * (p \div (b * a)) + ((p \div a) % b)
<1>1. PICK q \in Nat : q = p \div a
  OBVIOUS
<1>2. PICK s \in Nat, d \in 0 .. b - 1 : q = b * s + d /\ d = q % b
  <2>1. q \div b \in Nat /\ q % b \in 0 .. b - 1 /\ q = b * (q \div b) + (q % b)
    OBVIOUS
  <2> QED
    BY <2>1
<1>3. PICK r \in 0 .. a - 1 : p = a * q + r
  <2>1. p % a \in 0 .. a - 1 /\ p = a * (p \div a) + (p % a)
    OBVIOUS
  <2> QED
    BY <1>1, <2>1
<1>4. PICK c \in Nat \ {0} : c = b * a
  OBVIOUS
<1>5. a * q = c * s + a * d
  <2>1. a * q = a * (b * s) + a * d
    BY <1>2
  <2>2. a * (b * s) = (b * a) * s
    BY <1>2
  <2> QED
    BY <1>4, <2>1, <2>2
<1>6. a * d + r \in 0 .. c - 1
  <2>1. a * d <= a * (b - 1)
    BY <1>2
  <2>2. a * (b - 1) = c - a
    BY <1>4
  <2>3. a * d \in Nat
    BY <1>2
  <2> QED
    BY <1>3, <2>1, <2>2, <2>3
<1>7. PICK e \in 0 .. c - 1 : e = a * d + r
  BY <1>6
<1>8. p = c * s + e
  BY <1>3, <1>5, <1>7
<1>9. p \div c = s
  BY <1>4, <1>7, <1>8
<1> QED
  BY <1>1, <1>2, <1>4, <1>9

(* A page number without its lower digits ends in the digit of the level. *)
LEMMA Spelled ==
  ASSUME NEW l \in 1 .. Levels, NEW p \in Nat
  PROVE  Above(l - 1, p) = Fanout * Above(l, p) + Digit(l, p)
<1>1. l - 1 \in 0 .. Levels /\ l - 1 + 1 = l /\ Fanout \in Nat \ {0}
  BY ShapeAssumption
<1>2. /\ Fanout^(l - 1) \in Nat \ {0}
      /\ Fanout^(l - 1 + 1) = Fanout * Fanout^(l - 1)
  BY <1>1, PowerAssumption
<1>3. PICK a \in Nat \ {0} : a = Fanout^(l - 1)
  BY <1>2
<1>4. Fanout^l = Fanout * a
  BY <1>1, <1>2, <1>3
<1> QED
  <2>1. p \div a = Fanout * (p \div (Fanout * a)) + ((p \div a) % Fanout)
    BY <1>1, NestedDivision
  <2>2. Above(l - 1, p) = p \div a /\ Digit(l, p) = (p \div a) % Fanout
    BY <1>3 DEF Above, Digit
  <2>3. Above(l, p) = p \div (Fanout * a)
    BY <1>4 DEF Above
  <2> QED
    BY <2>1, <2>2, <2>3

(* What holds at the root and goes one level down holds at all levels. *)
LEMMA Downwards ==
  ASSUME NEW T, Levels \in T, \A l \in 0 .. Levels - 1 : l + 1 \in T => l \in T
  PROVE  \A l \in 0 .. Levels : l \in T
<1> SUFFICES ASSUME \E l \in 0 .. Levels : l \notin T PROVE FALSE
  OBVIOUS
<1> DEFINE D == {n \in 0 .. Levels : Levels - n \notin T}
<1>1. Levels \in Nat
  BY ShapeAssumption
<1>2. PICK k \in 0 .. Levels : k \notin T
  OBVIOUS
<1>3. Levels - k \in 0 .. Levels /\ Levels - (Levels - k) = k
  BY <1>1
<1>4. D # {} /\ D \subseteq Nat
  <2>1. Levels - k \in D
    BY <1>2, <1>3
  <2>2. D \subseteq Nat
    BY <1>1
  <2> HIDE DEF D
  <2> QED
    BY <2>1, <2>2
<1>5. PICK n \in D : \A q \in D : n <= q
  BY <1>4, LeastElement
<1>6. n \in 0 .. Levels /\ Levels - n \notin T
  BY <1>5
<1>7. n # 0
  BY <1>1, <1>6
<1>8. n - 1 \in 0 .. Levels /\ ~(n <= n - 1)
  BY <1>1, <1>6, <1>7
<1>9. Levels - (n - 1) \in T
  BY <1>5, <1>8
<1>10. Levels - n \in 0 .. Levels - 1 /\ Levels - n + 1 = Levels - (n - 1)
  BY <1>1, <1>6, <1>7
<1> QED
  BY <1>6, <1>9, <1>10

(* g is the processor's walk as far down as lo. *)
Unfolds(g, lo, m, root, page) ==
  g = [l \in lo .. Levels |->
         IF l = Levels THEN root ELSE Below(m, g[l + 1], l + 1, page)]

(* There is such a walk: it starts at the root, and its table at a level is *)
(* what the table above it has in the entry for that digit.                 *)
LEMMA PathUnfolds ==
  ASSUME NEW m, NEW root, NEW page
  PROVE  /\ Path(m, root, page)[Levels] = root
         /\ \A l \in 0 .. Levels - 1 :
              Path(m, root, page)[l] = Below(m, Path(m, root, page)[l + 1], l + 1, page)
<1> DEFINE T == {lo \in 0 .. Levels : \E g : Unfolds(g, lo, m, root, page)}
<1>1. Levels \in Nat
  BY ShapeAssumption
<1>2. Levels \in T
  <2> DEFINE g == [l \in Levels .. Levels |-> root]
  <2>1. g = [l \in Levels .. Levels |->
               IF l = Levels THEN root ELSE Below(m, g[l + 1], l + 1, page)]
    BY <1>1
  <2>2. Unfolds(g, Levels, m, root, page)
    BY <2>1 DEF Unfolds
  <2> QED
    BY <1>1, <2>2
<1>3. ASSUME NEW lo \in 0 .. Levels - 1, lo + 1 \in T PROVE lo \in T
  <2>1. PICK g : Unfolds(g, lo + 1, m, root, page)
    BY <1>3
  <2> DEFINE h == [l \in lo .. Levels |->
                     IF l = lo THEN Below(m, g[l + 1], l + 1, page) ELSE g[l]]
  <2>2. \A l \in lo + 1 .. Levels :
          g[l] = IF l = Levels THEN root ELSE Below(m, g[l + 1], l + 1, page)
    BY <2>1 DEF Unfolds
  <2>3. ASSUME NEW l \in lo .. Levels
        PROVE  h[l] = IF l = Levels THEN root ELSE Below(m, h[l + 1], l + 1, page)
    <3>1. l # Levels => l + 1 \in lo .. Levels /\ l + 1 # lo /\ h[l + 1] = g[l + 1]
      BY <1>1, <1>3, <2>3
    <3>2. l = lo => l # Levels
      BY <1>1, <1>3
    <3>3. l # lo => l \in lo + 1 .. Levels
      BY <1>1, <1>3, <2>3
    <3>4. CASE l = lo
      BY <3>1, <3>2, <3>4
    <3>5. CASE l # lo
      BY <2>2, <3>1, <3>3, <3>5
    <3> QED
      BY <3>4, <3>5
  <2>4. h = [l \in lo .. Levels |-> h[l]]
    OBVIOUS
  <2> HIDE DEF h
  <2>5. Unfolds(h, lo, m, root, page)
    BY <2>3, <2>4 DEF Unfolds
  <2>6. lo \in 0 .. Levels
    BY <1>1, <1>3
  <2> QED
    BY <2>5, <2>6
<1> HIDE DEF T
<1>4. 0 \in T
  <2>1. 0 \in 0 .. Levels
    BY <1>1
  <2> QED
    BY <1>2, <1>3, <2>1, Downwards
<1>5. \E g : g = [l \in 0 .. Levels |->
         IF l = Levels THEN root ELSE Below(m, g[l + 1], l + 1, page)]
  BY <1>4 DEF T, Unfolds
<1>6. Path(m, root, page) = [l \in 0 .. Levels |->
         IF l = Levels THEN root
         ELSE Below(m, Path(m, root, page)[l + 1], l + 1, page)]
  BY <1>5 DEF Path
<1>7. Levels \in 0 .. Levels /\ \A l \in 0 .. Levels - 1 : l \in 0 .. Levels /\ l # Levels
  BY <1>1
<1> QED
  BY <1>6, <1>7

(* Where a walk comes to at a level is a table of that level for pages     *)
(* with those upper digits.                                                *)
LEMMA PathPlaces ==
  ASSUME NEW m \in [Frame -> PageTable], NEW lev, NEW pre, Nested(m, lev, pre),
         NEW root \in Frame, lev[root] = Levels, pre[root] = 0, NEW p \in VirtualPage,
         NEW q, q = Path(m, root, p)
  PROVE  \A l \in 1 .. Levels :
           q[l] = None \/ (q[l] \in Frame /\ lev[q[l]] = l /\ pre[q[l]] = Above(l, p))
<1> DEFINE Placed(l) ==
             q[l] = None \/ (q[l] \in Frame /\ lev[q[l]] = l /\ pre[q[l]] = Above(l, p))
           T == {l \in 0 .. Levels : l = 0 \/ Placed(l)}
<1>1. Levels \in Nat /\ Levels > 1 /\ Fanout \in Nat
  BY ShapeAssumption
<1>2. p \in Nat /\ Above(Levels, p) = 0
  <2>1. Fanout^Levels \in Nat \ {0}
    BY <1>1, PowerAssumption
  <2>2. PICK n \in Nat \ {0} : n = Fanout^Levels
    BY <2>1
  <2>3. p \in 0 .. n - 1
    BY <2>2 DEF VirtualPage
  <2>4. p \div n = 0
    BY <2>2, <2>3
  <2> QED
    BY <2>2, <2>3, <2>4 DEF Above
<1>3. /\ q[Levels] = root
      /\ \A l \in 0 .. Levels - 1 : q[l] = Below(m, q[l + 1], l + 1, p)
  BY PathUnfolds
<1>4. Levels \in T
  BY <1>1, <1>2, <1>3
<1>5. ASSUME NEW l \in 0 .. Levels - 1, l + 1 \in T PROVE l \in T
  <2>1. l \in 0 .. Levels /\ l + 1 \in 1 .. Levels /\ l + 1 - 1 = l /\ l + 1 # 0
    BY <1>1
  <2>2. Placed(l + 1) /\ q[l] = Below(m, q[l + 1], l + 1, p)
    BY <1>3, <1>5, <2>1
  <2>3. CASE l = 0
    BY <2>1, <2>3
  <2>4. CASE l # 0 /\ q[l] # None
    <3>1. PICK x \in Index : x = Digit(l + 1, p)
      BY <1>2, <2>1, Indexed
    <3>2. /\ q[l + 1] \in Frame /\ lev[q[l + 1]] = l + 1
          /\ pre[q[l + 1]] = Above(l + 1, p)
          /\ m[q[l + 1]][x].present /\ q[l] = m[q[l + 1]][x].frame
      BY <2>2, <2>4, <3>1 DEF Below
    <3>3. PICK f \in Frame : f = q[l + 1]
      BY <3>2
    <3>4. m[f][x].frame \in Frame
      BY DEF PageTable, PageEntry
    <3>5. lev[f] > 1
      BY <2>1, <2>4, <3>2, <3>3
    <3>6. lev[q[l]] = l + 1 - 1 /\ pre[q[l]] = Fanout * pre[f] + x
      BY <3>2, <3>3, <3>5 DEF Nested
    <3>7. Above(l + 1 - 1, p) = Fanout * Above(l + 1, p) + Digit(l + 1, p)
      BY <1>2, <2>1, Spelled
    <3>8. pre[q[l]] = Above(l, p)
      BY <2>1, <3>1, <3>2, <3>3, <3>6, <3>7
    <3>9. q[l] \in Frame
      BY <3>2, <3>3, <3>4
    <3> QED
      BY <2>1, <3>6, <3>8, <3>9
  <2>5. CASE q[l] = None
    BY <2>1, <2>5
  <2> QED
    BY <2>3, <2>4, <2>5
<1> HIDE DEF T
<1>6. \A l \in 0 .. Levels : l \in T
  BY <1>4, <1>5, Downwards
<1>7. \A l \in 1 .. Levels : l \in 0 .. Levels /\ l # 0
  BY <1>1
<1>8. \A l \in 1 .. Levels : Placed(l)
  BY <1>6, <1>7 DEF T
<1> QED
  BY <1>8

(* Two walks that go alike from tables with the same entries. *)
LEMMA PathAgrees ==
  ASSUME NEW m, NEW m2, NEW r, NEW r2, NEW p, NEW q, q = Path(m, r, p),
         NEW q2, q2 = Path(m2, r2, p), NEW k \in 0 .. Levels, NEW j \in k .. Levels,
         q2[j] = q[j],
         \A l \in k + 1 .. j : Below(m2, q[l], l, p) = Below(m, q[l], l, p)
  PROVE  \A l \in k .. j : q2[l] = q[l]
<1> DEFINE T == {l \in 0 .. Levels : l \in k .. j => q2[l] = q[l]}
<1>1. Levels \in Nat /\ k \in Nat /\ j \in Nat /\ k <= j /\ j <= Levels
  BY ShapeAssumption
<1>2. /\ \A l \in 0 .. Levels - 1 : q[l] = Below(m, q[l + 1], l + 1, p)
      /\ \A l \in 0 .. Levels - 1 : q2[l] = Below(m2, q2[l + 1], l + 1, p)
  BY PathUnfolds
<1>3. Levels \in T
  <2>1. Levels \in k .. j => Levels = j
    BY <1>1
  <2> QED
    BY <1>1, <2>1
<1>4. ASSUME NEW l \in 0 .. Levels - 1, l + 1 \in T PROVE l \in T
  <2>1. l \in 0 .. Levels
    BY <1>1
  <2>2. CASE l \in k .. j /\ l # j
    <3>1. l + 1 \in k .. j /\ l + 1 \in k + 1 .. j
      BY <1>1, <2>2
    <3>2. q2[l + 1] = q[l + 1]
      BY <1>4, <3>1
    <3>3. q2[l] = q[l]
      BY <1>2, <3>1, <3>2
    <3> QED
      BY <2>1, <3>3
  <2>3. CASE l \notin k .. j \/ l = j
    BY <2>1, <2>3
  <2> QED
    BY <2>2, <2>3
<1> HIDE DEF T
<1>5. \A l \in 0 .. Levels : l \in T
  BY <1>3, <1>4, Downwards
<1>6. \A l \in k .. j : l \in 0 .. Levels
  BY <1>1
<1> QED
  BY <1>5, <1>6 DEF T

(* A walk that has ended does not go on. *)
LEMMA PathEnds ==
  ASSUME NEW m, NEW r, NEW p, NEW q, q = Path(m, r, p),
         NEW j \in 0 .. Levels, q[j] = None
  PROVE  \A l \in 0 .. j : q[l] = None
<1> DEFINE T == {l \in 0 .. Levels : l \in 0 .. j => q[l] = None}
<1>1. Levels \in Nat /\ j \in Nat /\ j <= Levels
  BY ShapeAssumption
<1>2. \A l \in 0 .. Levels - 1 : q[l] = Below(m, q[l + 1], l + 1, p)
  BY PathUnfolds
<1>3. Levels \in T
  <2>1. Levels \in 0 .. j => Levels = j
    BY <1>1
  <2> QED
    BY <1>1, <2>1
<1>4. ASSUME NEW l \in 0 .. Levels - 1, l + 1 \in T PROVE l \in T
  <2>1. l \in 0 .. Levels
    BY <1>1
  <2>2. CASE l \in 0 .. j /\ l # j
    <3>1. l + 1 \in 0 .. j
      BY <1>1, <2>2
    <3>2. q[l + 1] = None
      BY <1>4, <3>1
    <3>3. q[l] = None
      BY <1>2, <3>2 DEF Below
    <3> QED
      BY <2>1, <3>3
  <2>3. CASE l \notin 0 .. j \/ l = j
    BY <2>1, <2>3
  <2> QED
    BY <2>2, <2>3
<1> HIDE DEF T
<1>5. \A l \in 0 .. Levels : l \in T
  BY <1>3, <1>4, Downwards
<1>6. \A l \in 0 .. j : l \in 0 .. Levels
  BY <1>1
<1> QED
  BY <1>5, <1>6 DEF T

(* Two roots with the same entry for a page lead to the same frame. *)
LEMMA RootsAlike ==
  ASSUME NEW m, NEW m2, NEW r \in Frame, NEW r2 \in Frame, NEW p,
         m2[r2][Digit(Levels, p)] = m[r][Digit(Levels, p)],
         NEW q, q = Path(m, r, p), \A l \in 1 .. Levels - 1 : q[l] # None => m2[q[l]] = m[q[l]]
  PROVE  Path(m2, r2, p)[0] = q[0]
<1> DEFINE q2 == Path(m2, r2, p)
<1>1. Levels \in Nat /\ Levels > 1 /\ Levels - 1 + 1 = Levels /\ 0 + 1 = 1
  BY ShapeAssumption
<1>2. /\ q[Levels] = r /\ q2[Levels] = r2
      /\ \A l \in 0 .. Levels - 1 : q[l] = Below(m, q[l + 1], l + 1, p)
      /\ \A l \in 0 .. Levels - 1 : q2[l] = Below(m2, q2[l + 1], l + 1, p)
  BY PathUnfolds
<1>3. Levels - 1 \in 0 .. Levels - 1 /\ 0 \in 0 .. Levels /\ Levels - 1 \in 0 .. Levels
  BY <1>1
<1>4. r # None /\ r2 # None
  BY ShapeAssumption DEF Frame, None
<1>5. q2[Levels - 1] = q[Levels - 1]
  BY <1>1, <1>2, <1>3, <1>4 DEF Below
<1>6. \A l \in 0 + 1 .. Levels - 1 : Below(m2, q[l], l, p) = Below(m, q[l], l, p)
  BY <1>1 DEF Below
<1> HIDE DEF q2
<1>7. \A l \in 0 .. Levels - 1 : q2[l] = q[l]
  <2>1. q2 = Path(m2, r2, p)
    BY DEF q2
  <2> QED
    BY <1>3, <1>5, <1>6, <2>1, PathAgrees
<1>8. 0 \in 0 .. Levels - 1
  BY <1>1
<1> QED
  BY <1>7, <1>8 DEF q2

(* A root without an entry for a page maps nothing there. *)
LEMMA NothingThere ==
  ASSUME NEW m, NEW r \in Frame, NEW p, ~m[r][Digit(Levels, p)].present
  PROVE  Path(m, r, p)[0] = None
<1> DEFINE q == Path(m, r, p)
<1>1. Levels \in Nat /\ Levels > 1 /\ Levels - 1 + 1 = Levels
      /\ Levels - 1 \in 0 .. Levels - 1 /\ Levels - 1 \in 0 .. Levels
      /\ 0 \in 0 .. Levels - 1
  BY ShapeAssumption
<1>2. /\ q[Levels] = r
      /\ \A l \in 0 .. Levels - 1 : q[l] = Below(m, q[l + 1], l + 1, p)
  BY PathUnfolds
<1>3. q[Levels - 1] = None
  BY <1>1, <1>2 DEF Below
<1> HIDE DEF q
<1>4. \A l \in 0 .. Levels - 1 : q[l] = None
  <2>1. q = Path(m, r, p)
    BY DEF q
  <2> QED
    BY <1>1, <1>3, <2>1, PathEnds
<1> QED
  BY <1>1, <1>4 DEF q

-----------------------------------------------------------------------------
(* What a change of the tables does to the walks *)

(* m2 has a new table f below the entry x of t, which had none. *)
Grown(m, m2, t, x, f) ==
  /\ ~m[t][x].present /\ m2[f] = EmptyTable /\ m2[t][x] = Linked(f)
  /\ \A g \in Frame : g \notin {f, t} => m2[g] = m[g]
  /\ \A y \in Index : y # x => m2[t][y] = m[t][y]

(* A new table adds a step to walks that ended there, and no page. *)
LEMMA PathGrows ==
  ASSUME NEW m \in [Frame -> PageTable], NEW lev, NEW pre, Nested(m, lev, pre),
         NEW root \in Frame, lev[root] = Levels, pre[root] = 0, NEW p \in VirtualPage,
         NEW k \in 2 .. Levels, NEW t \in Frame, lev[t] = k, NEW x \in Index,
         NEW f \in Frame, lev[f] = 0, NEW m2, Grown(m, m2, t, x, f),
         NEW q, q = Path(m, root, p), NEW q2, q2 = Path(m2, root, p)
  PROVE  q2[0] = q[0] /\ \A l \in k .. Levels : q2[l] = q[l]
<1>1. /\ Levels \in Nat /\ k \in Nat /\ k > 1 /\ k <= Levels /\ 0 + 1 = 1
      /\ Levels \in k .. Levels /\ k \in 0 .. Levels /\ k \in k .. Levels
      /\ 0 \in 0 .. Levels /\ Levels \in 0 .. Levels
  BY ShapeAssumption
<1>2. p \in Nat
  <2>1. Fanout^Levels \in Nat
    BY <1>1, PowerAssumption
  <2> QED
    BY <2>1 DEF VirtualPage
<1>3. /\ q[Levels] = root /\ q2[Levels] = root
      /\ \A l \in 0 .. Levels - 1 : q[l] = Below(m, q[l + 1], l + 1, p)
      /\ \A l \in 0 .. Levels - 1 : q2[l] = Below(m2, q2[l + 1], l + 1, p)
  BY PathUnfolds
<1>4. \A l \in 1 .. Levels : q[l] = None \/ (q[l] \in Frame /\ lev[q[l]] = l)
  BY PathPlaces
<1>5. \A l \in k .. Levels : q2[l] = q[l]
  <2>1. ASSUME NEW l \in k + 1 .. Levels
        PROVE  Below(m2, q[l], l, p) = Below(m, q[l], l, p)
    <3>1. l \in 1 .. Levels /\ l # k /\ l # 0
      BY <1>1
    <3>2. q[l] # None => q[l] \in Frame /\ q[l] # t /\ q[l] # f
      BY <1>4, <3>1
    <3>3. q[l] # None => m2[q[l]] = m[q[l]]
      BY <3>2 DEF Grown
    <3> QED
      BY <3>3 DEF Below
  <2>2. q2[Levels] = q[Levels]
    BY <1>3
  <2> QED
    BY <1>1, <2>1, <2>2, PathAgrees
<1>6. CASE q[k] = t /\ Digit(k, p) = x
  <2>1. /\ k - 1 \in 0 .. Levels - 1 /\ k - 1 + 1 = k /\ k - 1 \in 0 .. Levels
        /\ k - 2 \in 0 .. Levels - 1 /\ k - 2 + 1 = k - 1 /\ k - 2 \in 0 .. Levels
        /\ 0 \in 0 .. k - 1 /\ 0 \in 0 .. k - 2 /\ k - 1 \in 1 .. Levels
    BY <1>1
  <2>2. q[k - 1] = None
    BY <1>3, <1>6, <2>1 DEF Below, Grown
  <2>3. q[0] = None
    <3>1. \A l \in 0 .. k - 1 : q[l] = None
      BY <2>1, <2>2, PathEnds
    <3> QED
      BY <2>1, <3>1
  <2>4. q2[k] = t /\ t # None /\ f # None
    BY <1>1, <1>5, <1>6, ShapeAssumption DEF Frame, None
  <2>5. q2[k - 1] = f
    BY <1>3, <1>6, <2>1, <2>4, Entries DEF Below, Grown
  <2>6. Digit(k - 1, p) \in Index
    BY <1>2, <2>1, Indexed
  <2>7. q2[k - 2] = None
    BY <1>3, <2>1, <2>5, <2>6, Entries DEF Below, Grown
  <2>8. q2[0] = None
    <3>1. \A l \in 0 .. k - 2 : q2[l] = None
      BY <2>1, <2>7, PathEnds
    <3> QED
      BY <2>1, <3>1
  <2> QED
    BY <1>5, <2>3, <2>8
<1>7. CASE ~(q[k] = t /\ Digit(k, p) = x)
  <2>1. ASSUME NEW l \in 0 + 1 .. Levels
        PROVE  Below(m2, q[l], l, p) = Below(m, q[l], l, p)
    <3>1. l \in 1 .. Levels /\ l # 0
      BY <1>1
    <3>2. Digit(l, p) \in Index
      BY <1>2, <3>1, Indexed
    <3>3. q[l] # None => q[l] \in Frame /\ q[l] # f /\ (q[l] = t => l = k)
      BY <1>4, <3>1
    <3>4. q[l] # None => m2[q[l]][Digit(l, p)] = m[q[l]][Digit(l, p)]
      <4>1. CASE q[l] = t
        BY <1>7, <3>2, <3>3, <4>1 DEF Grown
      <4>2. CASE q[l] # t
        BY <3>3, <4>2 DEF Grown
      <4> QED
        BY <4>1, <4>2
    <3> QED
      BY <3>4 DEF Below
  <2>2. q2[Levels] = q[Levels]
    BY <1>3
  <2>3. \A l \in 0 .. Levels : q2[l] = q[l]
    BY <1>1, <2>1, <2>2, PathAgrees
  <2> QED
    BY <1>1, <1>5, <2>3
<1> QED
  BY <1>6, <1>7

(* The new table has the next lower level and one digit more. *)
LEMMA GrownNested ==
  ASSUME NEW m \in [Frame -> PageTable], NEW lev, NEW pre, Nested(m, lev, pre),
         NEW k \in 2 .. Levels, NEW t \in Frame, lev[t] = k, NEW x \in Index,
         NEW f \in Frame, lev[f] = 0, NEW m2, Grown(m, m2, t, x, f)
  PROVE  \E lev2, pre2 :
           /\ Nested(m2, lev2, pre2)
           /\ \A g \in Frame : g # f => lev2[g] = lev[g] /\ pre2[g] = pre[g]
<1> DEFINE lev2 == [lev EXCEPT ![f] = k - 1]
           pre2 == [pre EXCEPT ![f] = Fanout * pre[t] + x]
<1>1. /\ Levels \in Nat /\ k \in Nat /\ k > 1 /\ k <= Levels /\ Fanout \in Nat
      /\ Index \subseteq Nat
  BY ShapeAssumption DEF Index
<1>2. /\ lev \in [Frame -> 0 .. Levels] /\ pre \in [Frame -> Nat]
      /\ \A g \in Frame : lev[g] \in Int
      /\ \A g \in Frame : lev[g] > 1 =>
           \A y \in Index : m[g][y].present =>
             /\ lev[m[g][y].frame] = lev[g] - 1
             /\ pre[m[g][y].frame] = Fanout * pre[g] + y
  BY DEF Nested
<1>3. Fanout * pre[t] + x \in Nat
  <2>1. PICK n \in Nat : n = pre[t]
    BY <1>2
  <2>2. PICK y \in Nat : y = x
    BY <1>1
  <2> QED
    BY <1>1, <2>1, <2>2
<1>4. /\ lev2 \in [Frame -> 0 .. Levels] /\ lev2[f] = k - 1
      /\ pre2 \in [Frame -> Nat] /\ pre2[f] = Fanout * pre[t] + x
      /\ \A g \in Frame : g # f => lev2[g] = lev[g] /\ pre2[g] = pre[g]
  BY <1>1, <1>2, <1>3
<1> HIDE DEF lev2, pre2
<1>5. ASSUME NEW g \in Frame, lev2[g] > 1, NEW y \in Index, m2[g][y].present
      PROVE  /\ lev2[m2[g][y].frame] = lev2[g] - 1
             /\ pre2[m2[g][y].frame] = Fanout * pre2[g] + y
  <2>1. g # f
    BY <1>5, Entries DEF Grown
  <2>2. lev2[g] = lev[g] /\ pre2[g] = pre[g] /\ lev[g] > 1
    BY <1>4, <1>5, <2>1
  <2>3. CASE g = t /\ y = x
    BY <1>4, <2>2, <2>3, Entries DEF Grown
  <2>4. CASE g # t \/ y # x
    <3>1. m2[g][y] = m[g][y]
      BY <2>1, <2>4 DEF Grown
    <3>2. PICK h \in Frame : h = m[g][y].frame
      BY DEF PageTable, PageEntry
    <3>3. lev[h] = lev[g] - 1 /\ pre[h] = Fanout * pre[g] + y
      BY <1>2, <1>5, <2>2, <3>1, <3>2
    <3>4. h # f
      BY <1>2, <2>2, <3>3
    <3> QED
      BY <1>4, <2>2, <3>1, <3>2, <3>3, <3>4
  <2> QED
    BY <2>3, <2>4
<1>6. Nested(m2, lev2, pre2)
  BY <1>4, <1>5 DEF Nested
<1> QED
  BY <1>4, <1>6

(* A table that nothing leads to is of no consequence. *)
LEMMA PathAside ==
  ASSUME NEW m \in [Frame -> PageTable], NEW lev, NEW pre, Nested(m, lev, pre),
         NEW root \in Frame, lev[root] = Levels, pre[root] = 0, NEW p \in VirtualPage,
         NEW f \in Frame, lev[f] = 0, NEW m2, \A g \in Frame : g # f => m2[g] = m[g]
  PROVE  Path(m2, root, p)[0] = Path(m, root, p)[0]
<1>1. Levels \in Nat /\ Levels > 1
  BY ShapeAssumption
<1>2. PICK q : q = Path(m, root, p)
  OBVIOUS
<1>3. \A l \in 1 .. Levels : q[l] = None \/ (q[l] \in Frame /\ lev[q[l]] = l)
  BY <1>2, PathPlaces
<1>4. \A l \in 1 .. Levels - 1 : q[l] # None => m2[q[l]] = m[q[l]]
  <2> TAKE l \in 1 .. Levels - 1
  <2>1. l \in 1 .. Levels /\ l # 0
    BY <1>1
  <2> QED
    BY <1>3, <2>1
<1>5. root # f
  BY <1>1
<1>6. m2[root][Digit(Levels, p)] = m[root][Digit(Levels, p)]
  BY <1>5
<1>7. Path(m2, root, p)[0] = q[0]
  BY <1>2, <1>4, <1>6, RootsAlike
<1> QED
  BY <1>2, <1>7

(* An entry at the lowest level is for one page. *)
LEMMA PathLeaf ==
  ASSUME NEW m \in [Frame -> PageTable], NEW lev, NEW pre, Nested(m, lev, pre),
         NEW root \in Frame, lev[root] = Levels, pre[root] = 0, NEW p \in VirtualPage,
         NEW t \in Frame, lev[t] = 1, NEW x \in Index, NEW v \in Frame,
         NEW m2, m2 = Written(m, t, x, Linked(v)),
         NEW q, q = Path(m, root, p), NEW q2, q2 = Path(m2, root, p)
  PROVE  /\ \A l \in 1 .. Levels : q2[l] = q[l]
         /\ q[1] = t /\ Digit(1, p) = x => q2[0] = v
         /\ ~(q[1] = t /\ Digit(1, p) = x) => q2[0] = q[0]
<1>1. /\ Levels \in Nat /\ Levels > 1 /\ 1 \in 0 .. Levels /\ Levels \in 1 .. Levels
      /\ 0 \in 0 .. Levels - 1 /\ 0 + 1 = 1 /\ 1 \in 1 .. Levels
  BY ShapeAssumption
<1>2. p \in Nat
  <2>1. Fanout^Levels \in Nat
    BY <1>1, PowerAssumption
  <2> QED
    BY <2>1 DEF VirtualPage
<1>3. /\ q[Levels] = root /\ q2[Levels] = root
      /\ \A l \in 0 .. Levels - 1 : q[l] = Below(m, q[l + 1], l + 1, p)
      /\ \A l \in 0 .. Levels - 1 : q2[l] = Below(m2, q2[l + 1], l + 1, p)
  BY PathUnfolds
<1>4. \A l \in 1 .. Levels : q[l] = None \/ (q[l] \in Frame /\ lev[q[l]] = l)
  BY PathPlaces
<1>5. /\ \A g \in Frame : g # t => m2[g] = m[g]
      /\ m2[t][x] = Linked(v)
      /\ \A y \in Index : y # x => m2[t][y] = m[t][y]
  BY Entries, EntryWritten
<1>6. \A l \in 1 .. Levels : q2[l] = q[l]
  <2>1. ASSUME NEW l \in 1 + 1 .. Levels
        PROVE  Below(m2, q[l], l, p) = Below(m, q[l], l, p)
    <3>1. l \in 1 .. Levels /\ l # 1
      BY <1>1
    <3>2. q[l] # None => q[l] \in Frame /\ q[l] # t
      BY <1>4, <3>1
    <3> QED
      BY <1>5, <3>2 DEF Below
  <2>2. q2[Levels] = q[Levels]
    BY <1>3
  <2> QED
    BY <1>1, <2>1, <2>2, PathAgrees
<1>7. q[0] = Below(m, q[1], 1, p) /\ q2[0] = Below(m2, q[1], 1, p)
  BY <1>1, <1>3, <1>6
<1>8. Digit(1, p) \in Index /\ t # None /\ (q[1] = None \/ q[1] \in Frame)
  BY <1>1, <1>2, <1>4, Indexed, ShapeAssumption DEF Frame, None
<1>9. CASE q[1] = t /\ Digit(1, p) = x
  BY <1>5, <1>6, <1>7, <1>8, <1>9, Entries DEF Below
<1>10. CASE ~(q[1] = t /\ Digit(1, p) = x)
  BY <1>5, <1>6, <1>7, <1>8, <1>10 DEF Below
<1> QED
  BY <1>6, <1>9, <1>10

(* Two pages with the same table and entry at the lowest level are one. *)
LEMMA LeafPage ==
  ASSUME NEW p \in Nat, NEW p2 \in Nat, Above(1, p) = Above(1, p2),
         Digit(1, p) = Digit(1, p2)
  PROVE  p = p2
<1>1. 1 \in 1 .. Levels /\ 1 - 1 = 0
  BY ShapeAssumption
<1>2. Above(0, p) = Above(0, p2)
  BY <1>1, Spelled
<1>3. \A n \in Nat : Above(0, n) = n
  BY PowerAssumption DEF Above
<1> QED
  BY <1>2, <1>3

-----------------------------------------------------------------------------
(* The tables stay a tree, and only the last step of map changes what a    *)
(* root maps                                                               *)

(* What the roots that there are map is the same after a step. *)
Kept ==
  \A root \in Roots : \A p \in VirtualPage :
    Path(table', root, p)[0] = Path(table, root, p)[0]

(* The roots are tables. *)
LEMMA RootFrames ==
  ASSUME TypeInv
  PROVE  Roots \subseteq Frame
  BY DEF TypeInv, Roots

(* The table that map has come to has the level of the walk, and is for    *)
(* the pages that share the upper digits with its page.                    *)
LEMMA WalkPlaced ==
  ASSUME TableInv, WalkInv, walk.level > 0, NEW lev, NEW pre, Tree(lev, pre)
  PROVE  lev[walk.at] = walk.level /\ pre[walk.at] = Above(walk.level, walk.page)
<1>1. walk # NoCall /\ walk.level \in 1 .. Levels /\ walk.at \in Frame
  BY InCall
<1>2. /\ walk.root \in Roots /\ walk.page \in VirtualPage
      /\ Path(table, walk.root, walk.page)[walk.level] = walk.at
  BY <1>1 DEF WalkInv
<1>3. PICK root \in Frame, p \in VirtualPage, l \in 1 .. Levels :
        root = walk.root /\ p = walk.page /\ l = walk.level
  BY <1>1, <1>2, RootFrames DEF TableInv
<1>4. /\ table \in [Frame -> PageTable] /\ Nested(table, lev, pre)
      /\ lev[root] = Levels /\ pre[root] = 0
  BY <1>2, <1>3 DEF TableInv, TypeInv, Tree
<1>5. PICK q : q = Path(table, root, p)
  OBVIOUS
<1>6. q[l] = None \/ (q[l] \in Frame /\ lev[q[l]] = l /\ pre[q[l]] = Above(l, p))
  BY <1>4, <1>5, PathPlaces
<1>7. walk.at # None
  BY <1>1, ShapeAssumption DEF Frame, None
<1> QED
  BY <1>2, <1>3, <1>5, <1>6, <1>7

(* A new table below an entry that had none. *)
LEMMA GrowthKept ==
  ASSUME TypeInv, NEW lev, NEW pre, Tree(lev, pre), NEW k \in 2 .. Levels,
         NEW t \in Frame, lev[t] = k, NEW x \in Index, ~table[t][x].present,
         NEW f \in free, Extended(t, x, f), free' = free \ {f},
         UNCHANGED <<KernelPageTable, pageTable>>
  PROVE  /\ \E lev2, pre2 : Tree(lev2, pre2)'
         /\ Kept /\ table'[t][x] = Linked(f)
         /\ \A root \in Roots : \A p \in VirtualPage : \A l \in k .. Levels :
              Path(table', root, p)[l] = Path(table, root, p)[l]
<1>1. /\ table \in [Frame -> PageTable] /\ f \in Frame /\ free \subseteq Frame
      /\ Nested(table, lev, pre) /\ lev[f] = 0
      /\ \A g \in Roots : lev[g] = Levels /\ pre[g] = 0
      /\ \A g \in free : lev[g] = 0
  BY DEF TypeInv, Tree
<1>2. Levels \in Nat /\ k > 1 /\ Levels > 1
  BY ShapeAssumption
<1>3. f # t
  BY <1>1, <1>2
<1>4. Grown(table, table', t, x, f)
  BY <1>1, <1>3, TableAdded DEF Grown
<1>5. PICK lev2, pre2 :
        /\ Nested(table', lev2, pre2)
        /\ \A g \in Frame : g # f => lev2[g] = lev[g] /\ pre2[g] = pre[g]
  BY <1>1, <1>4, GrownNested
<1>6. Tree(lev2, pre2)'
  <2>1. Roots' = Roots /\ Roots \subseteq Frame /\ f \notin Roots
    BY <1>1, <1>2, RootFrames DEF Roots
  <2>2. \A g \in Roots' : lev2[g] = Levels /\ pre2[g] = 0
    BY <1>1, <1>5, <2>1
  <2>3. \A g \in free' : lev2[g] = 0
    BY <1>1, <1>5
  <2> QED
    BY <1>5, <2>2, <2>3 DEF Tree
<1>7. ASSUME NEW root \in Roots, NEW p \in VirtualPage
      PROVE  /\ Path(table', root, p)[0] = Path(table, root, p)[0]
             /\ \A l \in k .. Levels :
                  Path(table', root, p)[l] = Path(table, root, p)[l]
  <2>1. root \in Frame /\ lev[root] = Levels /\ pre[root] = 0
    BY <1>1, RootFrames
  <2>2. PICK m2 : m2 = table'
    OBVIOUS
  <2>3. Grown(table, m2, t, x, f)
    BY <1>4, <2>2
  <2>4. PICK q, q2 : q = Path(table, root, p) /\ q2 = Path(m2, root, p)
    OBVIOUS
  <2>5. q2[0] = q[0] /\ \A l \in k .. Levels : q2[l] = q[l]
    BY <1>1, <2>1, <2>3, <2>4, PathGrows
  <2> QED
    BY <2>2, <2>4, <2>5
<1> QED
  BY <1>4, <1>6, <1>7 DEF Kept, Grown

(* An upper level of map. *)
LEMMA DescendTree ==
  ASSUME TableInv, TreeInv, MapDescend, ~lost'
  PROVE  TreeInv' /\ Kept
<1> DEFINE x == index(walk.level, walk.page)
<1>1. /\ walk \in Call /\ walk # NoCall /\ walk.level \in 2 .. Levels
      /\ walk.level \in 1 .. Levels /\ walk.level \in Nat /\ walk.level > 0
      /\ walk.at \in Frame /\ walk.page \in Nat
  <2>1. walk.level > 1 /\ walk.level \in Int
    BY ShapeAssumption DEF MapDescend, TableInv, TypeInv, NoCall, Call
  <2>2. walk.level > 0
    BY <2>1
  <2> QED
    BY <2>1, <2>2, InCall, ShapeAssumption
<1>2. PICK lev, pre : Tree(lev, pre)
  BY DEF TreeInv
<1>3. WalkInv /\ TypeInv /\ free \subseteq Frame /\ table \in [Frame -> PageTable]
  BY DEF TreeInv, TableInv, TypeInv
<1>4. /\ walk.root \in Roots /\ walk.page \in VirtualPage
      /\ Path(table, walk.root, walk.page)[walk.level] = walk.at
  BY <1>1, <1>3 DEF WalkInv
<1>5. x = Digit(walk.level, walk.page) /\ x \in Index
  BY <1>1, Indexed
<1>6. UNCHANGED <<KernelPageTable, pageTable, i>> /\ Roots' = Roots
  BY DEF MapDescend, Roots
<1>7. PICK l \in 2 .. Levels, t \in Frame, root \in Roots, p \in VirtualPage :
        l = walk.level /\ t = walk.at /\ root = walk.root /\ p = walk.page
  BY <1>1, <1>4
<1>8. lev[t] = l
  BY <1>1, <1>2, <1>3, <1>7, WalkPlaced
<1>9. /\ Levels \in Nat /\ l \in Nat /\ l - 1 \in 0 .. Levels - 1 /\ l - 1 + 1 = l
      /\ l \in l .. Levels /\ t # None
  BY ShapeAssumption DEF Frame, None
<1>10. Path(table', root, p)[l - 1] = Below(table', Path(table', root, p)[l], l, p)
  <2>1. PICK m2 : m2 = table'
    OBVIOUS
  <2>2. Path(m2, root, p)[l - 1] = Below(m2, Path(m2, root, p)[l - 1 + 1], l - 1 + 1, p)
    BY <1>9, PathUnfolds
  <2> QED
    BY <1>9, <2>1, <2>2
<1> HIDE DEF x
<1>11. CASE /\ table[walk.at][x].present /\ Down(table[walk.at][x].frame)
            /\ table' = table /\ free' = free
  <2>1. PICK f \in Frame : f = table[walk.at][x].frame
    BY <1>1, <1>3, <1>5 DEF PageTable, PageEntry
  <2>2. Down(f) /\ table' = table /\ free' = free
    BY <1>11, <2>1
  <2>3. /\ walk'.at = f /\ walk'.level = walk.level - 1
        /\ walk'.page = walk.page /\ walk'.root = walk.root
    BY <1>1, <1>3, <1>6, <2>2, Followed
  <2>4. Path(table', root, p)[l - 1] = f
    BY <1>4, <1>5, <1>7, <1>9, <1>10, <1>11, <2>1, <2>2 DEF Below
  <2>5. WalkInv'
    BY <1>4, <1>6, <1>7, <2>3, <2>4 DEF WalkInv
  <2>6. Tree(lev, pre)'
    BY <1>2, <1>6, <2>2 DEF Tree
  <2> QED
    BY <2>2, <2>5, <2>6 DEF TreeInv, Kept
<1>12. CASE /\ ~table[walk.at][x].present /\ free # {}
            /\ Extended(walk.at, x, allocatePage) /\ free' = free \ {allocatePage}
            /\ Down(allocatePage)
  <2>1. allocatePage \in free
    BY <1>3, <1>12, Allocates
  <2>2. PICK f \in free : f = allocatePage
    BY <1>3, <2>1
  <2>3. Extended(t, x, f) /\ free' = free \ {f} /\ Down(f)
    BY <1>7, <1>12, <2>2
  <2>4. /\ \E lev2, pre2 : Tree(lev2, pre2)'
        /\ Kept /\ table'[t][x] = Linked(f)
        /\ \A r \in Roots : \A v \in VirtualPage : \A n \in l .. Levels :
             Path(table', r, v)[n] = Path(table, r, v)[n]
    BY <1>2, <1>3, <1>5, <1>6, <1>7, <1>8, <1>12, <2>3, GrowthKept
  <2>5. f \in Frame /\ free' \subseteq Frame /\ f # t /\ table' \in [Frame -> PageTable]
    <3>1. f \in Frame /\ free' \subseteq Frame
      BY <1>3, <2>3
    <3>2. f # t
      BY <1>2, <1>8, <1>9 DEF Tree
    <3> QED
      BY <1>3, <1>5, <2>3, <3>1, <3>2, TableAdded
  <2>6. /\ walk'.at = f /\ walk'.level = walk.level - 1
        /\ walk'.page = walk.page /\ walk'.root = walk.root
    BY <1>1, <1>3, <1>6, <2>3, <2>5, Followed
  <2>7. Path(table', root, p)[l] = t
    BY <1>4, <1>7, <1>9, <2>4
  <2>8. Path(table', root, p)[l - 1] = f
    BY <1>5, <1>7, <1>9, <1>10, <2>4, <2>5, <2>7, Entries DEF Below
  <2>9. WalkInv'
    BY <1>4, <1>6, <1>7, <2>6, <2>8 DEF WalkInv
  <2> QED
    BY <2>4, <2>9 DEF TreeInv
<1> QED
  BY <1>1, <1>3, <1>5, <1>11, <1>12, DescendsRight DEF x

(* The lowest level of map: what it writes is the mapping of its page, in  *)
(* every root that has one there, and of no other page.                    *)
LEMMA LeafTree ==
  ASSUME TableInv, TreeInv, MapLeaf
  PROVE  /\ TreeInv'
         /\ \A root \in Roots : \A p \in VirtualPage :
              Path(table', root, p)[0] # Path(table, root, p)[0] =>
                p = walk.page /\ Path(table', root, p)[0] = Field(walk.frame)
         /\ Path(table', walk.root, walk.page)[0] = Field(walk.frame)
<1>1. /\ walk \in Call /\ walk # NoCall /\ walk.level = 1 /\ walk.level > 0
      /\ walk.at \in Frame /\ walk.page \in Nat /\ walk.frame \in Frame
  <2>1. walk.level = 1 /\ walk.level > 0
    BY DEF MapLeaf
  <2> QED
    BY <2>1, InCall
<1>2. PICK lev, pre : Tree(lev, pre)
  BY DEF TreeInv
<1>3. WalkInv /\ TypeInv /\ table \in [Frame -> PageTable]
  BY DEF TreeInv, TableInv, TypeInv
<1>4. /\ walk.root \in Roots /\ walk.page \in VirtualPage
      /\ Path(table, walk.root, walk.page)[1] = walk.at
  BY <1>1, <1>3 DEF WalkInv
<1>5. lev[walk.at] = 1 /\ pre[walk.at] = Above(1, walk.page)
  BY <1>1, <1>2, <1>3, WalkPlaced
<1>6. /\ index(1, walk.page) = Digit(1, walk.page) /\ Digit(1, walk.page) \in Index
      /\ 1 \in 1 .. Levels
  <2>1. 1 \in 1 .. Levels
    BY ShapeAssumption
  <2> QED
    BY <1>1, <2>1, Indexed
<1>7. PICK t \in Frame, x \in Index, v \in Frame :
        t = walk.at /\ x = Digit(1, walk.page) /\ v = Field(walk.frame)
  BY <1>1, <1>6, Names
<1>8. PICK m2 : m2 = table' /\ m2 = Written(table, t, x, Linked(v))
  BY <1>1, <1>6, <1>7, Names DEF MapLeaf, Written
<1>9. UNCHANGED <<free, KernelPageTable, pageTable>> /\ Roots' = Roots /\ walk' = NoCall
  BY DEF MapLeaf, Roots
<1>10. Tree(lev, pre)'
  <2>1. \A g \in Frame : g # t => m2[g] = table[g]
    BY <1>3, <1>8, Entries, EntryWritten
  <2>2. \A g \in Frame : lev[g] > 1 => m2[g] = table[g]
    BY <1>5, <1>7, <2>1
  <2>3. Nested(m2, lev, pre)
    BY <1>2, <2>2 DEF Tree, Nested
  <2> QED
    BY <1>2, <1>8, <1>9, <2>3 DEF Tree
<1>11. ASSUME NEW root \in Roots, NEW p \in VirtualPage
       PROVE  LET q == Path(table, root, p)
                  q2 == Path(m2, root, p)
              IN  /\ q2[0] # q[0] => p = walk.page /\ q2[0] = v
                  /\ q[1] = t /\ Digit(1, p) = x => q2[0] = v
  <2>1. root \in Frame /\ lev[root] = Levels /\ pre[root] = 0 /\ Nested(table, lev, pre)
    BY <1>2, <1>3, RootFrames DEF Tree
  <2>2. PICK q, q2 : q = Path(table, root, p) /\ q2 = Path(m2, root, p)
    OBVIOUS
  <2>3. /\ q[1] = t /\ Digit(1, p) = x => q2[0] = v
        /\ ~(q[1] = t /\ Digit(1, p) = x) => q2[0] = q[0]
    BY <1>3, <1>5, <1>7, <1>8, <2>1, <2>2, PathLeaf
  <2>4. ASSUME q[1] = t, Digit(1, p) = x PROVE p = walk.page
    <3>1. q[1] = None \/ pre[q[1]] = Above(1, p)
      BY <1>3, <1>6, <2>1, <2>2, PathPlaces
    <3>2. t # None
      BY ShapeAssumption DEF Frame, None
    <3>3. Above(1, p) = Above(1, walk.page)
      BY <1>5, <1>7, <2>4, <3>1, <3>2
    <3>4. p \in Nat
      <4>1. Levels \in 0 .. Levels
        BY ShapeAssumption
      <4>2. Fanout^Levels \in Nat
        BY <4>1, PowerAssumption
      <4> QED
        BY <4>2 DEF VirtualPage
    <3> QED
      BY <1>1, <1>7, <2>4, <3>3, <3>4, LeafPage
  <2> QED
    BY <2>2, <2>3, <2>4
<1>12. Path(m2, walk.root, walk.page)[0] = v
  BY <1>4, <1>7, <1>11
<1> QED
  BY <1>7, <1>8, <1>9, <1>10, <1>11, <1>12 DEF TreeInv, WalkInv

(* A table becomes a root: it has nothing in it, or what another root has. *)
LEMMA RootAdded ==
  ASSUME TypeInv, NEW lev, NEW pre, Tree(lev, pre), NEW f \in free, NEW e \in PageTable,
         \/ e = EmptyTable
         \/ \E root \in Roots : e = table[root],
         table' = [table EXCEPT ![f] = e], free' = free \ {f},
         Roots' \subseteq Roots \union {f}
  PROVE  (\E lev2, pre2 : Tree(lev2, pre2)') /\ Kept
<1>1. /\ table \in [Frame -> PageTable] /\ f \in Frame /\ free \subseteq Frame
      /\ Nested(table, lev, pre) /\ lev[f] = 0
      /\ \A g \in Roots : lev[g] = Levels /\ pre[g] = 0
      /\ \A g \in free : lev[g] = 0
      /\ lev \in [Frame -> 0 .. Levels] /\ pre \in [Frame -> Nat]
      /\ \A g \in Frame : lev[g] \in Int
      /\ \A g \in Frame : lev[g] > 1 =>
           \A x \in Index : table[g][x].present =>
             /\ lev[table[g][x].frame] = lev[g] - 1
             /\ pre[table[g][x].frame] = Fanout * pre[g] + x
  BY DEF TypeInv, Tree, Nested
<1>2. Levels \in Nat /\ Levels > 1
  BY ShapeAssumption
<1>3. PICK m2 : m2 = table'
  OBVIOUS
<1>4. m2[f] = e /\ \A g \in Frame : g # f => m2[g] = table[g]
  BY <1>1, <1>3
<1> DEFINE lev2 == [lev EXCEPT ![f] = Levels]
           pre2 == [pre EXCEPT ![f] = 0]
<1>5. /\ lev2 \in [Frame -> 0 .. Levels] /\ lev2[f] = Levels
      /\ pre2 \in [Frame -> Nat] /\ pre2[f] = 0
      /\ \A g \in Frame : g # f => lev2[g] = lev[g] /\ pre2[g] = pre[g]
  BY <1>1, <1>2
<1> HIDE DEF lev2, pre2
<1>6. ASSUME NEW g \in Frame, lev2[g] > 1, NEW x \in Index, m2[g][x].present
      PROVE  /\ lev2[m2[g][x].frame] = lev2[g] - 1
             /\ pre2[m2[g][x].frame] = Fanout * pre2[g] + x
  <2>1. PICK h \in Frame : /\ m2[g][x] = table[h][x]
                           /\ lev[h] = lev2[g] /\ pre[h] = pre2[g]
    <3>1. CASE g # f
      BY <1>4, <1>5, <3>1
    <3>2. CASE g = f
      <4>1. e # EmptyTable
        BY <1>4, <1>6, <3>2, Entries
      <4>2. PICK root \in Roots : e = table[root]
        BY <4>1
      <4> QED
        BY <1>1, <1>4, <1>5, <3>2, <4>2, RootFrames
    <3> QED
      BY <3>1, <3>2
  <2>2. PICK c \in Frame : c = table[h][x].frame
    BY <1>1 DEF PageTable, PageEntry
  <2>3. lev[c] = lev[h] - 1 /\ pre[c] = Fanout * pre[h] + x
    BY <1>1, <1>6, <2>1, <2>2
  <2>4. c # f
    BY <1>1, <1>6, <2>1, <2>3
  <2> QED
    BY <1>5, <2>1, <2>2, <2>3, <2>4
<1>7. Nested(m2, lev2, pre2)
  BY <1>5, <1>6 DEF Nested
<1>8. Tree(lev2, pre2)'
  <2>1. \A g \in Roots' : lev2[g] = Levels /\ pre2[g] = 0
    <3> TAKE g \in Roots'
    <3>1. g \in Roots \/ g = f
      OBVIOUS
    <3> QED
      BY <1>1, <1>5, <3>1, RootFrames
  <2>2. \A g \in free' : lev2[g] = 0
    BY <1>1, <1>5
  <2> QED
    BY <1>3, <1>7, <2>1, <2>2 DEF Tree
<1>9. ASSUME NEW root \in Roots, NEW p \in VirtualPage
      PROVE  Path(m2, root, p)[0] = Path(table, root, p)[0]
  <2>1. root \in Frame /\ lev[root] = Levels /\ pre[root] = 0
    BY <1>1, RootFrames
  <2> QED
    BY <1>1, <1>4, <2>1, PathAside
<1> QED
  BY <1>3, <1>8, <1>9 DEF Kept

(* allocateRootPageTable makes the first table. *)
LEMMA RootTree ==
  ASSUME TableInv, TreeInv, allocateRootPageTable
  PROVE  TreeInv' /\ Kept
<1>1. /\ TypeInv /\ walk = NoCall /\ walk' = NoCall /\ pageTable' = pageTable
      /\ pageTable = None /\ free \subseteq Frame
  BY DEF TableInv, StartInv, TypeInv, allocateRootPageTable, Goto
<1>2. PICK lev, pre : Tree(lev, pre)
  BY DEF TreeInv
<1>3. CASE free = {}
  <2>1. UNCHANGED <<table, free, KernelPageTable>>
    BY <1>3 DEF allocateRootPageTable
  <2>2. Tree(lev, pre)' /\ Kept
    BY <1>1, <1>2, <2>1 DEF Tree, Roots, Kept
  <2> QED
    BY <1>1, <2>2 DEF TreeInv, WalkInv
<1>4. CASE free # {}
  <2>1. PICK f \in free : f = allocatePage
    BY <1>1, <1>4, Allocates
  <2>2. /\ KernelPageTable' = f /\ free' = free \ {f}
        /\ table' = [table EXCEPT ![f] = EmptyTable]
    BY <1>4, <2>1 DEF allocateRootPageTable
  <2>3. Roots' \subseteq Roots \union {f}
    BY <1>1, <2>2 DEF Roots
  <2>4. (\E lev2, pre2 : Tree(lev2, pre2)') /\ Kept
    BY <1>1, <1>2, <2>2, <2>3, RootAdded, Entries
  <2> QED
    BY <1>1, <2>4 DEF TreeInv, WalkInv
<1> QED
  BY <1>3, <1>4

(* shallowCopy makes the root of the process. *)
LEMMA CopyTree ==
  ASSUME TableInv, TreeInv, shallowCopy
  PROVE  TreeInv' /\ Kept
<1>1. /\ TypeInv /\ walk = NoCall /\ walk' = NoCall /\ KernelPageTable' = KernelPageTable
      /\ KernelPageTable \in Frame /\ free \subseteq Frame
      /\ table \in [Frame -> PageTable]
  BY DEF TableInv, BuildInv, Building, TypeInv, shallowCopy, Goto
<1>2. PICK lev, pre : Tree(lev, pre)
  BY DEF TreeInv
<1>3. CASE free = {}
  <2>1. UNCHANGED <<table, free, pageTable>>
    BY <1>3 DEF shallowCopy
  <2>2. Tree(lev, pre)' /\ Kept
    BY <1>1, <1>2, <2>1 DEF Tree, Roots, Kept
  <2> QED
    BY <1>1, <2>2 DEF TreeInv, WalkInv
<1>4. CASE free # {}
  <2>1. PICK f \in free : f = allocatePage
    BY <1>1, <1>4, Allocates
  <2>2. /\ pageTable' = f /\ free' = free \ {f}
        /\ table' = [table EXCEPT ![f] = table[KernelPageTable]]
    BY <1>4, <2>1 DEF shallowCopy, CopyRoot, WholeTable
  <2>3. Roots' \subseteq Roots \union {f}
    BY <1>1, <2>2 DEF Roots
  <2>4. KernelPageTable \in Roots /\ table[KernelPageTable] \in PageTable
    BY <1>1, ShapeAssumption DEF Roots, Frame, None
  <2>5. (\E lev2, pre2 : Tree(lev2, pre2)') /\ Kept
    BY <1>1, <1>2, <2>2, <2>3, <2>4, RootAdded
  <2> QED
    BY <1>1, <2>5 DEF TreeInv, WalkInv
<1> QED
  BY <1>3, <1>4

(* The preallocation makes tables below the root. *)
LEMMA PreallocateTree ==
  ASSUME TableInv, TreeInv, Preallocate, ~lost'
  PROVE  TreeInv' /\ Kept
<1>1. /\ TypeInv /\ walk' = NoCall /\ UNCHANGED <<KernelPageTable, pageTable>>
      /\ KernelPageTable \in Frame /\ free \subseteq Frame
  BY DEF TableInv, BuildInv, Building, TypeInv, Preallocate, Goto
<1>2. PICK lev, pre : Tree(lev, pre)
  BY DEF TreeInv
<1>3. CASE UNCHANGED <<table, free>>
  <2>1. Tree(lev, pre)' /\ Kept
    BY <1>1, <1>2, <1>3 DEF Tree, Roots, Kept
  <2> QED
    BY <1>1, <2>1 DEF TreeInv, WalkInv
<1>4. CASE ~UNCHANGED <<table, free>>
  <2>1. /\ i \in KernelHalf /\ free # {} /\ ~table[KernelPageTable][i].present
        /\ Extended(KernelPageTable, i, allocatePage) /\ free' = free \ {allocatePage}
    BY <1>1, <1>4, PreallocatesRight
  <2>2. PICK f \in free : f = allocatePage
    BY <1>1, <2>1, Allocates
  <2>3. PICK x \in Index : x = i
    BY <2>1, ShapeAssumption DEF KernelHalf, Index
  <2>4. KernelPageTable \in Roots /\ Levels \in 2 .. Levels
    BY <1>1, ShapeAssumption DEF Roots, Frame, None
  <2>5. lev[KernelPageTable] = Levels
    BY <1>2, <2>4 DEF Tree
  <2>6. ~table[KernelPageTable][x].present
    BY <2>1, <2>3
  <2>7. (\E lev2, pre2 : Tree(lev2, pre2)') /\ Kept
    BY <1>1, <1>2, <2>1, <2>2, <2>3, <2>4, <2>5, <2>6, GrowthKept
  <2> QED
    BY <1>1, <2>7 DEF TreeInv, WalkInv
<1> QED
  BY <1>3, <1>4

(* A step that changes no table, with a call of map that is the same, that *)
(* starts at a root, or that is over.                                      *)
LEMMA QuietTree ==
  ASSUME TableInv, TreeInv, UNCHANGED <<table, KernelPageTable, pageTable>>,
         free' \subseteq free,
         \/ walk' = walk
         \/ \E root \in Roots, p \in VirtualPage, f \in Frame : MapCall(root, p, f)
  PROVE  TreeInv' /\ Kept
<1>1. PICK lev, pre : Tree(lev, pre)
  BY DEF TreeInv
<1>2. Tree(lev, pre)' /\ Kept /\ Roots' = Roots
  BY <1>1 DEF Tree, Roots, Kept
<1>3. WalkInv'
  <2>1. CASE walk' = walk
    BY <1>2, <2>1 DEF TreeInv, WalkInv
  <2>2. CASE \E root \in Roots, p \in VirtualPage, f \in Frame : MapCall(root, p, f)
    <3>1. PICK root \in Roots, p \in VirtualPage, f \in Frame : MapCall(root, p, f)
      BY <2>2
    <3>2. walk'.level = Levels /\ walk'.root = root /\ walk'.page = p /\ walk'.at = root
      BY <3>1 DEF MapCall
    <3>3. Path(table, root, p)[Levels] = root
      BY PathUnfolds
    <3> QED
      BY <1>2, <3>2, <3>3 DEF WalkInv
  <2> QED
    BY <2>1, <2>2
<1> QED
  BY <1>2, <1>3 DEF TreeInv

(* The pages of the direct mapping, of the kernel and of the program are   *)
(* pages.                                                                  *)
LEMMA Pages ==
  /\ DirectMapBase .. KernelStart + KernelPages - 1 \subseteq VirtualPage
  /\ Entrypoint \in VirtualPage
<1>1. Levels \in 0 .. Levels
  BY ShapeAssumption
<1>2. PICK n \in Nat : n = Fanout^Levels
  BY <1>1, PowerAssumption
<1> QED
  BY <1>2, LayoutAssumption DEF VirtualPage

(* The loops of initializeVirtualMemory and createFirstProcess call map.   *)
LEMMA CallTree ==
  ASSUME TableInv, TreeInv, MapDirect \/ MapImage \/ LoadProgram
  PROVE  TreeInv' /\ Kept
<1>1. UNCHANGED <<table, KernelPageTable, pageTable>> /\ TypeInv
  BY DEF MapDirect, MapImage, LoadProgram, TableInv
<1>2. CASE walk' = walk /\ free' \subseteq free
  BY <1>1, <1>2, QuietTree
<1>3. CASE MapDirect /\ walk' # walk
  <2>1. /\ pc = "direct" /\ i < NumFrames /\ free' = free
        /\ MapCall(KernelPageTable, DirectMapBase + i, i)
    BY <1>3 DEF MapDirect, Goto
  <2>2. KernelPageTable \in Roots /\ i \in Int /\ i >= 0
    BY <2>1, ShapeAssumption
       DEF TableInv, BuildInv, Building, TypeInv, Roots, Frame, None
  <2>3. i \in Frame /\ DirectMapBase + i \in DirectMapBase .. KernelStart + KernelPages - 1
    BY <2>1, <2>2, ShapeAssumption, LayoutAssumption DEF Frame
  <2>4. DirectMapBase + i \in VirtualPage
    BY <2>3, Pages
  <2>5. \E root \in Roots, p \in VirtualPage, f \in Frame : MapCall(root, p, f)
    BY <2>1, <2>2, <2>3, <2>4
  <2> QED
    BY <1>1, <2>1, <2>5, QuietTree
<1>4. CASE MapImage /\ walk' # walk
  <2>1. /\ pc = "image" /\ i < KernelPages /\ free' = free
        /\ MapCall(KernelPageTable, KernelStart + i, ImageFrame + i)
    BY <1>4 DEF MapImage, Goto
  <2>2. KernelPageTable \in Roots /\ i \in Int /\ i >= 0
    BY <2>1, ShapeAssumption
       DEF TableInv, BuildInv, Building, TypeInv, Roots, Frame, None
  <2>3. /\ ImageFrame + i \in Frame
        /\ KernelStart + i \in DirectMapBase .. KernelStart + KernelPages - 1
    BY <2>1, <2>2, ShapeAssumption, LayoutAssumption DEF Frame
  <2>4. KernelStart + i \in VirtualPage
    BY <2>3, Pages
  <2>5. \E root \in Roots, p \in VirtualPage, f \in Frame : MapCall(root, p, f)
    BY <2>1, <2>2, <2>3, <2>4
  <2> QED
    BY <1>1, <2>1, <2>5, QuietTree
<1>5. CASE LoadProgram /\ walk' # walk
  <2>1. /\ pc = "copied" /\ free # {} /\ free' = free \ {allocatePage}
        /\ MapCall(pageTable, Entrypoint, allocatePage)
    BY <1>5 DEF LoadProgram, Goto
  <2>2. pageTable \in Roots /\ free \subseteq Frame
    BY <2>1 DEF TableInv, StartInv, TypeInv, Roots
  <2>3. allocatePage \in Frame
    BY <2>1, <2>2, Allocates
  <2>4. \E root \in Roots, p \in VirtualPage, f \in Frame : MapCall(root, p, f)
    BY <2>1, <2>2, <2>3, Pages
  <2> QED
    BY <1>1, <2>1, <2>4, QuietTree
<1>6. CASE walk' = walk /\ ~(free' \subseteq free)
  BY <1>6 DEF MapDirect, MapImage, LoadProgram
<1> QED
  BY <1>2, <1>3, <1>4, <1>5, <1>6

(* The steps of boot: the tables stay a tree, and what a root maps changes *)
(* in the last step of map only.                                           *)
LEMMA StepTree ==
  ASSUME TableInv, TreeInv, [Next]_vars, ~lost'
  PROVE  TreeInv' /\ (MapLeaf \/ Kept)
<1>1. CASE MapLeaf
  BY <1>1, LeafTree
<1>2. CASE LoadProcessTable \/ OtherAllocation \/ UNCHANGED vars
  <2>1. /\ UNCHANGED <<table, KernelPageTable, pageTable>> /\ free' \subseteq free
        /\ walk' = walk
    BY <1>2 DEF LoadProcessTable, OtherAllocation, vars
  <2> QED
    BY <2>1, QuietTree
<1>3. ~LostFault
  BY StillLost DEF LostFault
<1> QED
  BY <1>1, <1>2, <1>3, DescendTree, RootTree, CallTree, PreallocateTree, CopyTree
     DEF Next, Step

(* At first there is no root. *)
LEMMA InitTree == Init => TreeInv
<1> SUFFICES ASSUME Init PROVE TreeInv
  OBVIOUS
<1> DEFINE lev == [f \in Frame |-> 0]
<1>1. Levels \in Nat /\ 0 \in 0 .. Levels
  BY ShapeAssumption
<1>2. lev \in [Frame -> 0 .. Levels] /\ lev \in [Frame -> Nat]
      /\ \A f \in Frame : lev[f] = 0
  BY <1>1
<1>3. Roots = {} /\ free \subseteq Frame
  BY UsableAssumption DEF Init, Roots
<1> HIDE DEF lev
<1>4. Tree(lev, lev)
  BY <1>2, <1>3 DEF Tree, Nested
<1> QED
  BY <1>4 DEF TreeInv, WalkInv, Init

(* The tables of the kernel and of the process are a tree: each is for one *)
(* level and one range of pages, and map is always where the processor     *)
(* itself would come to for its page, as long as it gets its tables.       *)
THEOREM Trees == Spec => [](~lost => TreeInv)
<1>1. ASSUME ~lost => TableInv, ~lost => TreeInv, [Next]_vars
      PROVE  (~lost => TreeInv)'
  BY <1>1, StepTree, StillLost
<1>2. Init => (~lost => TreeInv)
  BY InitTree
<1> QED
  BY <1>1, <1>2, Invariance, PTL DEF Spec

(* As long as map gets its tables, only the last step of a call of map     *)
(* changes the translation of a page, of its own page, to the frame it was *)
(* given if an entry can name that: new tables, the preallocation and the  *)
(* copy of the root add and move no page (map, initializeVirtualMemory,    *)
(* shallowCopy).                                                           *)
THEOREM MapsOne == Spec => MapExact
<1> DEFINE Exact ==
      ~lost' => \A root \in Roots : \A p \in VirtualPage :
        Translate(root, p)' # Translate(root, p) =>
          /\ p = walk.page
          /\ walk.frame < FieldLimit => Translate(root, p)' = walk.frame
<1>1. ASSUME TableInv, TreeInv, [Next]_vars, ~lost' PROVE Exact
  <2>1. CASE Kept
    BY <2>1 DEF Kept, Translate
  <2>2. CASE MapLeaf
    <3>1. walk.frame < FieldLimit => Field(walk.frame) = walk.frame
      <4>1. walk.level > 0
        BY <2>2 DEF MapLeaf
      <4> QED
        BY <1>1, <4>1, InCall, Names
    <3> QED
      BY <1>1, <2>2, <3>1, LeafTree DEF Translate
  <2> QED
    BY <1>1, <2>1, <2>2, StepTree
<1>2. ASSUME ~lost => TableInv, ~lost => TreeInv, [Next]_vars PROVE [Exact]_vars
  BY <1>1, <1>2, StillLost
<1> QED
  BY <1>2, Invariance, Trees, PTL DEF Spec, MapExact

-----------------------------------------------------------------------------
(* What the kernel has mapped *)

(* Pages that are mapped stay mapped, but for the page of map itself. *)
LEMMA MappedKept ==
  ASSUME TableInv, TreeInv, [Next]_vars, ~lost', KernelPageTable # None,
         KernelPageTable' = KernelPageTable,
         NEW base \in Nat, NEW frame \in Nat, NEW n \in Int,
         base >= DirectMapBase, base + n <= KernelStart + KernelPages,
         Mapped(base, frame, n), MapLeaf => walk.page \notin base .. base + n - 1
  PROVE  Mapped(base, frame, n)'
<1>1. ASSUME NEW j \in 0 .. n - 1
      PROVE  Path(table', KernelPageTable, base + j)[0] = Field(frame + j)
  <2>1. base + j \in DirectMapBase .. KernelStart + KernelPages - 1
        /\ base + j \in base .. base + n - 1
    BY LayoutAssumption
  <2>2. PICK p \in VirtualPage : p = base + j
    BY <2>1, Pages
  <2>3. PICK root \in Roots : root = KernelPageTable
    BY DEF Roots
  <2>4. Path(table, root, p)[0] = Field(frame + j)
    BY <2>2, <2>3 DEF Mapped, Translate
  <2>5. CASE Kept
    BY <2>2, <2>3, <2>4, <2>5 DEF Kept
  <2>6. CASE MapLeaf
    BY <2>1, <2>2, <2>3, <2>4, <2>6, LeafTree
  <2> QED
    BY <2>5, <2>6, StepTree
<1> QED
  BY <1>1 DEF Mapped, Translate

(* Everything that was mapped stays mapped once both loops are done. *)
LEMMA StageKept ==
  ASSUME TableInv, TreeInv, MappedInv, [Next]_vars, ~lost', pc \in BuiltSteps,
         KernelPageTable # None, KernelPageTable' = KernelPageTable,
         MapLeaf => walk.page = Entrypoint, pc' \in BuiltSteps \union {"fault"},
         cr3' # None => cr3' \in {KernelPageTable', pageTable'}
  PROVE  MappedInv'
<1>1. MapLeaf => walk.page \notin DirectMapBase .. KernelStart + KernelPages - 1
  BY HalvesAssumption
<1>2. Mapped(DirectMapBase, 0, NumFrames) /\ Mapped(KernelStart, ImageFrame, KernelPages)
  BY DEF MappedInv
<1>3. Mapped(DirectMapBase, 0, NumFrames)'
  <2>1. /\ DirectMapBase \in Nat /\ 0 \in Nat /\ NumFrames \in Int
        /\ DirectMapBase + NumFrames <= KernelStart + KernelPages
        /\ DirectMapBase >= DirectMapBase
        /\ \A p \in DirectMapBase .. DirectMapBase + NumFrames - 1 :
             p \in DirectMapBase .. KernelStart + KernelPages - 1
    BY LayoutAssumption, ShapeAssumption
  <2>2. MapLeaf => walk.page \notin DirectMapBase .. DirectMapBase + NumFrames - 1
    BY <1>1, <2>1
  <2> QED
    BY <1>2, <2>1, <2>2, MappedKept
<1>4. Mapped(KernelStart, ImageFrame, KernelPages)'
  <2>1. /\ KernelStart \in Nat /\ ImageFrame \in Nat /\ KernelPages \in Int
        /\ KernelStart + KernelPages <= KernelStart + KernelPages
        /\ KernelStart >= DirectMapBase
        /\ \A p \in KernelStart .. KernelStart + KernelPages - 1 :
             p \in DirectMapBase .. KernelStart + KernelPages - 1
    BY LayoutAssumption, ShapeAssumption
  <2>2. MapLeaf => walk.page \notin KernelStart .. KernelStart + KernelPages - 1
    BY <1>1, <2>1
  <2> QED
    BY <1>2, <2>1, <2>2, MappedKept
<1>5. pc' \notin {"direct", "image"}
  BY DEF BuiltSteps
<1> QED
  BY <1>3, <1>4, <1>5 DEF MappedInv

(* While the loops run, cr3 still has the boot loader's table. *)
LEMMA NotLoaded ==
  ASSUME MappedInv, pc \in {"root", "direct", "image"}
  PROVE  cr3 = None
  BY DEF MappedInv, BuiltSteps

(* A loop that maps n pages: base and frame are those of the first. *)
Region(base, frame, n) ==
  /\ base \in Nat /\ frame \in Nat /\ n \in Nat
  /\ base >= DirectMapBase /\ base + n <= KernelStart + KernelPages

(* The two loops. *)
LEMMA Regions ==
  /\ Region(DirectMapBase, 0, NumFrames) /\ Region(KernelStart, ImageFrame, KernelPages)
  /\ DirectMapBase + NumFrames <= KernelStart
  BY LayoutAssumption, ShapeAssumption DEF Region

(* One round of a loop: a call of map, its steps, and its last step. *)
LEMMA LoopKept ==
  ASSUME TableInv, TreeInv, [Next]_vars, ~lost', NEW base, NEW frame, NEW n,
         Region(base, frame, n), Loop(base, frame, n), i \in Int, i >= 0,
         KernelPageTable \in Frame, KernelPageTable' = KernelPageTable,
         \/ /\ walk = NoCall /\ i < n /\ i' = i + 1 /\ walk' # NoCall /\ ~MapLeaf
            /\ walk'.root = KernelPageTable
            /\ walk'.page = base + i /\ walk'.frame = frame + i
         \/ /\ walk # NoCall /\ walk' # NoCall /\ ~MapLeaf /\ i' = i
            /\ walk'.root = walk.root /\ walk'.page = walk.page
            /\ walk'.frame = walk.frame
         \/ walk # NoCall /\ MapLeaf
  PROVE  Loop(base, frame, n)'
<1>1. PICK k \in Int : k = IF walk = NoCall THEN i ELSE i - 1
  OBVIOUS
<1>2. PICK j \in Int : j = i
  OBVIOUS
<1>3. /\ base \in Nat /\ frame \in Nat /\ n \in Nat /\ base >= DirectMapBase
      /\ base + n <= KernelStart + KernelPages
  BY DEF Region
<1>4. Mapped(base, frame, k) /\ j <= n /\ k <= n /\ Busy(base, frame)
  BY <1>1, <1>2, <1>3 DEF Loop
<1>5. base + k <= KernelStart + KernelPages
  BY <1>3, <1>4, LayoutAssumption
<1>6. MapLeaf /\ walk # NoCall => walk.page \notin base .. base + k - 1
  BY <1>1, <1>3, <1>4 DEF Busy
<1>7. KernelPageTable # None
  BY ShapeAssumption DEF Frame, None
<1>8. Mapped(base, frame, k)'
  BY <1>3, <1>4, <1>5, <1>6, <1>7, MappedKept
<1>9. CASE walk = NoCall /\ ~MapLeaf
  <2>1. /\ i' = j + 1 /\ walk' # NoCall /\ k = j /\ j < n
        /\ walk'.root = KernelPageTable
        /\ walk'.page = base + j /\ walk'.frame = frame + j
    BY <1>1, <1>2, <1>9
  <2>2. i' - 1 = k /\ i' > 0 /\ i' <= n
    BY <1>2, <1>3, <2>1
  <2>3. Busy(base, frame)'
    BY <2>1, <2>2 DEF Busy
  <2> QED
    BY <1>8, <2>1, <2>2, <2>3 DEF Loop
<1>10. CASE walk # NoCall /\ ~MapLeaf
  <2>1. /\ i' = j /\ walk' # NoCall /\ k = j - 1
        /\ walk'.root = walk.root /\ walk'.page = walk.page /\ walk'.frame = walk.frame
    BY <1>1, <1>2, <1>10
  <2>2. Busy(base, frame)'
    BY <1>2, <1>4, <1>10, <2>1 DEF Busy
  <2> QED
    BY <1>4, <1>8, <2>1, <2>2 DEF Loop
<1>11. CASE walk # NoCall /\ MapLeaf
  <2>1. i' = j /\ walk' = NoCall /\ k = j - 1
    BY <1>1, <1>2, <1>11 DEF MapLeaf
  <2>2. /\ j > 0 /\ walk.root = KernelPageTable
        /\ walk.page = base + k /\ walk.frame = frame + k
    BY <1>2, <1>4, <1>11, <2>1 DEF Busy
  <2>3. Path(table', KernelPageTable, base + k)[0] = Field(frame + k)
    BY <1>11, <2>2, LeafTree
  <2>4. Mapped(base, frame, j)'
    <3>1. \A c \in 0 .. j - 1 : c \in 0 .. k - 1 \/ c = k
      BY <2>1
    <3> QED
      BY <1>8, <2>3, <3>1 DEF Mapped, Translate
  <2>5. Busy(base, frame)'
    BY <2>1 DEF Busy
  <2> QED
    BY <1>4, <2>1, <2>4, <2>5 DEF Loop
<1> QED
  BY <1>9, <1>10, <1>11

(* map in the kernel's own table, called by one of the loops. *)
LEMMA MapMapped ==
  ASSUME TableInv, TreeInv, MappedInv, MapDescend \/ MapLeaf, ~lost',
         pc \in {"direct", "image"}
  PROVE  MappedInv'
<1>1. /\ walk \in Call /\ walk # NoCall /\ walk.level > 0 /\ walk.level \in Nat
      /\ (MapDescend => walk.level \in 2 .. Levels)
  <2>1. walk.level \in Int
    BY ShapeAssumption DEF TableInv, TypeInv, NoCall, Call
  <2>2. (MapDescend => walk.level > 1) /\ (MapLeaf => walk.level = 1)
    BY DEF MapDescend, MapLeaf
  <2>3. walk.level > 0
    BY <2>1, <2>2
  <2> QED
    BY <2>1, <2>2, <2>3, InCall, ShapeAssumption
<1>2. /\ KernelPageTable \in Frame /\ TypeInv /\ i \in Int /\ i >= 0
  BY DEF TableInv, BuildInv, Building, TypeInv
<1>3. cr3 = None
  BY NotLoaded
<1>4. UNCHANGED <<KernelPageTable, pageTable, cr3, i>> /\ [Next]_vars
  BY DEF MapDescend, MapLeaf, Next, Step
<1>5. \/ MapLeaf /\ pc' = pc
      \/ /\ ~MapLeaf /\ pc' = pc /\ walk' # NoCall
         /\ walk'.root = walk.root /\ walk'.page = walk.page /\ walk'.frame = walk.frame
  <2>1. CASE MapLeaf
    BY <2>1 DEF MapLeaf
  <2>2. CASE ~MapLeaf
    BY <2>2, Descends
  <2> QED
    BY <2>1, <2>2
<1>6. CASE pc = "direct" /\ pc' = pc
  <2>1. Loop(DirectMapBase, 0, NumFrames)'
    BY <1>1, <1>2, <1>4, <1>5, <1>6, Regions, LoopKept DEF MappedInv
  <2> QED
    BY <1>3, <1>4, <1>6, <2>1 DEF MappedInv, BuiltSteps
<1>7. CASE pc = "image" /\ pc' = pc
  <2>1. Loop(KernelStart, ImageFrame, KernelPages)'
    BY <1>1, <1>2, <1>4, <1>5, <1>7, Regions, LoopKept DEF MappedInv
  <2>2. Mapped(DirectMapBase, 0, NumFrames) /\ Busy(KernelStart, ImageFrame)
    BY <1>7 DEF MappedInv, Loop
  <2>3. walk.page \notin DirectMapBase .. DirectMapBase + NumFrames - 1
    BY <1>1, <1>2, <2>2, LayoutAssumption, ShapeAssumption DEF Busy
  <2>4. Mapped(DirectMapBase, 0, NumFrames)'
    <3>1. /\ DirectMapBase \in Nat /\ 0 \in Nat /\ NumFrames \in Int
          /\ DirectMapBase + NumFrames <= KernelStart + KernelPages
          /\ DirectMapBase >= DirectMapBase
      BY LayoutAssumption, ShapeAssumption
    <3>2. KernelPageTable # None
      BY <1>2, ShapeAssumption DEF Frame, None
    <3> QED
      BY <1>4, <2>2, <2>3, <3>1, <3>2, MappedKept
  <2> QED
    BY <1>3, <1>4, <1>7, <2>1, <2>4 DEF MappedInv, BuiltSteps
<1> QED
  BY <1>5, <1>6, <1>7

(* The heads of the two loops. *)
LEMMA HeadsMapped ==
  ASSUME TableInv, TreeInv, MappedInv, MapDirect \/ MapImage, ~lost'
  PROVE  MappedInv'
<1>1. /\ pc \in {"direct", "image"} /\ walk = NoCall /\ [Next]_vars
      /\ UNCHANGED <<table, KernelPageTable, pageTable, cr3>>
  BY DEF MapDirect, MapImage, Goto, Next, Step
<1>2. /\ KernelPageTable \in Frame /\ TypeInv /\ i \in Int /\ i >= 0
  BY <1>1 DEF TableInv, BuildInv, Building, TypeInv
<1>3. cr3' = None /\ ~MapLeaf
  <2>1. walk.level = 0
    BY <1>1 DEF NoCall
  <2> QED
    BY <1>1, <2>1, NotLoaded DEF MapLeaf
<1>4. \A base, frame, n : Mapped(base, frame, n) => Mapped(base, frame, n)'
  BY <1>1 DEF Mapped, Translate
<1>5. Levels # 0
  BY ShapeAssumption
<1>6. CASE MapDirect
  <2>1. pc = "direct" /\ Loop(DirectMapBase, 0, NumFrames)
    BY <1>6 DEF MapDirect, Goto, MappedInv
  <2>2. CASE i < NumFrames
    <3>1. /\ i' = i + 1 /\ pc' = "direct"
          /\ walk' = [level |-> Levels, root |-> KernelPageTable,
                      page |-> DirectMapBase + i, frame |-> i, at |-> KernelPageTable]
      BY <1>6, <2>2 DEF MapDirect, Goto, MapCall
    <3>2. /\ walk' # NoCall /\ walk'.root = KernelPageTable
          /\ walk'.page = DirectMapBase + i /\ walk'.frame = 0 + i
      BY <1>2, <1>5, <3>1 DEF NoCall
    <3>3. Loop(DirectMapBase, 0, NumFrames)'
      BY <1>1, <1>2, <1>3, <2>1, <2>2, <3>1, <3>2, Regions, LoopKept
    <3> QED
      BY <1>3, <3>1, <3>3 DEF MappedInv, BuiltSteps
  <2>3. CASE ~(i < NumFrames)
    <3>1. pc' = "image" /\ i' = 0 /\ walk' = NoCall
      BY <1>1, <1>6, <2>3 DEF MapDirect, Goto
    <3>2. i = NumFrames
      BY <1>2, <2>1, <2>3, ShapeAssumption DEF Loop
    <3>3. Mapped(DirectMapBase, 0, NumFrames)'
      BY <1>1, <1>4, <2>1, <3>2 DEF Loop
    <3>4. Loop(KernelStart, ImageFrame, KernelPages)'
      BY <3>1, LayoutAssumption DEF Loop, Busy, Mapped
    <3> QED
      BY <1>3, <3>1, <3>3, <3>4 DEF MappedInv, BuiltSteps
  <2> QED
    BY <2>2, <2>3
<1>7. CASE MapImage
  <2>1. /\ pc = "image" /\ Loop(KernelStart, ImageFrame, KernelPages)
        /\ Mapped(DirectMapBase, 0, NumFrames)
    BY <1>7 DEF MapImage, Goto, MappedInv
  <2>2. Mapped(DirectMapBase, 0, NumFrames)'
    BY <1>4, <2>1
  <2>3. CASE i < KernelPages
    <3>1. /\ i' = i + 1 /\ pc' = "image"
          /\ walk' = [level |-> Levels, root |-> KernelPageTable,
                      page |-> KernelStart + i, frame |-> ImageFrame + i,
                      at |-> KernelPageTable]
      BY <1>7, <2>3 DEF MapImage, Goto, MapCall
    <3>2. /\ walk' # NoCall /\ walk'.root = KernelPageTable
          /\ walk'.page = KernelStart + i /\ walk'.frame = ImageFrame + i
      BY <1>2, <1>5, <3>1 DEF NoCall
    <3>3. Loop(KernelStart, ImageFrame, KernelPages)'
      BY <1>1, <1>2, <1>3, <2>1, <2>3, <3>1, <3>2, Regions, LoopKept
    <3> QED
      BY <1>3, <2>2, <3>1, <3>3 DEF MappedInv, BuiltSteps
  <2>4. CASE ~(i < KernelPages)
    <3>1. pc' = "prealloc"
      BY <1>7, <2>4 DEF MapImage, Goto
    <3>2. i = KernelPages
      BY <1>2, <2>1, <2>4, LayoutAssumption DEF Loop
    <3>3. Mapped(KernelStart, ImageFrame, KernelPages)'
      BY <1>1, <1>4, <2>1, <3>2 DEF Loop
    <3> QED
      BY <1>3, <2>2, <3>1, <3>3 DEF MappedInv, BuiltSteps
  <2> QED
    BY <2>3, <2>4
<1> QED
  BY <1>6, <1>7

(* The steps of boot. *)
LEMMA StepMapped ==
  ASSUME TableInv, TreeInv, MappedInv, [Next]_vars, ~lost'
  PROVE  MappedInv'
<1>1. CASE allocateRootPageTable
  <2>1. pc = "root" /\ walk' = NoCall /\ cr3' = cr3 /\ pc' \in {"direct", "fault"}
        /\ i' = 0
    BY <1>1 DEF allocateRootPageTable, Goto, TableInv, StartInv
  <2>2. cr3' = None
    BY <2>1, NotLoaded
  <2>3. Loop(DirectMapBase, 0, NumFrames)'
    BY <2>1, ShapeAssumption DEF Loop, Busy, Mapped
  <2> QED
    BY <2>1, <2>2, <2>3 DEF MappedInv, BuiltSteps
<1>2. CASE MapDirect \/ MapImage
  BY <1>2, HeadsMapped
<1>3. CASE (MapDescend \/ MapLeaf) /\ pc \in {"direct", "image"}
  BY <1>3, MapMapped
<1>4. CASE (MapDescend \/ MapLeaf) /\ pc \notin {"direct", "image"}
  <2>1. walk.level > 0
    <3>1. walk.level \in Int
      BY ShapeAssumption DEF TableInv, TypeInv, NoCall, Call
    <3>2. (MapDescend => walk.level > 1) /\ (MapLeaf => walk.level = 1)
      BY DEF MapDescend, MapLeaf
    <3> QED
      BY <1>4, <3>1, <3>2
  <2>2. pc = "loaded" /\ pageTable # None /\ walk # NoCall
    BY <1>4, <2>1, InCall
  <2>3. KernelPageTable \in Frame /\ walk.page = Entrypoint
    BY <2>2 DEF TableInv, ProcessInv
  <2>4. pc' = pc /\ UNCHANGED <<KernelPageTable, pageTable, cr3>>
    BY <1>4, Descends DEF MapDescend, MapLeaf
  <2>5. KernelPageTable # None
    BY <2>3, ShapeAssumption DEF Frame, None
  <2>6. cr3 # None => cr3 \in {KernelPageTable, pageTable}
    BY DEF MappedInv
  <2> QED
    BY <2>2, <2>3, <2>4, <2>5, <2>6, StageKept DEF BuiltSteps
<1>5. CASE Preallocate \/ shallowCopy
  <2>1. /\ pc \in {"prealloc", "up"} /\ walk = NoCall
        /\ pc' \in {"prealloc", "up", "copied", "fault"}
        /\ KernelPageTable' = KernelPageTable /\ cr3' \in {cr3, KernelPageTable}
    BY <1>5 DEF Preallocate, shallowCopy, Goto
  <2>2. KernelPageTable \in Frame /\ pageTable = None
    BY <2>1 DEF TableInv, BuildInv, Building
  <2>3. KernelPageTable # None
    BY <2>2, ShapeAssumption DEF Frame, None
  <2>4. ~MapLeaf
    BY <2>1 DEF MapLeaf, NoCall
  <2>5. cr3 # None => cr3 = KernelPageTable
    BY <2>2 DEF MappedInv
  <2> QED
    BY <2>1, <2>3, <2>4, <2>5, StageKept DEF BuiltSteps
<1>6. CASE LoadProgram \/ LoadProcessTable \/ OtherAllocation
  <2>1. /\ pc \in {"up", "copied", "loaded"}
        /\ pc' \in {"up", "copied", "loaded", "running", "fault"}
        /\ UNCHANGED <<table, KernelPageTable, pageTable>> /\ cr3' \in {cr3, pageTable}
    BY <1>6 DEF LoadProgram, LoadProcessTable, OtherAllocation, Goto
  <2>2. \A base, frame, n : Mapped(base, frame, n) => Mapped(base, frame, n)'
    BY <2>1 DEF Mapped, Translate
  <2>3. KernelPageTable \in Frame
    BY <2>1 DEF TableInv, BuildInv, Building, StartInv, ProcessInv
  <2>4. KernelPageTable # None
    BY <2>3, ShapeAssumption DEF Frame, None
  <2> QED
    BY <2>1, <2>2, <2>4 DEF MappedInv, BuiltSteps
<1>7. CASE UNCHANGED vars
  <2>1. UNCHANGED <<table, KernelPageTable, pageTable, cr3, pc, i, walk>>
    BY <1>7 DEF vars
  <2>2. \A base, frame, n : Mapped(base, frame, n) => Mapped(base, frame, n)'
    BY <2>1 DEF Mapped, Translate
  <2>3. \A base, frame, n : Loop(base, frame, n) => Loop(base, frame, n)'
    BY <2>1, <2>2 DEF Loop, Busy
  <2> QED
    BY <2>1, <2>2, <2>3 DEF MappedInv
<1>8. ~LostFault
  BY StillLost DEF LostFault
<1> QED
  BY <1>1, <1>2, <1>3, <1>4, <1>5, <1>6, <1>7, <1>8 DEF Next, Step

(* At any moment of the loops the pages before i are mapped; nothing that  *)
(* follows unmaps or moves them.                                           *)
THEOREM LoopsMap == Spec => [](~lost => MappedInv)
<1>1. Init => (~lost => MappedInv)
  BY DEF Init, MappedInv, BuiltSteps
<1>2. ASSUME ~lost => TableInv, ~lost => TreeInv, ~lost => MappedInv, [Next]_vars
      PROVE  (~lost => MappedInv)'
  BY <1>2, StepMapped, StillLost
<1> QED
  BY <1>1, <1>2, Invariance, Trees, PTL DEF Spec

(* As long as map gets its tables, whichever table is in use, the kernel's *)
(* or the process's, the physical memory that an entry can name is at the  *)
(* direct mapping and the kernel's image is where it was                   *)
(* (initializeVirtualMemory, map, shallowCopy, schedule).                  *)
THEOREM KernelStays == Spec => []KernelMapped
<1>1. ASSUME ~lost => TableInv, ~lost => MappedInv PROVE KernelMapped
  <2> SUFFICES ASSUME ~lost, cr3 # None PROVE KernelMapped
    BY DEF KernelMapped
  <2>1. /\ cr3 \in {KernelPageTable, pageTable} /\ KernelPageTable # None
        /\ Mapped(DirectMapBase, 0, NumFrames)
        /\ Mapped(KernelStart, ImageFrame, KernelPages)
    BY <1>1 DEF MappedInv
  <2>2. ASSUME NEW p \in DirectMapBase .. KernelStart + KernelPages - 1
        PROVE  Translate(cr3, p) = Translate(KernelPageTable, p)
    <3>1. CASE cr3 = KernelPageTable
      BY <3>1
    <3>2. CASE cr3 = pageTable
      <4>1. /\ pageTable \in Frame /\ KernelPageTable \in Frame
            /\ \A x \in KernelHalf : table[pageTable][x] = table[KernelPageTable][x]
        BY <1>1, <3>2, InProcess
      <4>2. Digit(Levels, p) \in KernelHalf
        BY HalvesAssumption
      <4>3. PICK q : q = Path(table, KernelPageTable, p)
        OBVIOUS
      <4>4. Path(table, pageTable, p)[0] = q[0]
        BY <4>1, <4>2, <4>3, RootsAlike
      <4> QED
        BY <3>2, <4>3, <4>4 DEF Translate
    <3> QED
      BY <2>1, <3>1, <3>2
  <2>3. \A f \in Frame :
          /\ f \in 0 .. NumFrames - 1 /\ 0 + f = f
          /\ f < FieldLimit => Field(f) = f
          /\ DirectMapBase + f \in DirectMapBase .. KernelStart + KernelPages - 1
    BY LayoutAssumption, ShapeAssumption, Names DEF Frame
  <2>4. \A k \in 0 .. KernelPages - 1 :
          /\ ImageFrame + k \in Frame
          /\ KernelStart + k \in DirectMapBase .. KernelStart + KernelPages - 1
    BY LayoutAssumption, ShapeAssumption DEF Frame
  <2> QED
    BY <2>1, <2>2, <2>3, <2>4 DEF KernelMapped, Mapped
<1> QED
  BY <1>1, Invariance, LoopsMap, PTL

-----------------------------------------------------------------------------
(* The half of the processes *)

(* A root without entries in this half maps nothing there. *)
LEMMA NothingMapped ==
  ASSUME NEW m, NEW root \in Frame,
         \A x \in Index \ KernelHalf : m[root][x] = NotPresent,
         NEW p \in VirtualPage \ KernelPage
  PROVE  Path(m, root, p)[0] = None
<1>1. Levels \in 1 .. Levels /\ Levels \in 0 .. Levels
  BY ShapeAssumption
<1>2. p \in Nat
  <2>1. Fanout^Levels \in Nat
    BY <1>1, PowerAssumption
  <2> QED
    BY <2>1 DEF VirtualPage
<1>3. Digit(Levels, p) \in Index \ KernelHalf
  BY <1>1, <1>2, Indexed DEF KernelPage
<1>4. ~m[root][Digit(Levels, p)].present
  BY <1>3, Entries
<1> QED
  BY <1>4, NothingThere

(* What the kernel's table has in this half: nothing. *)
LEMMA KernelPrivate ==
  ASSUME TableInv, TreeInv, PrivateInv, [Next]_vars, ~lost', TableInv',
         KernelPageTable' # None, NEW p \in VirtualPage \ KernelPage
  PROVE  Path(table', KernelPageTable', p)[0] = None
<1>1. KernelPageTable' \in Frame
  BY DEF TableInv, TypeInv
<1>2. CASE NoUserEntry(KernelPageTable)'
  <2>1. PICK root \in Frame : root = KernelPageTable'
    BY <1>1
  <2>2. PICK m2 : m2 = table'
    OBVIOUS
  <2>3. \A x \in Index \ KernelHalf : m2[root][x] = NotPresent
    BY <1>2, <2>1, <2>2 DEF NoUserEntry
  <2> QED
    BY <2>1, <2>2, <2>3, NothingMapped
<1>3. CASE ~NoUserEntry(KernelPageTable)'
  <2>1. pageTable' = None /\ pc' \notin Building
    BY <1>3 DEF TableInv, BuildInv, ProcessInv
  <2>2. KernelPageTable' = KernelPageTable
    <3>1. allocateRootPageTable => pc' = "direct" \/ KernelPageTable' = KernelPageTable
      BY DEF allocateRootPageTable, Goto
    <3> QED
      BY <2>1, <3>1
         DEF Building, Next, Step, MapDescend, MapLeaf, MapDirect, MapImage, Preallocate,
             shallowCopy, LoadProgram, LoadProcessTable, LostFault,
             OtherAllocation, vars
  <2>3. KernelPageTable \in Roots /\ Path(table, KernelPageTable, p)[0] = None
    BY <2>2 DEF Roots, PrivateInv, Translate
  <2>4. ~MapLeaf
    <3>1. ASSUME MapLeaf PROVE FALSE
      <4>1. pc' = pc /\ pageTable' = pageTable /\ walk.level > 0
        BY <3>1 DEF MapLeaf
      <4> QED
        BY <2>1, <4>1, InCall DEF Building
    <3> QED
      BY <3>1
  <2>5. Kept
    BY <2>4, StepTree
  <2> QED
    BY <2>2, <2>3, <2>5 DEF Kept
<1> QED
  BY <1>2, <1>3

(* What the process's table has in this half: nothing before the last step *)
(* of map for its program, and the program after it.                       *)
LEMMA ProcessPrivate ==
  ASSUME TableInv, TreeInv, PrivateInv, [Next]_vars, ~lost', TableInv',
         pageTable' # None, NEW p \in VirtualPage \ KernelPage
  PROVE  Path(table', pageTable', p)[0] =
           IF p = Entrypoint /\ walk' = NoCall /\ pc' \in {"loaded", "running"}
           THEN Field(program') ELSE None
<1>1. pageTable' \in Frame
  BY DEF TableInv, TypeInv
<1>2. CASE pc' = "copied"
  <2>1. PICK root \in Frame : root = pageTable'
    BY <1>1
  <2>2. PICK m2 : m2 = table'
    OBVIOUS
  <2>3. \A x \in Index \ KernelHalf : m2[root][x] = NotPresent
    BY <1>2, <2>1, <2>2 DEF NoUserEntry, TableInv, ProcessInv
  <2>4. Path(table', pageTable', p)[0] = None
    BY <2>1, <2>2, <2>3, NothingMapped
  <2> QED
    BY <1>2, <2>4
<1>3. CASE pc' # "copied"
  <2>1. pageTable' = pageTable
    <3>1. shallowCopy => pc' = "copied" \/ pageTable' = pageTable
      BY DEF shallowCopy, Goto
    <3> QED
      BY <1>3, <3>1
         DEF Next, Step, MapDescend, MapLeaf, allocateRootPageTable, MapDirect, MapImage,
             Preallocate, LoadProgram, LoadProcessTable, LostFault,
             OtherAllocation, vars
  <2>2. /\ pageTable \in Roots
        /\ Path(table, pageTable, p)[0] =
             IF p = Entrypoint /\ walk = NoCall /\ pc \in {"loaded", "running"}
             THEN Field(program) ELSE None
    BY <2>1 DEF Roots, PrivateInv, Translate
  <2>3. CASE MapLeaf
    <3>1. /\ walk' = NoCall /\ pc' = pc /\ program' = program /\ walk.level > 0
      BY <2>3 DEF MapLeaf
    <3>2. pc = "loaded" /\ walk # NoCall
      BY <2>1, <3>1, InCall
    <3>3. walk.page = Entrypoint /\ walk.root = pageTable /\ walk.frame = program
      BY <2>1, <3>2 DEF TableInv, ProcessInv, PrivateInv
    <3>4. /\ Path(table', pageTable, p)[0] # Path(table, pageTable, p)[0] => p = walk.page
          /\ Path(table', pageTable, Entrypoint)[0] = Field(program)
      BY <2>2, <2>3, <3>3, LeafTree
    <3> QED
      BY <2>1, <2>2, <3>1, <3>2, <3>3, <3>4
  <2>4. CASE Kept /\ ~MapLeaf
    <3>1. Path(table', pageTable', p)[0] = Path(table, pageTable, p)[0]
      BY <2>1, <2>2, <2>4 DEF Kept
    <3>2. pc \in {"copied", "loaded", "running", "fault"}
      BY <2>1 DEF TableInv, ProcessInv
    <3>3. \/ /\ program' = program /\ (walk' = NoCall <=> walk = NoCall)
             /\ pc' = pc \/ (pc = "loaded" /\ pc' = "running")
          \/ /\ ~(walk' = NoCall /\ pc' \in {"loaded", "running"})
             /\ ~(walk = NoCall /\ pc \in {"loaded", "running"})
      <4>1. CASE MapDescend
        BY <4>1, Descends DEF MapDescend
      <4>2. CASE LoadProgram
        <5>1. pc = "copied"
          BY <4>2 DEF LoadProgram, Goto
        <5>2. ~(walk' = NoCall /\ pc' \in {"loaded", "running"})
          <6>1. CASE free = {}
            BY <4>2, <6>1 DEF LoadProgram, Goto
          <6>2. CASE free # {}
            <7>1. walk'.level = Levels
              BY <4>2, <6>2 DEF LoadProgram, MapCall
            <7>2. NoCall.level = 0 /\ Levels # 0
              BY ShapeAssumption DEF NoCall
            <7>3. walk' # NoCall
              BY <7>1, <7>2
            <7> QED
              BY <7>3
          <6> QED
            BY <6>1, <6>2
        <5> QED
          BY <5>1, <5>2
      <4>3. CASE LoadProcessTable \/ OtherAllocation \/ UNCHANGED vars
        BY <4>3 DEF LoadProcessTable, OtherAllocation, vars, Goto
      <4>4. ~LostFault
        BY StillLost DEF LostFault
      <4> QED
        BY <2>4, <3>2, <4>1, <4>2, <4>3, <4>4
           DEF Next, Step, allocateRootPageTable, MapDirect, MapImage, Preallocate,
               shallowCopy, Goto
    <3> QED
      BY <2>2, <3>1, <3>3
  <2> QED
    BY <2>3, <2>4, StepTree
<1> QED
  BY <1>2, <1>3

(* The call of map for the program. *)
LEMMA ProgramCall ==
  ASSUME TableInv, PrivateInv, [Next]_vars, ~lost', pc' \in {"loaded", "running"}
  PROVE  /\ program' \in Frame
         /\ pc' = "loaded" /\ walk' # NoCall =>
              walk'.root = pageTable' /\ walk'.frame = program'
<1>1. CASE LoadProgram
  <2>1. free # {}
    BY <1>1 DEF LoadProgram, Goto
  <2>2. /\ program' = allocatePage /\ pageTable' = pageTable
        /\ walk' = [level |-> Levels, root |-> pageTable, page |-> Entrypoint,
                    frame |-> allocatePage, at |-> pageTable]
    BY <1>1, <2>1 DEF LoadProgram, MapCall
  <2>3. allocatePage \in Frame
    BY <2>1, Allocates DEF TableInv, TypeInv
  <2> QED
    BY <2>2, <2>3
<1>2. CASE MapDescend
  <2>1. /\ walk # NoCall /\ pc' = pc /\ walk'.root = walk.root
        /\ walk'.frame = walk.frame
    BY <1>2, Descends
  <2>2. program' = program /\ pageTable' = pageTable
    BY <1>2 DEF MapDescend
  <2> QED
    BY <2>1, <2>2 DEF PrivateInv
<1>3. CASE MapLeaf \/ LoadProcessTable \/ OtherAllocation \/ UNCHANGED vars
  BY <1>3 DEF MapLeaf, LoadProcessTable, OtherAllocation, vars, Goto, PrivateInv
<1>4. ~LostFault
  BY StillLost DEF LostFault
<1> QED
  BY <1>1, <1>2, <1>3, <1>4
     DEF Next, Step, allocateRootPageTable, MapDirect, MapImage, Preallocate,
         shallowCopy, Goto

(* As long as map gets its tables, the program is the only page of the     *)
(* process's half, it is in the process's table from the last step of map  *)
(* on, and no table of the kernel has it: map for the process never writes *)
(* to a table that the kernel's root leads to (createFirstProcess,         *)
(* shallowCopy, map).                                                      *)
THEOREM UserPrivate == Spec => []UserHalfPrivate
<1>1. Init => (~lost => PrivateInv)
  BY DEF Init, PrivateInv, NoCall
<1>2. ASSUME TableInv, TreeInv, PrivateInv, [Next]_vars, ~lost', TableInv'
      PROVE  PrivateInv'
  <2>1. ASSUME NEW p \in VirtualPage \ KernelPage
        PROVE  /\ (KernelPageTable # None => Translate(KernelPageTable, p) = None)'
               /\ (pageTable # None =>
                     Translate(pageTable, p) =
                       IF p = Entrypoint /\ walk = NoCall /\ pc \in {"loaded", "running"}
                       THEN Field(program) ELSE None)'
    BY <1>2, <2>1, KernelPrivate, ProcessPrivate DEF Translate, Field
  <2>2. /\ pc' \in {"loaded", "running"} => program' \in Frame
        /\ pc' = "loaded" /\ walk' # NoCall =>
             walk'.root = pageTable' /\ walk'.frame = program'
    BY <1>2, ProgramCall
  <2> QED
    BY <2>1, <2>2 DEF PrivateInv
<1>3. ASSUME ~lost => TableInv, ~lost => TreeInv, ~lost => PrivateInv, [Next]_vars,
             (~lost => TableInv)'
      PROVE  (~lost => PrivateInv)'
  BY <1>2, <1>3, StillLost
<1>4. (~lost => PrivateInv) => UserHalfPrivate
  <2>1. program \in Frame /\ program < FieldLimit => Field(program) = program
    BY Names
  <2> QED
    BY <2>1 DEF PrivateInv, UserHalfPrivate
<1> QED
  BY <1>1, <1>3, <1>4, Invariance, Trees, PTL DEF Spec
=============================================================================

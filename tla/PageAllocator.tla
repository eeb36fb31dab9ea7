--------------------------- MODULE PageAllocator ----------------------------
(***************************************************************************)
(* What the physical memory manager promises its callers                   *)
(* (PhysicalMemoryManagement.h): a caller asks for a number of pages and   *)
(* gets a range of so many free pages, never the same page twice, or is    *)
(* refused, and that only if no run of free pages is long enough for it.   *)
(* It takes ranges back.                                                   *)
(***************************************************************************)
EXTENDS Naturals

CONSTANTS
  Client,       \* who may ask for pages
  Page,         \* the page numbers of physical memory
  MaxRequest    \* the longest request for pages

VARIABLES
  free,     \* the pages the manager may lend out
  wanted,   \* how many pages each client is waiting for, or 0
  result    \* the last answer: an address; 0 is the null address

Run(base, n) == base .. base + n - 1

Init ==
  /\ free \subseteq Page
  /\ wanted = [c \in Client |-> 0]
  /\ result = 0

(* A client asks for n pages. *)
Request(c, n) ==
  /\ wanted[c] = 0
  /\ wanted' = [wanted EXCEPT ![c] = n]
  /\ UNCHANGED <<free, result>>

(* The client's request has been answered. *)
Answer(c) ==
  /\ wanted[c] > 0
  /\ wanted' = [wanted EXCEPT ![c] = 0]

(* As many free pages as it wants are lent to a client. *)
Lend(c) ==
  /\ Answer(c)
  /\ \E base \in Page :
       /\ Run(base, wanted[c]) \subseteq free
       /\ free' = free \ Run(base, wanted[c])
       /\ result' = base

(* A client is refused what it wants only when there is no such range. *)
Refuse(c) ==
  /\ Answer(c)
  /\ ~ \E base \in Page : Run(base, wanted[c]) \subseteq free
  /\ result' = 0
  /\ UNCHANGED free

(* A range of pages that are not free comes back. *)
Return ==
  \E first, last \in Page :
    /\ first <= last
    /\ first .. last \subseteq Page \ free
    /\ free' = free \union first .. last
    /\ UNCHANGED <<wanted, result>>

Next ==
  \/ \E c \in Client :
       Lend(c) \/ Refuse(c) \/ \E n \in 1 .. MaxRequest : Request(c, n)
  \/ Return

Spec == Init /\ [][Next]_<<free, wanted, result>>
=============================================================================

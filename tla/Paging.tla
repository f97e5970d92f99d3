-------------------------------- MODULE Paging -------------------------------
(***************************************************************************)
(* The page directory of paging.c: virtual pages of 4 MiB mapped to        *)
(* physical frames, and the table of who has which frame.                  *)
(***************************************************************************)
EXTENDS Integers

CONSTANTS PAGE_ENTRY_COUNT,  \* pages of the directory and frames of the table, 1024
          KernelPage,        \* 0x300, where frame 0 is mapped
          Memory             \* frames of memory, 32 in a machine of 128 MiB

ASSUME PagingAssumption ==
    /\ PAGE_ENTRY_COUNT \in Nat /\ PAGE_ENTRY_COUNT >= 3
    /\ KernelPage \in 1 .. PAGE_ENTRY_COUNT - 1
    /\ Memory \in 1 .. PAGE_ENTRY_COUNT

Page  == 0 .. PAGE_ENTRY_COUNT - 1
Frame == 0 .. PAGE_ENTRY_COUNT - 1
None  == -1

VARIABLES directory,  \* page -> its frame, None when it is not present
          user,       \* pages that user mode may access
          table       \* index of a frame -> the page that has it, or None
pagingVars == <<directory, user, table>>

\* get_physical_address_page_at: frame 1 is never used
Physical(i) == (i + 2) % PAGE_ENTRY_COUNT

\* mutant: the first index that was not given out since the last one
FirstUnusedAny(i) == i \in Page

\* the first index that no page has
FirstUnused(i) == table[i] = None /\ \A j \in Page : j < i => table[j] # None

\* after the loader took away the mapping of page 0, and initialize_paging
PagingInit ==
    /\ directory = [p \in Page |-> IF p = KernelPage THEN 0 ELSE None]
    /\ user = {}
    /\ table = [i \in Page |-> None]

\* allocate_single_user_page_frame: a page that is present is refused
Allocate(p) ==
    /\ directory[p] = None
    /\ \E i \in Page :
         /\ FirstUnused(i)
         /\ table' = [table EXCEPT ![i] = p]
         /\ directory' = [directory EXCEPT ![p] = Physical(i)]
         /\ user' = user \cup {p}

\* the frame it would take is in memory; nothing in the code asks
FrameLeft == \E i \in Page : FirstUnused(i) /\ Physical(i) \in 2 .. Memory - 1

PagingNext == \E p \in Page : FrameLeft /\ Allocate(p)

PagingSpec == PagingInit /\ [][PagingNext]_pagingVars

-----------------------------------------------------------------------------
TypeOK == /\ directory \in [Page -> Frame \cup {None}]
          /\ user \in SUBSET Page
          /\ table \in [Page -> Page \cup {None}]

\* No two pages are mapped to the same frame: what one program's pages hold is
\* nobody else's, and none is the kernel's.
FramesAreApart ==
    \A p, q \in Page : p # q /\ directory[p] # None => directory[p] # directory[q]

\* The table of frames agrees with the directory: a page of user mode has the
\* frame the table gives it, and the kernel's page is none of them.
TableIsDirectory ==
    KernelPage \notin user /\ \A p \in user : \E i \in Page : table[i] = p /\ directory[p] = Physical(i)
=============================================================================

-------------------------------- MODULE Pmm ---------------------------------
(***************************************************************************)
(* kernel/pmm.c driven by its callers.  The variable held is the callers'  *)
(* side of the contract: how many references to each page the rest of the  *)
(* kernel holds (mappings, page-table pages, page-cache entries, the pages *)
(* of a kernel stack or of a program image).  A caller only adds a         *)
(* reference to, and only gives back, a page it holds.                     *)
(***************************************************************************)
EXTENDS PmmOps

CONSTANTS
    Requests,    \* the <<bytes, align>> pairs passed to pmm_alloc
    MaxRefs      \* bound on the references to one page

ASSUME RequestAssumption ==
    /\ Requests \subseteq (Nat \ {0}) \X (Nat \ {0})
    /\ MaxRefs \in Nat \ {0}

VARIABLES
    pmm,     \* the allocator's record (see PmmOps)
    held     \* [Pages -> Nat]: references the callers hold

vars == <<pmm, held>>

Init == /\ pmm = pmm_init
        /\ held = [p \in Pages |-> 0]

\* A successful pmm_alloc hands its whole pages to the caller, who returns
\* them one by one (task_release, free_exec_image_pages) or never.
Alloc ==
    \E r \in Requests :
        /\ CanAlloc(pmm, r[1], r[2])
        /\ LET res == pmm_alloc(pmm, r[1], r[2])
           IN /\ pmm' = res.m
              /\ held' = [p \in Pages |->
                            IF p \in WholePages(res.addr, res.addr + r[1])
                            THEN held[p] + 1 ELSE held[p]]

AllocPage ==
    LET res == pmm_alloc_page(pmm)
    IN /\ res.addr # NoAddr
       /\ pmm' = res.m
       /\ held' = [held EXCEPT ![res.addr \div PageUnits] = @ + 1]

\* fork sharing a frame, or the page cache handing one out.
RefPage(p) ==
    /\ held[p] \in 1 .. MaxRefs - 1
    /\ pmm' = pmm_ref_page(pmm, p)
    /\ held' = [held EXCEPT ![p] = @ + 1]

FreePage(p) ==
    /\ held[p] > 0
    /\ pmm' = pmm_free_page(pmm, p)
    /\ held' = [held EXCEPT ![p] = @ - 1]

Next == \/ Alloc
        \/ AllocPage
        \/ \E p \in Pages : RefPage(p)
        \/ \E p \in Pages : FreePage(p)

Spec == Init /\ [][Next]_vars

-----------------------------------------------------------------------------
TypeOK == PmmType(pmm) /\ held \in [Pages -> Nat]

\* page_refs counts exactly the references the callers hold: no caller's page
\* is recycled under it and no page is kept after its last pmm_free_page.
RefsAreHolds == pmm.refs = held

\* The free list never holds a page twice and never one that is still
\* referenced, so pmm_alloc_page cannot hand one page to two owners.
FreeListSound == NoDuplicateFree(pmm) /\ NoFreeReferenced(pmm)

\* Every page that was ever handed out lies wholly below the bump cursor, so
\* what pmm_alloc gives out next cannot overlap a page in use or recycled.
BelowBump == HandedOutBelowCursor(pmm)

\* pmm_used_pages (owned_pages) is the number of referenced pages.
OwnedExact == pmm.owned = Cardinality(Referenced(pmm))

\* pmm_available_pages, on which every admission check of the kernel rests, is
\* exact for single pages: the next pmm_alloc_page fails iff it says 0, and
\* takes exactly one page from it.
AvailableExact ==
    LET res == pmm_alloc_page(pmm)
    IN IF res.addr = NoAddr
       THEN pmm_available_pages(pmm) = 0
       ELSE pmm_available_pages(res.m) = pmm_available_pages(pmm) - 1

\* A page gets a new owner only by leaving the free list or from above the
\* cursor: no step makes any other page referenced.
FreshOwnership ==
    [][\A p \in Pages :
          p \in Referenced(pmm') \ Referenced(pmm) =>
             \/ p \in FreePages(pmm) \ FreePages(pmm')
             \/ p * PageUnits >= pmm.cur]_vars
=============================================================================

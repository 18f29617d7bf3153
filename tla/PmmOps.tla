------------------------------- MODULE PmmOps -------------------------------
(***************************************************************************)
(* The physical page allocator of kernel/pmm.c, as operators on its static *)
(* variables, which are gathered in one record                             *)
(*    [cur, free, refs, owned]  =  pmm_cur, free_pages[0..free_top-1],      *)
(*                                 page_refs, owned_pages.                  *)
(* Addresses are counted in the smallest alignment any caller asks for and *)
(* are relative to PHYS_RAM_BASE; a page is PageUnits of them, and a page  *)
(* is named by the index page_index computes.                              *)
(***************************************************************************)
EXTENDS Integers, Sequences, FiniteSets

CONSTANTS
    RamPages,    \* PHYS_RAM_SIZE / PAGE_SIZE
    PageUnits,   \* PAGE_SIZE, in address units
    HeapFirst,   \* the page of __heap_start
    HeapLast     \* the page of __heap_end, the first above the heap

ASSUME PmmAssumption ==
    /\ RamPages \in Nat \ {0}
    /\ PageUnits \in Nat \ {0}
    /\ HeapLast \in 0 .. RamPages
    /\ HeapFirst \in 0 .. HeapLast

Pages == 0 .. RamPages - 1

HeapEnd == HeapLast * PageUnits

NoAddr == -1     \* the null pointer a failed allocation returns

AlignUp(x, align) == ((x + align - 1) \div align) * align

\* The pages lying wholly inside [base, end).
WholePages(base, end) ==
    {p \in Pages : base <= p * PageUnits /\ (p + 1) * PageUnits <= end}

pmm_init == [cur |-> HeapFirst * PageUnits, free |-> << >>,
             refs |-> [p \in Pages |-> 0], owned |-> 0]

\* mark_page_owned on every whole page of the range.
mark_range_owned(m, base, end) ==
    LET new == {p \in WholePages(base, end) : m.refs[p] = 0}
    IN [cur   |-> m.cur,
        free  |-> m.free,
        refs  |-> [p \in Pages |-> IF p \in new THEN 1 ELSE m.refs[p]],
        owned |-> m.owned + Cardinality(new)]

\* pmm_alloc: the bump allocator.  It is the only source of kernel stacks,
\* program images and every object that is not exactly one page, and it never
\* looks at the free list.
CanAlloc(m, bytes, align) == AlignUp(m.cur, align) + bytes <= HeapEnd

pmm_alloc(m, bytes, align) ==
    LET base == AlignUp(m.cur, align)
    IN IF CanAlloc(m, bytes, align)
       THEN [m    |-> mark_range_owned([m EXCEPT !.cur = base + bytes],
                                       base, base + bytes),
             addr |-> base]
       ELSE [m |-> m, addr |-> NoAddr]

\* pmm_alloc_page: the last page freed, else one page of the bump region.
pmm_alloc_page(m) ==
    IF Len(m.free) > 0
    THEN LET p == m.free[Len(m.free)]
         IN [m    |-> [cur   |-> m.cur,
                       free  |-> SubSeq(m.free, 1, Len(m.free) - 1),
                       refs  |-> [m.refs EXCEPT ![p] = 1],
                       owned |-> m.owned + 1],
             addr |-> p * PageUnits]
    ELSE pmm_alloc(m, PageUnits, PageUnits)

\* Mutant: a page already owned is not counted again.
pmm_ref_page_once(m, p) ==
    [m EXCEPT !.refs[p] = 1,
              !.owned = IF m.refs[p] = 0 THEN m.owned + 1 ELSE m.owned]

pmm_ref_page(m, p) ==
    [cur   |-> m.cur,
     free  |-> m.free,
     refs  |-> [m.refs EXCEPT ![p] = m.refs[p] + 1],
     owned |-> IF m.refs[p] = 0 THEN m.owned + 1 ELSE m.owned]

pmm_page_refcount(m, p) == m.refs[p]

pmm_free_page(m, p) ==
    LET last == m.refs[p] = 1
        room == Len(m.free) < RamPages
    IN IF m.refs[p] = 0 THEN m
       ELSE [cur   |-> m.cur,
             free  |-> IF last /\ room THEN Append(m.free, p) ELSE m.free,
             refs  |-> [m.refs EXCEPT ![p] = m.refs[p] - 1],
             owned |-> IF last /\ m.owned > 0 THEN m.owned - 1 ELSE m.owned]

\* Mutant: the page the cursor stands in counts as available.
BumpPages_partial(m) == (HeapEnd - m.cur + PageUnits - 1) \div PageUnits

BumpPages(m) ==
    IF AlignUp(m.cur, PageUnits) < HeapEnd
    THEN (HeapEnd - AlignUp(m.cur, PageUnits)) \div PageUnits
    ELSE 0

pmm_available_pages(m) == Len(m.free) + BumpPages(m)

-----------------------------------------------------------------------------
(* What the allocator's record always satisfies, whoever calls it.          *)

PmmType(m) == m \in [cur : 0 .. HeapEnd, free : Seq(Pages),
                     refs : [Pages -> Nat], owned : Nat]

FreePages(m) == {m.free[i] : i \in 1 .. Len(m.free)}

Referenced(m) == {p \in Pages : m.refs[p] > 0}

NoDuplicateFree(m) ==
    \A i, j \in 1 .. Len(m.free) : m.free[i] = m.free[j] => i = j

NoFreeReferenced(m) == \A i \in 1 .. Len(m.free) : m.refs[m.free[i]] = 0

HandedOutBelowCursor(m) ==
    \A p \in Pages : p \in FreePages(m) \cup Referenced(m) =>
                         (p + 1) * PageUnits <= m.cur
=============================================================================

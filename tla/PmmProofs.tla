------------------------------ MODULE PmmProofs ------------------------------
(***************************************************************************)
(* Proofs about the page allocator and its callers: for every RAM size,    *)
(* page size, heap, set of requests and reference bound.                   *)
(***************************************************************************)
EXTENDS Pmm, FiniteSetTheorems, TLAPS

-----------------------------------------------------------------------------
\* What each function of kernel/pmm.c keeps and returns, whoever calls it.

\* What one call keeps: the record's type, a sound free list, and everything
\* handed out below the cursor.
PmmOK(m) == /\ PmmType(m)
            /\ NoDuplicateFree(m)
            /\ NoFreeReferenced(m)
            /\ HandedOutBelowCursor(m)
            /\ m.owned = Cardinality(Referenced(m))

-----------------------------------------------------------------------------
\* align_up never moves an address down.
LEMMA AlignUpBound ==
    ASSUME NEW x \in Nat, NEW a \in Nat \ {0}
    PROVE  AlignUp(x, a) \in Nat /\ AlignUp(x, a) >= x
<1> DEFINE q == (x + a - 1) \div a
<1>1. q \in Nat
  OBVIOUS
<1>2. a * q <= x + a - 1 /\ x + a - 1 < a * q + a
  OBVIOUS
<1>3. AlignUp(x, a) = a * q
  BY <1>1 DEF AlignUp
<1>4. a * q \in Nat
  BY <1>1
<1> QED BY <1>2, <1>3, <1>4

\* For a page, align_up returns the first address of a page.
LEMMA AlignUpPage ==
    ASSUME NEW x \in Nat
    PROVE  \E k \in Nat : AlignUp(x, PageUnits) = k * PageUnits
<1> (x + PageUnits - 1) \div PageUnits \in Nat
  BY PmmAssumption
<1> QED BY DEF AlignUp

\* The sets of pages the lemmas count are finite.
LEMMA PagesFinite == IsFiniteSet(Pages)
BY FS_Interval, PmmAssumption DEF Pages

LEMMA HeapEndNat == HeapEnd \in Nat
BY PmmAssumption DEF HeapEnd

\* pmm_alloc: the pages it takes were never handed out before.
LEMMA AllocOK ==
    ASSUME NEW m, PmmOK(m), NEW bytes \in Nat \ {0}, NEW align \in Nat \ {0},
           CanAlloc(m, bytes, align)
    PROVE  LET base == AlignUp(m.cur, align)
               res == pmm_alloc(m, bytes, align)
           IN /\ res.addr = base
              /\ PmmOK(res.m)
              /\ res.m.free = m.free
              /\ base >= m.cur
              /\ res.m.refs = [p \in Pages |->
                    IF p \in WholePages(base, base + bytes)
                    THEN m.refs[p] + 1 ELSE m.refs[p]]
<1> DEFINE base == AlignUp(m.cur, align)
           taken == WholePages(base, base + bytes)
           new == {p \in taken : m.refs[p] = 0}
           n == pmm_alloc(m, bytes, align).m
<1>0. m.cur \in Nat /\ m.cur <= HeapEnd
  BY HeapEndNat DEF PmmOK, PmmType
<1>1. base \in Nat /\ base >= m.cur
  BY <1>0, AlignUpBound
<1>2. base + bytes <= HeapEnd /\ base + bytes \in Nat
  BY <1>1 DEF CanAlloc
<1>3. \A p \in taken : m.refs[p] = 0 /\ p \notin FreePages(m)
  <2> SUFFICES ASSUME NEW p \in taken, m.refs[p] # 0 \/ p \in FreePages(m)
               PROVE  FALSE
    OBVIOUS
  <2>1. p \in Pages /\ base <= p * PageUnits
    BY DEF WholePages
  <2>2. m.refs[p] \in Nat
    BY <2>1 DEF PmmOK, PmmType
  <2>3. (p + 1) * PageUnits <= m.cur
    BY <2>1, <2>2 DEF PmmOK, HandedOutBelowCursor, Referenced
  <2>4. (p + 1) * PageUnits = p * PageUnits + PageUnits /\ p * PageUnits \in Nat
    BY <2>1, PmmAssumption DEF Pages
  <2> QED BY <1>0, <1>1, <2>1, <2>3, <2>4, PmmAssumption
<1>4. new = taken
  BY <1>3
<1> DEFINE moved == [m EXCEPT !.cur = base + bytes]
<1>a. moved = [cur |-> base + bytes, free |-> m.free, refs |-> m.refs,
               owned |-> m.owned]
  BY DEF PmmOK, PmmType
<1>b. pmm_alloc(m, bytes, align)
        = [m |-> mark_range_owned(moved, base, base + bytes), addr |-> base]
  BY DEF pmm_alloc
<1>5. /\ pmm_alloc(m, bytes, align).addr = base
      /\ n = [cur   |-> base + bytes,
              free  |-> m.free,
              refs  |-> [p \in Pages |-> IF p \in new THEN 1 ELSE m.refs[p]],
              owned |-> m.owned + Cardinality(new)]
  <2> HIDE DEF moved, base, n
  <2>1. n = mark_range_owned(moved, base, base + bytes)
        /\ pmm_alloc(m, bytes, align).addr = base
    BY <1>b DEF n
  <2>2. moved.refs = m.refs /\ moved.owned = m.owned /\ moved.cur = base + bytes
        /\ moved.free = m.free
    BY <1>a
  <2> QED BY <2>1, <2>2 DEF mark_range_owned
<1>6. /\ n.free = m.free
      /\ n.cur = base + bytes
      /\ n.owned = m.owned + Cardinality(taken)
      /\ n.refs = [p \in Pages |-> IF p \in taken THEN 1 ELSE m.refs[p]]
  <2> HIDE DEF n, new, taken, base
  <2> QED BY <1>4, <1>5
<1>7. n.refs = [p \in Pages |-> IF p \in taken THEN m.refs[p] + 1 ELSE m.refs[p]]
  BY <1>3, <1>6
<1>8. IsFiniteSet(taken) /\ Cardinality(taken) \in Nat
  <2>1. taken \subseteq Pages
    BY DEF WholePages
  <2> QED BY <2>1, PagesFinite, FS_Subset, FS_CardinalityType
<1>9. PmmType(n)
  <2>1. n.refs \in [Pages -> Nat]
    BY <1>6 DEF PmmOK, PmmType
  <2>2. n.cur \in 0 .. HeapEnd /\ n.owned \in Nat
    BY <1>2, <1>6, <1>8, HeapEndNat DEF PmmOK, PmmType
  <2> QED BY <1>5, <1>6, <2>1, <2>2 DEF PmmOK, PmmType
<1>10. NoDuplicateFree(n)
  BY <1>6 DEF NoDuplicateFree, PmmOK
<1>11. NoFreeReferenced(n)
  <2> SUFFICES ASSUME NEW i \in 1 .. Len(m.free)
               PROVE  n.refs[m.free[i]] = 0
    BY <1>6 DEF NoFreeReferenced
  <2>1. m.free[i] \in Pages /\ m.free[i] \in FreePages(m)
    BY DEF PmmOK, PmmType, FreePages
  <2>2. m.free[i] \notin taken
    BY <1>3, <2>1
  <2>3. m.refs[m.free[i]] = 0
    BY DEF PmmOK, NoFreeReferenced
  <2> QED BY <1>6, <2>1, <2>2, <2>3
<1>12. HandedOutBelowCursor(n)
  <2> SUFFICES ASSUME NEW p \in Pages, p \in FreePages(n) \cup Referenced(n)
               PROVE  (p + 1) * PageUnits <= n.cur
    BY DEF HandedOutBelowCursor
  <2>0. (p + 1) * PageUnits \in Nat
    BY PmmAssumption DEF Pages
  <2>1. CASE p \in taken
    BY <1>6, <2>1 DEF WholePages
  <2>2. CASE p \notin taken
    <3>1. p \in FreePages(m) \cup Referenced(m)
      BY <1>6, <2>2 DEF FreePages, Referenced
    <3>2. (p + 1) * PageUnits <= m.cur
      BY <3>1 DEF PmmOK, HandedOutBelowCursor
    <3> QED BY <1>0, <1>1, <1>6, <2>0, <3>2
  <2> QED BY <2>1, <2>2
<1>13. n.owned = Cardinality(Referenced(n))
  <2>1. Referenced(n) = Referenced(m) \cup taken
    BY <1>6 DEF Referenced, WholePages
  <2>2. Referenced(m) \cap taken = {}
    BY <1>3 DEF Referenced
  <2>3. IsFiniteSet(Referenced(m))
    BY PagesFinite, FS_Subset DEF Referenced
  <2>4. Cardinality(Referenced(n))
          = Cardinality(Referenced(m)) + Cardinality(taken)
            - Cardinality(Referenced(m) \cap taken)
    BY <1>8, <2>1, <2>3, FS_Union
  <2>5. Cardinality(Referenced(m) \cap taken) = 0
    BY <2>2, FS_EmptySet
  <2>6. Cardinality(Referenced(m)) \in Nat
    BY <2>3, FS_CardinalityType
  <2>7. m.owned = Cardinality(Referenced(m))
    BY DEF PmmOK
  <2> QED BY <1>6, <1>8, <2>4, <2>5, <2>6, <2>7
<1> QED
  BY <1>1, <1>5, <1>6, <1>7, <1>9, <1>10, <1>11, <1>12, <1>13 DEF PmmOK

\* pmm_alloc_page from a non-empty free list: the page leaves the list and
\* gets its first reference.
LEMMA PopOK ==
    ASSUME NEW m, PmmOK(m), Len(m.free) > 0
    PROVE  LET p == m.free[Len(m.free)]
               n == pmm_alloc_page(m).m
           IN /\ p \in Pages
              /\ m.refs[p] = 0
              /\ pmm_alloc_page(m).addr = p * PageUnits
              /\ PmmOK(n)
              /\ n.refs = [m.refs EXCEPT ![p] = 1]
              /\ n.cur = m.cur
              /\ p \in FreePages(m) \ FreePages(n)
<1> DEFINE p == m.free[Len(m.free)]
           n == pmm_alloc_page(m).m
<1>0. m.free \in Seq(Pages) /\ m.refs \in [Pages -> Nat] /\ m.owned \in Nat
      /\ Len(m.free) \in Nat
  BY DEF PmmOK, PmmType
<1>1. p \in Pages /\ m.refs[p] = 0 /\ p \in FreePages(m)
  BY <1>0 DEF PmmOK, NoFreeReferenced, FreePages
<1>2. /\ n.free = SubSeq(m.free, 1, Len(m.free) - 1)
      /\ n.cur = m.cur
      /\ n.refs = [m.refs EXCEPT ![p] = 1]
      /\ n.owned = m.owned + 1
      /\ pmm_alloc_page(m).addr = p * PageUnits
  BY DEF pmm_alloc_page, PmmOK, PmmType
<1>3. PmmType(n)
  BY <1>0, <1>1 DEF pmm_alloc_page, PmmOK, PmmType
<1>4. /\ Len(n.free) = Len(m.free) - 1
      /\ \A i \in 1 .. Len(n.free) : n.free[i] = m.free[i]
  BY <1>0, <1>2
<1>5. \A i \in 1 .. Len(n.free) : n.free[i] # p
  <2> HIDE DEF n
  <2> SUFFICES ASSUME NEW i \in 1 .. Len(n.free)
               PROVE  n.free[i] # p
    OBVIOUS
  <2>1. /\ i \in 1 .. Len(m.free) /\ Len(m.free) \in 1 .. Len(m.free)
        /\ i # Len(m.free) /\ n.free[i] = m.free[i]
    BY <1>0, <1>4
  <2>2. m.free[i] # m.free[Len(m.free)]
    BY <2>1 DEF PmmOK, NoDuplicateFree
  <2> QED BY <2>1, <2>2
<1>6. NoDuplicateFree(n)
  <2> HIDE DEF n, p
  <2> SUFFICES ASSUME NEW i \in 1 .. Len(n.free), NEW j \in 1 .. Len(n.free),
                      n.free[i] = n.free[j]
               PROVE  i = j
    BY DEF NoDuplicateFree
  <2>1. i \in 1 .. Len(m.free) /\ j \in 1 .. Len(m.free)
    BY <1>0, <1>4
  <2>2. n.free[i] = m.free[i] /\ n.free[j] = m.free[j]
    BY <1>4, Zenon
  <2>3. m.free[i] = m.free[j]
    BY <2>2, Zenon
  <2> QED BY <2>1, <2>3 DEF PmmOK, NoDuplicateFree
<1>7. NoFreeReferenced(n)
  <2> HIDE DEF n, p
  <2> SUFFICES ASSUME NEW i \in 1 .. Len(n.free)
               PROVE  n.refs[n.free[i]] = 0
    BY DEF NoFreeReferenced
  <2>1. i \in 1 .. Len(m.free) /\ n.free[i] = m.free[i] /\ m.free[i] \in Pages
    BY <1>0, <1>4
  <2>2. m.refs[m.free[i]] = 0
    BY <2>1 DEF PmmOK, NoFreeReferenced
  <2> QED BY <1>0, <1>2, <1>5, <2>1, <2>2, Zenon
<1>8. Referenced(n) = Referenced(m) \cup {p} /\ p \notin Referenced(m)
  BY <1>0, <1>1, <1>2 DEF Referenced
<1>9. FreePages(n) \subseteq FreePages(m) /\ p \notin FreePages(n)
  <2> HIDE DEF p, n
  <2>1. ASSUME NEW q \in FreePages(n) PROVE q \in FreePages(m) /\ q # p
    <3>1. PICK i \in 1 .. Len(n.free) : q = n.free[i]
      BY DEF FreePages
    <3>2. i \in 1 .. Len(m.free) /\ q = m.free[i]
      BY <1>0, <1>4, <3>1
    <3> QED BY <1>5, <3>1, <3>2 DEF FreePages
  <2> QED BY <2>1
<1>10. HandedOutBelowCursor(n)
  BY <1>1, <1>2, <1>8, <1>9 DEF PmmOK, HandedOutBelowCursor
<1>11. n.owned = Cardinality(Referenced(n))
  <2>1. IsFiniteSet(Referenced(m))
    BY PagesFinite, FS_Subset DEF Referenced
  <2>2. Cardinality(Referenced(n)) = Cardinality(Referenced(m)) + 1
    BY <1>8, <2>1, FS_AddElement, Zenon
  <2>3. m.owned = Cardinality(Referenced(m))
    BY DEF PmmOK
  <2> QED BY <1>2, <2>2, <2>3
<1> QED
  BY <1>1, <1>2, <1>3, <1>6, <1>7, <1>9, <1>10, <1>11 DEF PmmOK

\* pmm_ref_page on a referenced page.
LEMMA RefOK ==
    ASSUME NEW m, PmmOK(m), NEW p \in Pages, m.refs[p] > 0
    PROVE  LET n == pmm_ref_page(m, p)
           IN /\ PmmOK(n)
              /\ n.refs = [m.refs EXCEPT ![p] = m.refs[p] + 1]
              /\ n.cur = m.cur
              /\ n.free = m.free
<1> DEFINE n == pmm_ref_page(m, p)
<1>0. m.refs \in [Pages -> Nat] /\ m.refs[p] \in Nat
  BY DEF PmmOK, PmmType
<1>1. /\ n.free = m.free
      /\ n.cur = m.cur
      /\ n.refs = [m.refs EXCEPT ![p] = m.refs[p] + 1]
      /\ n.owned = m.owned
  BY <1>0 DEF pmm_ref_page, PmmOK, PmmType
<1>2. PmmType(n)
  BY <1>0 DEF pmm_ref_page, PmmOK, PmmType
<1>3. Referenced(n) = Referenced(m)
  BY <1>0, <1>1 DEF Referenced
<1>4. NoFreeReferenced(n)
  <2> SUFFICES ASSUME NEW i \in 1 .. Len(m.free) PROVE n.refs[m.free[i]] = 0
    BY <1>1 DEF NoFreeReferenced
  <2>1. m.refs[m.free[i]] = 0 /\ m.free[i] \in Pages
    BY DEF PmmOK, NoFreeReferenced, PmmType
  <2> QED BY <1>0, <1>1, <2>1
<1>5. NoDuplicateFree(n) /\ HandedOutBelowCursor(n)
  BY <1>1, <1>3 DEF PmmOK, NoDuplicateFree, HandedOutBelowCursor, FreePages
<1> QED BY <1>1, <1>2, <1>3, <1>4, <1>5 DEF PmmOK

\* A list of distinct pages is never longer than RAM: the capacity test of
\* pmm_free_page always lets the page through.
LEMMA FreeListFits ==
    ASSUME NEW m, PmmOK(m), NEW p \in Pages, m.refs[p] > 0
    PROVE  Len(m.free) < RamPages
<1> DEFINE k == Len(m.free)
<1>1. m.free \in Seq(Pages) /\ k \in Nat /\ m.refs \in [Pages -> Nat]
  BY DEF PmmOK, PmmType
<1>2. \A i \in 1 .. k : m.free[i] \in Pages \ {p}
  BY <1>1 DEF PmmOK, NoFreeReferenced
<1> DEFINE f == [i \in 1 .. k |-> m.free[i]]
<1>3. f \in Injection(1 .. k, Pages \ {p})
  <2>1. f \in [1 .. k -> Pages \ {p}]
    BY <1>2
  <2>2. \A i, j \in 1 .. k : f[i] = f[j] => i = j
    BY DEF PmmOK, NoDuplicateFree
  <2> QED BY <2>1, <2>2, Zenon DEF Injection, IsInjective
<1>4. IsFiniteSet(Pages \ {p}) /\ Cardinality(Pages \ {p}) = Cardinality(Pages) - 1
  BY PagesFinite, FS_RemoveElement
<1>5. Cardinality(1 .. k) = k /\ IsFiniteSet(1 .. k)
  <2>0. k \in Int
    BY <1>1
  <2> HIDE DEF k
  <2>1. /\ IsFiniteSet(1 .. k)
        /\ Cardinality(1 .. k) = IF 1 > k THEN 0 ELSE k - 1 + 1
    BY <2>0, FS_Interval
  <2> QED BY <1>1, <2>1
<1>6. Cardinality(Pages) = RamPages
  BY FS_Interval, PmmAssumption DEF Pages
<1>7. Cardinality(1 .. k) <= Cardinality(Pages \ {p})
  BY <1>3, <1>4, FS_Injection
<1> QED BY <1>1, <1>4, <1>5, <1>6, <1>7, PmmAssumption

\* pmm_free_page on a referenced page drops one reference, and puts the page on
\* the free list when it was the last.
LEMMA FreeOK ==
    ASSUME NEW m, PmmOK(m), NEW p \in Pages, m.refs[p] > 0
    PROVE  LET n == pmm_free_page(m, p)
           IN /\ PmmOK(n)
              /\ n.refs = [m.refs EXCEPT ![p] = m.refs[p] - 1]
              /\ n.cur = m.cur
<1> DEFINE n == pmm_free_page(m, p)
<1>0. m.refs \in [Pages -> Nat] /\ m.refs[p] \in Nat /\ m.free \in Seq(Pages)
      /\ Len(m.free) \in Nat /\ m.owned \in Nat
  BY DEF PmmOK, PmmType
<1>1. CASE m.refs[p] > 1
  <2>1. n = [cur |-> m.cur, free |-> m.free,
             refs |-> [m.refs EXCEPT ![p] = m.refs[p] - 1], owned |-> m.owned]
    <3>1. m.refs[p] # 0 /\ m.refs[p] # 1
      BY <1>0, <1>1
    <3> QED BY <3>1, Zenon DEF pmm_free_page
  <2>2. /\ n.free = m.free
        /\ n.cur = m.cur
        /\ n.refs = [m.refs EXCEPT ![p] = m.refs[p] - 1]
        /\ n.owned = m.owned
    BY <2>1
  <2>3. PmmType(n)
    BY <1>0, <1>1, <2>1 DEF PmmOK, PmmType
  <2>4. Referenced(n) = Referenced(m)
    BY <1>0, <1>1, <2>2 DEF Referenced
  <2>5. NoFreeReferenced(n)
    <3> SUFFICES ASSUME NEW i \in 1 .. Len(m.free) PROVE n.refs[m.free[i]] = 0
      BY <2>2 DEF NoFreeReferenced
    <3>1. m.refs[m.free[i]] = 0 /\ m.free[i] \in Pages
      BY DEF PmmOK, NoFreeReferenced, PmmType
    <3> QED BY <1>0, <1>1, <2>2, <3>1
  <2>6. NoDuplicateFree(n) /\ HandedOutBelowCursor(n)
    BY <2>2, <2>4 DEF PmmOK, NoDuplicateFree, HandedOutBelowCursor, FreePages
  <2> QED BY <2>2, <2>3, <2>4, <2>5, <2>6 DEF PmmOK
<1>2. CASE m.refs[p] = 1
  <2>0. Len(m.free) < RamPages
    BY FreeListFits
  <2>a. p \in Referenced(m) /\ IsFiniteSet(Referenced(m))
    BY PagesFinite, FS_Subset, <1>2 DEF Referenced
  <2>b. m.owned = Cardinality(Referenced(m))
        /\ Cardinality(Referenced(m) \ {p}) = Cardinality(Referenced(m)) - 1
        /\ Cardinality(Referenced(m) \ {p}) \in Nat
    BY <2>a, FS_RemoveElement, FS_CardinalityType DEF PmmOK
  <2>1. n = [cur |-> m.cur, free |-> Append(m.free, p),
             refs |-> [m.refs EXCEPT ![p] = 0], owned |-> m.owned - 1]
    <3>1. m.owned > 0 /\ m.refs[p] - 1 = 0 /\ m.refs[p] # 0
      BY <1>0, <1>2, <2>b
    <3> QED BY <1>2, <2>0, <3>1, Zenon DEF pmm_free_page
  <2>2. /\ n.free = Append(m.free, p)
        /\ n.cur = m.cur
        /\ n.refs = [m.refs EXCEPT ![p] = 0]
        /\ n.owned = m.owned - 1
    BY <2>1
  <2>3. PmmType(n)
    BY <1>0, <2>1, <2>b DEF PmmOK, PmmType
  <2>4. /\ Len(n.free) = Len(m.free) + 1
        /\ \A i \in 1 .. Len(m.free) : n.free[i] = m.free[i]
        /\ n.free[Len(m.free) + 1] = p
    BY <1>0, <2>2
  <2>5. \A i \in 1 .. Len(m.free) : m.free[i] # p /\ m.free[i] \in Pages
                                    /\ m.refs[m.free[i]] = 0
    BY <1>0, <1>2 DEF PmmOK, NoFreeReferenced
  <2>6. NoFreeReferenced(n)
    BY <1>0, <2>2, <2>4, <2>5 DEF NoFreeReferenced
  <2>7. NoDuplicateFree(n)
    <3> SUFFICES ASSUME NEW i \in 1 .. Len(n.free), NEW j \in 1 .. Len(n.free),
                        n.free[i] = n.free[j]
                 PROVE  i = j
      BY DEF NoDuplicateFree
    <3>1. CASE i \in 1 .. Len(m.free) /\ j \in 1 .. Len(m.free)
      BY <2>4, <3>1 DEF PmmOK, NoDuplicateFree
    <3>2. CASE i = Len(m.free) + 1 /\ j \in 1 .. Len(m.free)
      BY <2>4, <2>5, <3>2
    <3>3. CASE j = Len(m.free) + 1 /\ i \in 1 .. Len(m.free)
      BY <2>4, <2>5, <3>3
    <3>4. CASE i = Len(m.free) + 1 /\ j = Len(m.free) + 1
      BY <3>4
    <3> QED BY <1>0, <2>4, <3>1, <3>2, <3>3, <3>4
  <2>8. Referenced(n) = Referenced(m) \ {p}
    BY <1>0, <1>2, <2>2 DEF Referenced
  <2>9. FreePages(n) = FreePages(m) \cup {p}
    <3>1. FreePages(n) \subseteq FreePages(m) \cup {p}
      <4> SUFFICES ASSUME NEW i \in 1 .. Len(n.free)
                   PROVE  n.free[i] \in FreePages(m) \cup {p}
        BY DEF FreePages
      <4>1. i \in 1 .. Len(m.free) \/ i = Len(m.free) + 1
        BY <1>0, <2>4
      <4> QED BY <2>4, <4>1 DEF FreePages
    <3>2. \A i \in 1 .. Len(m.free) : i \in 1 .. Len(n.free)
      BY <1>0, <2>4
    <3>3. Len(m.free) + 1 \in 1 .. Len(n.free)
      BY <1>0, <2>4
    <3> QED BY <2>4, <3>1, <3>2, <3>3, Zenon DEF FreePages
  <2>10. HandedOutBelowCursor(n)
    BY <2>2, <2>8, <2>9, <2>a DEF PmmOK, HandedOutBelowCursor
  <2> QED BY <1>2, <2>2, <2>3, <2>6, <2>7, <2>8, <2>10, <2>b DEF PmmOK
<1> QED BY <1>0, <1>1, <1>2

\* pmm_init's record.
LEMMA InitOK == PmmOK(pmm_init)
<1> DEFINE m == pmm_init
<1>1. m = [cur |-> HeapFirst * PageUnits, free |-> << >>,
           refs |-> [p \in Pages |-> 0], owned |-> 0]
  BY DEF pmm_init
<1>2. HeapFirst * PageUnits \in 0 .. HeapEnd
  BY PmmAssumption DEF HeapEnd
<1>3. PmmType(m)
  BY <1>1, <1>2 DEF PmmType
<1>4. Len(m.free) = 0
  BY <1>1
<1>5. NoDuplicateFree(m) /\ NoFreeReferenced(m) /\ FreePages(m) = {}
  BY <1>4 DEF NoDuplicateFree, NoFreeReferenced, FreePages
<1>6. Referenced(m) = {}
  BY <1>1 DEF Referenced
<1>7. HandedOutBelowCursor(m)
  BY <1>5, <1>6 DEF HandedOutBelowCursor
<1>8. m.owned = Cardinality(Referenced(m))
  BY <1>1, <1>6, FS_EmptySet
<1> QED BY <1>3, <1>5, <1>7, <1>8 DEF PmmOK

\* Dividing the address of a page by the page size gives the page back.
LEMMA PageOfAddr ==
    ASSUME NEW p \in Nat
    PROVE  (p * PageUnits) \div PageUnits = p
BY PmmAssumption

-----------------------------------------------------------------------------
\* One page from the bump region is the page the cursor reaches next.
LEMMA OneWholePage ==
    ASSUME NEW k \in Nat, k * PageUnits + PageUnits <= HeapEnd
    PROVE  k + 1 <= HeapLast /\ k \in Pages
           /\ WholePages(k * PageUnits, k * PageUnits + PageUnits) = {k}
<1>1. k * PageUnits + PageUnits <= HeapLast * PageUnits
  BY DEF HeapEnd
<1>2. k + 1 <= HeapLast
  BY <1>1, PmmAssumption
<1>3. k \in Pages
  BY <1>2, PmmAssumption DEF Pages
<1>4. \A p \in Pages : /\ p * PageUnits >= k * PageUnits => p >= k
                       /\ (p + 1) * PageUnits <= (k + 1) * PageUnits => p <= k
  BY PmmAssumption DEF Pages
<1>5. (k + 1) * PageUnits = k * PageUnits + PageUnits
  BY PmmAssumption
<1>6. ASSUME NEW p \in Pages
      PROVE  /\ k * PageUnits <= p * PageUnits
             /\ (p + 1) * PageUnits <= k * PageUnits + PageUnits
             <=> p = k
  BY <1>4, <1>5, PmmAssumption DEF Pages
<1> QED BY <1>2, <1>3, <1>6, Zenon DEF WholePages

\* The pages above the cursor that pmm_available_pages counts, when the cursor
\* rounds up to page k.
LEMMA BumpPagesIs ==
    ASSUME NEW m, NEW k \in Nat, AlignUp(m.cur, PageUnits) = k * PageUnits
    PROVE  BumpPages(m) = IF k < HeapLast THEN HeapLast - k ELSE 0
<1>1. k * PageUnits < HeapLast * PageUnits <=> k < HeapLast
  BY PmmAssumption
<1>2. HeapLast * PageUnits - k * PageUnits = (HeapLast - k) * PageUnits
  BY PmmAssumption
<1>3. CASE k < HeapLast
  <2>1. HeapLast - k \in Nat
    BY <1>3, PmmAssumption
  <2>2. ((HeapLast - k) * PageUnits) \div PageUnits = HeapLast - k
    BY <2>1, PageOfAddr
  <2> QED BY <1>1, <1>2, <1>3, <2>2 DEF BumpPages, HeapEnd
<1>4. CASE ~(k < HeapLast)
  BY <1>1, <1>4 DEF BumpPages, HeapEnd
<1> QED BY <1>3, <1>4

\* A cursor on a page boundary is its own align_up.
LEMMA AlignUpExact ==
    ASSUME NEW k \in Nat
    PROVE  AlignUp(k * PageUnits, PageUnits) = k * PageUnits
<1>1. (k * PageUnits + PageUnits - 1) \div PageUnits = k
  BY PmmAssumption
<1> QED BY <1>1 DEF AlignUp

\* pmm_alloc_page succeeds exactly when pmm_available_pages is not 0.  It then
\* returns a page that nobody references, gives it its first reference, and takes
\* one from what is available; a failure changes nothing.
LEMMA PageAllocOK ==
    ASSUME NEW m, PmmOK(m)
    PROVE  LET res == pmm_alloc_page(m)
               k == res.addr \div PageUnits
           IN /\ pmm_available_pages(m) \in Nat
              /\ res.addr = NoAddr <=> pmm_available_pages(m) = 0
              /\ res.addr = NoAddr => res.m = m
              /\ res.addr # NoAddr =>
                   /\ k \in Pages /\ m.refs[k] = 0
                   /\ PmmOK(res.m)
                   /\ res.m.refs = [m.refs EXCEPT ![k] = 1]
                   /\ pmm_available_pages(res.m) = pmm_available_pages(m) - 1
                   /\ k \in FreePages(m) \ FreePages(res.m) \/ k * PageUnits >= m.cur
<1> DEFINE res == pmm_alloc_page(m)
           k == res.addr \div PageUnits
<1>0. m.cur \in Nat /\ m.free \in Seq(Pages) /\ Len(m.free) \in Nat
      /\ m.refs \in [Pages -> Nat]
  BY HeapEndNat DEF PmmOK, PmmType
<1>1. PICK b \in Nat : AlignUp(m.cur, PageUnits) = b * PageUnits
  BY <1>0, AlignUpPage, Zenon
<1>2. BumpPages(m) = IF b < HeapLast THEN HeapLast - b ELSE 0
  BY <1>1, BumpPagesIs
<1>3. BumpPages(m) \in Nat
  BY <1>2, PmmAssumption
<1>4. pmm_available_pages(m) \in Nat
  BY <1>0, <1>3 DEF pmm_available_pages
<1>5. CASE Len(m.free) > 0
  <2> DEFINE p == m.free[Len(m.free)]
  <2>1. /\ p \in Pages
        /\ m.refs[p] = 0
        /\ res.addr = p * PageUnits
        /\ PmmOK(res.m)
        /\ res.m.refs = [m.refs EXCEPT ![p] = 1]
        /\ res.m.cur = m.cur
        /\ p \in FreePages(m) \ FreePages(res.m)
    BY <1>5, PopOK
  <2>2. p \in Nat /\ p * PageUnits \in Nat
    BY <2>1, PmmAssumption DEF Pages
  <2>3. k = p /\ res.addr # NoAddr
    BY <2>1, <2>2, PageOfAddr DEF NoAddr
  <2>4. Len(res.m.free) = Len(m.free) - 1
    BY <1>0, <1>5 DEF pmm_alloc_page
  <2>5. BumpPages(res.m) = BumpPages(m)
    BY <2>1 DEF BumpPages
  <2>6. pmm_available_pages(res.m) = pmm_available_pages(m) - 1
        /\ pmm_available_pages(m) # 0
    BY <1>0, <1>3, <1>5, <2>4, <2>5 DEF pmm_available_pages
  <2> QED BY <1>4, <2>1, <2>3, <2>6
<1>6. CASE ~(Len(m.free) > 0)
  <2>1. res = pmm_alloc(m, PageUnits, PageUnits)
    BY <1>6 DEF pmm_alloc_page
  <2>2. pmm_available_pages(m) = BumpPages(m)
    BY <1>0, <1>3, <1>6 DEF pmm_available_pages
  <2>3. CanAlloc(m, PageUnits, PageUnits) <=> b < HeapLast
    <3>1. CanAlloc(m, PageUnits, PageUnits) <=> b * PageUnits + PageUnits <= HeapLast * PageUnits
      BY <1>1 DEF CanAlloc, HeapEnd
    <3>2. b * PageUnits + PageUnits <= HeapLast * PageUnits <=> b < HeapLast
      BY PmmAssumption
    <3> QED BY <3>1, <3>2
  <2>4. CASE CanAlloc(m, PageUnits, PageUnits)
    <3>1. /\ res.addr = b * PageUnits
          /\ PmmOK(res.m)
          /\ res.m.free = m.free
          /\ b * PageUnits >= m.cur
          /\ res.m.refs = [p \in Pages |->
                IF p \in WholePages(b * PageUnits, b * PageUnits + PageUnits)
                THEN m.refs[p] + 1 ELSE m.refs[p]]
      BY <1>1, <2>1, <2>4, AllocOK, PmmAssumption
    <3>2. k = b /\ res.addr # NoAddr
      <4>1. b * PageUnits \in Nat
        BY PmmAssumption
      <4> QED BY <3>1, <4>1, PageOfAddr DEF NoAddr
    <3>3. b \in Pages /\ b + 1 <= HeapLast
          /\ WholePages(b * PageUnits, b * PageUnits + PageUnits) = {b}
      BY <1>1, <2>4, OneWholePage DEF CanAlloc
    <3>4. m.refs[b] = 0
      <4>1. (b + 1) * PageUnits > b * PageUnits /\ b * PageUnits \in Nat
            /\ (b + 1) * PageUnits \in Nat
        BY PmmAssumption
      <4>2. ~((b + 1) * PageUnits <= m.cur)
        BY <1>0, <3>1, <4>1
      <4>3. b \notin Referenced(m)
        BY <3>3, <4>2 DEF PmmOK, HandedOutBelowCursor
      <4> QED BY <1>0, <3>3, <4>3 DEF Referenced
    <3>5. res.m.refs = [m.refs EXCEPT ![b] = 1]
      <4>1. res.m.refs = [p \in Pages |-> IF p = b THEN m.refs[p] + 1 ELSE m.refs[p]]
        BY <3>1, <3>3
      <4>2. [m.refs EXCEPT ![b] = 1] =
              [p \in Pages |-> IF p = b THEN m.refs[p] + 1 ELSE m.refs[p]]
        <5>1. m.refs \in [Pages -> Nat] /\ b \in Pages /\ m.refs[b] + 1 = 1
          BY <1>0, <3>3, <3>4
        <5> QED BY <5>1, Zenon
      <4> QED BY <4>1, <4>2, Zenon
    <3>6. AlignUp(res.m.cur, PageUnits) = (b + 1) * PageUnits
      <4>1. res.m.cur = b * PageUnits + PageUnits
        BY <1>0, <1>1, <2>1, <2>4 DEF pmm_alloc, mark_range_owned, PmmOK, PmmType
      <4>2. b * PageUnits + PageUnits = (b + 1) * PageUnits
        BY PmmAssumption
      <4> QED BY <4>1, <4>2, AlignUpExact
    <3>7. BumpPages(res.m) = IF b + 1 < HeapLast THEN HeapLast - (b + 1) ELSE 0
      BY <3>6, BumpPagesIs
    <3>8. BumpPages(res.m) = BumpPages(m) - 1 /\ BumpPages(m) # 0
      BY <1>2, <3>3, <3>7, PmmAssumption
    <3>9. pmm_available_pages(res.m) = pmm_available_pages(m) - 1
          /\ pmm_available_pages(m) # 0
      <4>1. Len(res.m.free) = Len(m.free)
        BY <3>1
      <4>2. pmm_available_pages(res.m) = Len(m.free) + (BumpPages(m) - 1)
        BY <3>8, <4>1, Zenon DEF pmm_available_pages
      <4>3. pmm_available_pages(m) = Len(m.free) + BumpPages(m)
        BY DEF pmm_available_pages
      <4>4. Len(m.free) + (BumpPages(m) - 1) = (Len(m.free) + BumpPages(m)) - 1
        BY <1>0, <1>3
      <4>5. Len(m.free) + BumpPages(m) # 0
        BY <1>0, <1>3, <3>8
      <4> QED BY <4>2, <4>3, <4>4, <4>5, Zenon
    <3> QED BY <1>4, <3>1, <3>2, <3>3, <3>4, <3>5, <3>9
  <2>5. CASE ~CanAlloc(m, PageUnits, PageUnits)
    <3>1. res.addr = NoAddr /\ res.m = m
      BY <2>1, <2>5 DEF pmm_alloc
    <3>2. BumpPages(m) = 0
      BY <1>2, <2>3, <2>5
    <3> QED BY <1>4, <2>2, <3>1, <3>2
  <2> QED BY <2>4, <2>5
<1> QED BY <1>5, <1>6

-----------------------------------------------------------------------------
\* The allocator with its callers.

IInv == /\ PmmOK(pmm)
        /\ held \in [Pages -> Nat]
        /\ RefsAreHolds

LEMMA InitIInv == Init => IInv
BY InitOK DEF Init, IInv, RefsAreHolds, pmm_init

\* One step: the allocator stays sound, its counts stay the callers' counts,
\* and pages change hands only through the free list or from above the cursor.
LEMMA StepIInv ==
    ASSUME IInv, [Next]_vars
    PROVE  /\ IInv'
           /\ \A p \in Pages : p \in Referenced(pmm') \ Referenced(pmm) =>
                 \/ p \in FreePages(pmm) \ FreePages(pmm')
                 \/ p * PageUnits >= pmm.cur
<1> USE DEF IInv, RefsAreHolds
<1>0. pmm.refs \in [Pages -> Nat] /\ pmm.cur \in Nat
  BY HeapEndNat DEF PmmOK, PmmType
<1>1. CASE Alloc
  <2> PICK r \in Requests :
        /\ CanAlloc(pmm, r[1], r[2])
        /\ LET res == pmm_alloc(pmm, r[1], r[2])
           IN /\ pmm' = res.m
              /\ held' = [p \in Pages |->
                            IF p \in WholePages(res.addr, res.addr + r[1])
                            THEN held[p] + 1 ELSE held[p]]
    BY <1>1 DEF Alloc
  <2>1. r[1] \in Nat \ {0} /\ r[2] \in Nat \ {0}
    BY RequestAssumption
  <2> DEFINE base == AlignUp(pmm.cur, r[2])
  <2>2. /\ pmm_alloc(pmm, r[1], r[2]).addr = base
        /\ PmmOK(pmm')
        /\ base >= pmm.cur
        /\ pmm'.refs = [p \in Pages |->
                          IF p \in WholePages(base, base + r[1])
                          THEN pmm.refs[p] + 1 ELSE pmm.refs[p]]
    <3>1. /\ CanAlloc(pmm, r[1], r[2])
          /\ pmm' = pmm_alloc(pmm, r[1], r[2]).m
      OBVIOUS
    <3>2. PmmOK(pmm)
      OBVIOUS
    <3> HIDE DEF RefsAreHolds, IInv
    <3> QED BY <2>1, <3>1, <3>2, AllocOK
  <2>3. held' = pmm'.refs
    BY <2>2
  <2>4. held' \in [Pages -> Nat]
    BY <2>2, <2>3
  <2>5. base \in Nat
    BY <1>0, <2>1, AlignUpBound
  <2>6. ASSUME NEW p \in Pages, p \in Referenced(pmm') \ Referenced(pmm)
        PROVE  p * PageUnits >= pmm.cur
    <3>1. p \in WholePages(base, base + r[1])
      BY <2>2, <2>6 DEF Referenced
    <3>2. base <= p * PageUnits /\ p * PageUnits \in Nat
      BY <3>1, PmmAssumption DEF WholePages, Pages
    <3> HIDE DEF base
    <3> QED BY <1>0, <2>2, <2>5, <3>2
  <2> QED BY <2>2, <2>3, <2>4, <2>6
<1>2. CASE AllocPage
  <2> DEFINE res == pmm_alloc_page(pmm)
             k == res.addr \div PageUnits
  <2>0. /\ res.addr # NoAddr
        /\ pmm' = res.m
        /\ held' = [held EXCEPT ![k] = @ + 1]
    BY <1>2 DEF AllocPage
  <2>1. /\ k \in Pages /\ pmm.refs[k] = 0
        /\ PmmOK(pmm')
        /\ pmm'.refs = [pmm.refs EXCEPT ![k] = 1]
        /\ k \in FreePages(pmm) \ FreePages(pmm') \/ k * PageUnits >= pmm.cur
    BY <2>0, PageAllocOK, Zenon
  <2> HIDE DEF res, k
  <2>2. held' = pmm'.refs /\ held' \in [Pages -> Nat]
    BY <2>0, <2>1
  <2>3. \A p \in Pages : p \in Referenced(pmm') \ Referenced(pmm) => p = k
    BY <1>0, <2>1 DEF Referenced
  <2> QED BY <2>1, <2>2, <2>3
<1>3. ASSUME NEW p \in Pages, RefPage(p)
      PROVE  /\ IInv'
             /\ Referenced(pmm') \subseteq Referenced(pmm)
  <2>1. held[p] > 0 /\ pmm' = pmm_ref_page(pmm, p)
        /\ held' = [held EXCEPT ![p] = @ + 1]
    BY <1>3, RequestAssumption DEF RefPage
  <2>2. PmmOK(pmm') /\ pmm'.refs = [pmm.refs EXCEPT ![p] = pmm.refs[p] + 1]
    BY <2>1, RefOK, Zenon
  <2>3. held' = pmm'.refs /\ held' \in [Pages -> Nat]
    BY <2>1, <2>2
  <2>4. Referenced(pmm') \subseteq Referenced(pmm)
    BY <1>0, <2>1, <2>2 DEF Referenced
  <2> QED BY <2>2, <2>3, <2>4
<1>4. ASSUME NEW p \in Pages, FreePage(p)
      PROVE  /\ IInv'
             /\ Referenced(pmm') \subseteq Referenced(pmm)
  <2>1. held[p] > 0 /\ pmm' = pmm_free_page(pmm, p)
        /\ held' = [held EXCEPT ![p] = @ - 1]
    BY <1>4 DEF FreePage
  <2>2. PmmOK(pmm') /\ pmm'.refs = [pmm.refs EXCEPT ![p] = pmm.refs[p] - 1]
    BY <2>1, FreeOK, Zenon
  <2>3. held' = pmm'.refs /\ held' \in [Pages -> Nat]
    BY <2>1, <2>2
  <2>4. Referenced(pmm') \subseteq Referenced(pmm)
    BY <1>0, <2>1, <2>2 DEF Referenced
  <2> QED BY <2>2, <2>3, <2>4
<1>5. CASE UNCHANGED vars
  <2>1. pmm' = pmm /\ held' = held
    BY <1>5 DEF vars
  <2>2. PmmOK(pmm') /\ Referenced(pmm') = Referenced(pmm)
    BY <2>1
  <2> QED BY <2>1, <2>2
<1> QED BY <1>1, <1>2, <1>3, <1>4, <1>5 DEF Next

\* The allocator's counters always agree with the callers: page_refs with the
\* references they hold, owned_pages with the referenced pages, and the free
\* list with the pages nobody references.
THEOREM AllocatorSound ==
    Spec => [](TypeOK /\ RefsAreHolds /\ FreeListSound /\ BelowBump /\ OwnedExact)
<1>1. Init => IInv
  BY InitIInv
<1>2. IInv /\ [Next]_vars => IInv'
  BY StepIInv
<1>3. IInv => TypeOK /\ RefsAreHolds /\ FreeListSound /\ BelowBump /\ OwnedExact
  BY DEF IInv, PmmOK, TypeOK, FreeListSound, BelowBump, OwnedExact
<1> QED BY <1>1, <1>2, <1>3, PTL DEF Spec

\* In every reachable state the admission checks can trust pmm_available_pages:
\* pmm_alloc_page fails exactly when it says 0, and takes one page from it.
THEOREM AvailabilityExact == Spec => []AvailableExact
<1>1. Init => IInv
  BY InitIInv
<1>2. IInv /\ [Next]_vars => IInv'
  BY StepIInv
<1>3. IInv => AvailableExact
  BY PageAllocOK, Zenon DEF IInv, AvailableExact
<1> QED BY <1>1, <1>2, <1>3, PTL DEF Spec

\* No page gets an owner except from the free list, which it then leaves, or
\* from above the bump cursor.
THEOREM PagesChangeHandsOnlyWhenFree == Spec => FreshOwnership
<1>1. Init => IInv
  BY InitIInv
<1>2. IInv /\ [Next]_vars => IInv'
  BY StepIInv
<1>3. IInv /\ [Next]_vars =>
        [\A p \in Pages :
            p \in Referenced(pmm') \ Referenced(pmm) =>
               \/ p \in FreePages(pmm) \ FreePages(pmm')
               \/ p * PageUnits >= pmm.cur]_vars
  BY StepIInv
<1> QED BY <1>1, <1>2, <1>3, PTL DEF Spec, FreshOwnership
=============================================================================

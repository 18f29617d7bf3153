------------------------------ MODULE PageCache ------------------------------
(***************************************************************************)
(* kernel/pagecache.c over the pages of one file, with the tasks that map  *)
(* them MAP_SHARED and writable (kernel/task.c): demand loading, eviction  *)
(* of the least recently touched page nobody maps, dirty tracking through  *)
(* write faults, and write-back by fsync, by the timer and under pressure, *)
(* any of whose stores may fail.  Each call is one step.  The file does    *)
(* not change size; memory for a new page is there (Pmm).                  *)
(***************************************************************************)
EXTENDS Integers, Sequences, FiniteSets, Functions

CONSTANTS
    FPage,         \* pages of the file
    Task,          \* tasks that map it
    Value,         \* what a page may hold
    Zero,          \* what the file holds at first
    Slots,         \* MAX_FILE_CACHE_PAGES
    HighWater,     \* PAGECACHE_DIRTY_HIGH_WATER
    Critical,      \* PAGECACHE_DIRTY_CRITICAL
    TickBudget,    \* PAGECACHE_WRITEBACK_BUDGET
    MaxBudget      \* PAGECACHE_WRITEBACK_MAX_BUDGET

ASSUME CacheAssumption ==
    /\ Zero \in Value
    /\ IsFiniteSet(FPage)
    /\ {Slots, HighWater, Critical, TickBudget, MaxBudget} \subseteq Nat \ {0}
    /\ MaxBudget < HighWater

VARIABLES
    cache,     \* the page-cache entry of each page
    lru,       \* the cached pages, least recently touched first
    disk,      \* what the file system holds
    pte,       \* how each task maps each page
    live,      \* the tasks that exist
    blocked,   \* pagecache_writeback_blocked
    last       \* the last call and how it ended

vars == <<cache, lru, disk, pte, live, blocked, last>>

Absent == [used |-> FALSE, val |-> Zero, dirty |-> FALSE]

Ops == [op : {"boot", "read", "write", "fault", "unmap", "fsync", "tick", "wait",
              "fork", "exit", "invalidate"},
        page : FPage \cup {0}, ok : BOOLEAN]

TypeOK ==
    /\ cache \in [FPage -> [used : BOOLEAN, val : Value, dirty : BOOLEAN]]
    /\ lru \in Seq(FPage) /\ IsInjective(lru) /\ Len(lru) <= Slots
    /\ Range(lru) = {p \in FPage : cache[p].used}
    /\ disk \in [FPage -> Value]
    /\ pte \in [Task -> [FPage -> {"none", "ro", "rw"}]]
    /\ live \subseteq Task
    /\ blocked \in BOOLEAN
    /\ last \in Ops

-----------------------------------------------------------------------------
\* The functions of pagecache.c on C = [cache, lru, disk, pte, blocked].

Now == [cache |-> cache, lru |-> lru, disk |-> disk, pte |-> pte, blocked |-> blocked]

Becomes(C, op, p, ok) ==
    /\ cache' = C.cache /\ lru' = C.lru /\ disk' = C.disk /\ pte' = C.pte
    /\ blocked' = C.blocked
    /\ last' = [op |-> op, page |-> p, ok |-> ok]

\* The pages of s that are in S, in the order of s.
Keep(s, S) ==
    LET kept[n \in 0 .. Len(s)] ==
          IF n = 0 THEN <<>>
          ELSE IF s[n] \in S THEN Append(kept[n - 1], s[n]) ELSE kept[n - 1]
    IN kept[Len(s)]

\* The pages of a sequence become the ones touched last, in its order.
Touched(l, done) == Keep(l, FPage \ Range(done)) \o done

Touch(C, p) == [C EXCEPT !.lru = Touched(@, <<p>>)]

\* The reference count of the frame is above the cache's own.
Pinned(C, p) == \E t \in Task : C.pte[t][p] # "none"

\* The dirty pages in the order write-back takes them.
Dirty(C) == Keep(C.lru, {p \in FPage : C.cache[p].dirty})

\* Mutant: mappings stay writable after write-back.
WriteBack_open(C, done) ==
    [C EXCEPT !.disk = [p \in FPage |-> IF p \in Range(done) THEN C.cache[p].val ELSE @[p]],
              !.cache = [p \in FPage |-> IF p \in Range(done) THEN [@[p] EXCEPT !.dirty = FALSE]
                                         ELSE @[p]],
              !.lru = Touched(@, done)]

\* pagecache_entry_writeback on the pages of a sequence: store the page, write-protect
\* every mapping of it, mark it clean, touch it.
WriteBack(C, done) ==
    [C EXCEPT !.disk = [p \in FPage |-> IF p \in Range(done) THEN C.cache[p].val ELSE @[p]],
              !.cache = [p \in FPage |-> IF p \in Range(done) THEN [@[p] EXCEPT !.dirty = FALSE]
                                         ELSE @[p]],
              !.pte = [t \in Task |-> [p \in FPage |->
                         IF p \in Range(done) /\ @[t][p] = "rw" THEN "ro" ELSE @[t][p]]],
              !.lru = Touched(@, done)]

\* Mutant: a failed store ends the flush but is not reported.
FlushOk_always(C, budget, n) == TRUE

\* Whether a flush that stored n pages did all it was asked to.
FlushOk(C, budget, n) == n = Len(Dirty(C)) \/ n = budget

\* pagecache_flush_match when n stores succeed: oldest first, up to the budget,
\* and a store that fails ends it and blocks later background write-back.
pagecache_flush_match(C, budget, n) ==
    LET dirty == Dirty(C)
    IN IF dirty = <<>> THEN C
       ELSE [WriteBack(C, SubSeq(dirty, 1, n)) EXCEPT !.blocked = ~FlushOk(C, budget, n)]

\* How many stores of a flush may succeed.
Stores(C, budget) == LET d == Len(Dirty(C)) IN 0 .. (IF d < budget THEN d ELSE budget)

\* What pagecache_maybe_writeback_pressure may write; 0 is nothing.
PressureBudget(C) ==
    LET d == Len(Dirty(C))
        b == MaxBudget + (d - HighWater)
    IN IF C.blocked \/ d < HighWater THEN 0
       ELSE IF d >= Critical \/ b > Slots THEN Slots ELSE b

pagecache_maybe_writeback_pressure(C, n) ==
    LET budget == PressureBudget(C)
    IN IF budget = 0 THEN C ELSE pagecache_flush_match(C, budget, n)

\* Mutant: a dirty victim is dropped unwritten.
Evict_dirty(C, q) ==
    [C EXCEPT !.cache[q] = Absent, !.lru = Keep(@, FPage \ {q})]

\* pagecache_slot takes the place of q, which is stored first if it is dirty.
Evict(C, q) ==
    LET S == IF C.cache[q].dirty
             THEN [C EXCEPT !.disk[q] = C.cache[q].val, !.blocked = FALSE] ELSE C
    IN [S EXCEPT !.cache[q] = Absent, !.lru = Keep(@, FPage \ {q})]

\* What pagecache_slot may evict, in the order it would.
Victims(C) == Keep(C.lru, {q \in FPage : ~Pinned(C, q)})

\* pagecache_get_or_create: is the page there after the call?  "io" is whether the
\* device obeys.
Gets(C, p, io) ==
    \/ C.cache[p].used
    \/ /\ io
       /\ Len(C.lru) < Slots \/ Victims(C) # <<>>

\* A victim that cannot be stored stays, and blocks background write-back.
StoreFails(C, p, io) ==
    /\ ~io /\ ~C.cache[p].used
    /\ Len(C.lru) = Slots /\ Victims(C) # <<>>
    /\ C.cache[Head(Victims(C))].dirty

pagecache_get_or_create(C, p, io) ==
    IF C.cache[p].used THEN Touch(C, p)
    ELSE IF ~Gets(C, p, io) THEN C
    ELSE LET S == IF Len(C.lru) < Slots THEN C ELSE Evict(C, Head(Victims(C)))
         IN [S EXCEPT !.cache[p] = [used |-> TRUE, val |-> C.disk[p], dirty |-> FALSE],
                      !.lru = Append(@, p)]

\* The call fails.  Its device error, if any, was a load or the store of a victim.
Fails(op, p, io) ==
    /\ ~Gets(Now, p, io)
    /\ \E b \in BOOLEAN :
          /\ b = blocked \/ (b /\ StoreFails(Now, p, io))
          /\ Becomes([Now EXCEPT !.blocked = b], op, p, FALSE)
    /\ UNCHANGED live

-----------------------------------------------------------------------------
Init ==
    /\ cache = [p \in FPage |-> Absent]
    /\ lru = <<>>
    /\ disk = [p \in FPage |-> Zero]
    /\ pte = [t \in Task |-> [p \in FPage |-> "none"]]
    /\ \E t \in Task : live = {t}
    /\ blocked = FALSE
    /\ last = [op |-> "boot", page |-> 0, ok |-> TRUE]

pagecache_read(p) ==
    \E io \in BOOLEAN :
       \/ Fails("read", p, io)
       \/ /\ Gets(Now, p, io)
          /\ Becomes(pagecache_get_or_create(Now, p, io), "read", p, TRUE)
          /\ UNCHANGED live

\* A whole page is written; then pressure may force write-back.
pagecache_write(p, v) ==
    \E io \in BOOLEAN :
       \/ Fails("write", p, io)
       \/ /\ Gets(Now, p, io)
          /\ LET C == pagecache_get_or_create(Now, p, io)
                 D == Touch([C EXCEPT !.cache[p] = [@ EXCEPT !.val = v, !.dirty = TRUE]], p)
             IN \E n \in Stores(D, PressureBudget(D)) :
                  Becomes(pagecache_maybe_writeback_pressure(D, n), "write", p, TRUE)
          /\ UNCHANGED live

\* The translation fault: the cached page is mapped read-only.
SharedFault(t, p) ==
    /\ t \in live /\ pte[t][p] = "none"
    /\ \E io \in BOOLEAN :
          \/ Fails("fault", p, io)
          \/ /\ Gets(Now, p, io)
             /\ LET C == pagecache_get_or_create(Now, p, io)
                IN Becomes([C EXCEPT !.pte[t][p] = "ro"], "fault", p, TRUE)
             /\ UNCHANGED live

\* The write fault: mark the page dirty, which may start write-back, then make
\* the mapping writable.
WriteFault(t, p) ==
    /\ t \in live /\ pte[t][p] = "ro"
    /\ LET D == Touch([Now EXCEPT !.cache[p].dirty = TRUE], p)
       IN \E n \in Stores(D, PressureBudget(D)) :
            Becomes([pagecache_maybe_writeback_pressure(D, n) EXCEPT !.pte[t][p] = "rw"],
                    "fault", p, TRUE)
    /\ UNCHANGED live

Store(t, p, v) ==
    /\ pte[t][p] = "rw"
    /\ Becomes([Now EXCEPT !.cache[p].val = v], "write", p, TRUE)
    /\ UNCHANGED live

\* The orders in which the loop over the ranges of a task may come to the pages of
\* S: its ranges map the pages of the file at any addresses.
Orders(S) == {s \in [1 .. Cardinality(S) -> S] : IsInjective(s)}

Writable(t, P) == {p \in P : pte[t][p] = "rw"}

\* task_vma_writeback_page and the unmapping of a set of pages: a writable page is
\* marked dirty once more, in the order s.
Unmapped(t, P, s) ==
    [Now EXCEPT !.cache = [p \in FPage |-> IF p \in Writable(t, P) THEN [@[p] EXCEPT !.dirty = TRUE]
                                           ELSE @[p]],
                !.lru = Touched(@, s),
                !.pte[t] = [p \in FPage |-> IF p \in P THEN "none" ELSE @[p]]]

Munmap(t, p) ==
    /\ t \in live /\ pte[t][p] # "none"
    /\ \E s \in Orders(Writable(t, {p})) : Becomes(Unmapped(t, {p}, s), "unmap", p, TRUE)
    /\ UNCHANGED live

\* task_release.
Exit(t) ==
    /\ t \in live
    /\ \E s \in Orders(Writable(t, FPage)) : Becomes(Unmapped(t, FPage, s), "exit", 0, TRUE)
    /\ live' = live \ {t}

\* task_fork refuses a page with writable intent that is neither writable nor
\* copy-on-write.
Fork(t, c) ==
    /\ t \in live /\ c \notin live
    /\ IF \E p \in FPage : pte[t][p] = "ro"
       THEN Becomes(Now, "fork", 0, FALSE) /\ UNCHANGED live
       ELSE Becomes([Now EXCEPT !.pte[c] = pte[t]], "fork", 0, TRUE) /\ live' = live \cup {c}

\* pagecache_flush_inode: fsync, close and sync.
Fsync ==
    /\ \E n \in Stores(Now, Slots) :
          Becomes(pagecache_flush_match(Now, Slots, n), "fsync", 0, FlushOk(Now, Slots, n))
    /\ UNCHANGED live

\* pagecache_tick, when its period is over.
pagecache_tick ==
    /\ ~blocked /\ Dirty(Now) # <<>>
    /\ LET b == TickBudget + Len(Dirty(Now)) \div 8
           budget == IF b > MaxBudget THEN MaxBudget ELSE b
       IN \E n \in Stores(Now, budget) :
            Becomes(pagecache_flush_match(Now, budget, n), "tick", 0, TRUE)
    /\ UNCHANGED live

\* Ticks pass until the back-off after a failure is over.
BackoffEnds ==
    /\ blocked
    /\ Becomes([Now EXCEPT !.blocked = FALSE], "wait", 0, TRUE)
    /\ UNCHANGED live

\* msync with MS_INVALIDATE: after a flush without error the pages nobody maps are
\* dropped; a page that is mapped makes the call fail.
MsyncInvalidate ==
    /\ \E n \in Stores(Now, Slots) :
         LET C == pagecache_flush_match(Now, Slots, n)
             kept == {p \in FPage : C.cache[p].used /\ Pinned(C, p)}
         IN IF ~FlushOk(Now, Slots, n) THEN Becomes(C, "invalidate", 0, FALSE)
            ELSE Becomes([C EXCEPT !.cache = [p \in FPage |-> IF p \in kept THEN @[p] ELSE Absent],
                                   !.lru = Keep(@, kept)],
                         "invalidate", 0, kept = {})
    /\ UNCHANGED live

Next ==
    \/ \E p \in FPage :
          \/ pagecache_read(p)
          \/ \E v \in Value : pagecache_write(p, v)
          \/ \E t \in Task : \/ SharedFault(t, p) \/ WriteFault(t, p) \/ Munmap(t, p)
                             \/ \E v \in Value : Store(t, p, v)
    \/ \E t \in Task : Exit(t) \/ \E c \in Task : Fork(t, c)
    \/ Fsync \/ pagecache_tick \/ BackoffEnds \/ MsyncInvalidate

Spec == Init /\ [][Next]_vars

-----------------------------------------------------------------------------
\* What a read of the file would return.
Content(p) == IF cache[p].used THEN cache[p].val ELSE disk[p]

\* The contents of the file change only by a write or a store, and only on the page
\* it names: loading, evicting, writing back, unmapping and exiting are invisible.
OnlyWritesChange ==
    [][\A p \in FPage : Content(p)' # Content(p) =>
          last'.op = "write" /\ last'.page = p /\ last'.ok]_vars

\* A page that a task maps stays cached, so that all tasks and all reads see one
\* frame (pagecache_slot and the invalidations skip pages with references), and
\* the cache holds each page once and no more pages than it has slots.
MappedIsCached ==
    /\ TypeOK
    /\ \A t \in Task, p \in FPage : pte[t][p] # "none" => cache[p].used

\* The pages that are clean although a task may store to them without a fault.  The
\* write fault marks its page dirty, which at the critical mark writes back every
\* dirty page, this one included, and then makes the mapping writable all the same.
Untracked == {p \in FPage : ~cache[p].dirty /\ \E t \in Task : pte[t][p] = "rw"}

\* When fsync returns 0 the file system has everything that was written before, of
\* every page but the untracked ones, whose stores it does not see; and at any time a
\* clean page that is not untracked is on disk, so that nothing stored can be left out
\* by the next write-back.
SyncIsDurable ==
    \A p \in FPage \ Untracked :
       /\ cache[p].used /\ ~cache[p].dirty => cache[p].val = disk[p]
       /\ last.op = "fsync" /\ last.ok => disk[p] = Content(p)

\* Stores escape dirty tracking in one way only: a page becomes untracked by a write
\* fault on it, when background write-back is not held back and the dirty pages have
\* reached PAGECACHE_DIRTY_CRITICAL.  Every other write-back takes the writable
\* mappings of its pages away.  And a page that is mapped at all stays cached.
UntrackedOnlyAtCritical ==
    /\ []MappedIsCached
    /\ [][\A p \in Untracked' \ Untracked :
            /\ last'.op = "fault" /\ last'.page = p /\ ~blocked
            /\ Cardinality({q \in FPage : cache[q].dirty} \cup {p}) >= Critical]_vars

\* "Successful writeback now clears the page-cache dirty bit and write-protects
\* matching shared mappings again so later writes must fault and re-dirty
\* explicitly" (progress.md:3372): a mapping is writable only while its page is dirty.
WritableIsDirty == Untracked = {}

\* "shared mappings are inherited without forcing COW remap" (progress.md:833): fork
\* of a task with shared file mappings succeeds.
ForkInheritsShared == last.op = "fork" => last.ok
=============================================================================

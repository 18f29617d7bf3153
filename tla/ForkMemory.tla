----------------------------- MODULE ForkMemory ------------------------------
(***************************************************************************)
(* The memory a process costs: how fork, exec, page faults and reaping in  *)
(* kernel/task.c and kernel/syscall.c draw on and return to the allocator  *)
(* of PmmOps.  A task owns a kernel stack, its page-table pages and        *)
(* references to user frames; frames are shared by fork and unshared by a  *)
(* copy-on-write fault.  Each action is one trap, run with interrupts      *)
(* masked.                                                                 *)
(***************************************************************************)
EXTENDS PmmOps, SequencesExt

CONSTANTS
    Slots,          \* the task table's indices; Slot0 is init
    Slot0,
    KStackPages,    \* TASK_KSTACK_SIZE / PAGE_SIZE
    PtPages,        \* page-table pages of one task: l1, l2_low, l3_user_a, _b
    Reserve,        \* PMM_OOM_RESERVE_PAGES
    Headroom,       \* FORK_MIN_HEADROOM_PAGES
    MaxCowReserve,  \* FORK_MAX_COW_RESERVE_PAGES
    MaxUserPages,   \* MAX_USER_PAGES
    Programs,       \* <<image pages, interpreter pages, pages to map>>; an
                    \* image of 0 pages is already in memory (inode->data)
    FileUnits,      \* size of one file buffer, not a multiple of a page
    MaxFilePages    \* bound on what files take from the bump region

VARIABLES
    pmm,        \* the allocator
    task,       \* [Slots -> NoTask or the pages a task owns]
    files,      \* whole pages fs.c took with pmm_alloc and never returns
    last        \* how the last operation ended

vars == <<pmm, task, files, last>>

NoTask == [used |-> FALSE, kstack |-> {}, pt |-> {}, user |-> {}]

FreeAll(m, S) == FoldLeft(pmm_free_page, m, SetToSortSeq(S, <))

RefAll(m, S) == FoldLeft(pmm_ref_page, m, SetToSortSeq(S, <))

\* A loop of pmm_alloc_page calls that gives up at the first failure or, when
\* guarded, when no page is left above the reserve.
AllocLoop(m, n, guarded) ==
    LET step(acc, i) ==
          LET res == pmm_alloc_page(acc.m)
          IN IF ~acc.ok \/ res.addr = NoAddr
                \/ (guarded /\ pmm_available_pages(acc.m) <= Reserve)
             THEN [acc EXCEPT !.ok = FALSE]
             ELSE [m |-> res.m, ok |-> TRUE,
                   got |-> acc.got \cup {res.addr \div PageUnits}]
    IN FoldLeft(step, [m |-> m, ok |-> TRUE, got |-> {}], [i \in 1 .. n |-> i])

\* task_pt_setup: all the pages are asked for before a failure is looked for.
task_pt_setup(m) ==
    IF pmm_available_pages(m) <= PtPages + Reserve
    THEN [m |-> m, ok |-> FALSE, got |-> {}]
    ELSE AllocLoop(m, PtPages, FALSE)

\* Mutant: teardown forgets the kernel stack.
task_release_nostack(m, t) == FreeAll(FreeAll(m, t.user), t.pt)

\* task_release: user frames, page tables, then the kernel stack's pages one by
\* one, which puts them on the single-page free list.
task_release(m, t) == FreeAll(FreeAll(FreeAll(m, t.user), t.pt), t.kstack)

\* intent is the number of the parent's pages with writable_intent.
task_fork_budget_ok(m, intent) ==
    LET avail == pmm_available_pages(m)
        half  == intent \div 2
        cow   == IF half > MaxCowReserve THEN MaxCowReserve ELSE half
    IN /\ avail > Reserve + Headroom
       /\ avail > KStackPages + PtPages + cow + Reserve + Headroom

FreeSlots == {s \in Slots : ~task[s].used}

CanStack(m) == /\ pmm_available_pages(m) > KStackPages + Reserve
               /\ CanAlloc(m, KStackPages * PageUnits, PageUnits)

-----------------------------------------------------------------------------
\* init after task_create_user: its stack, its tables and one user page.
Init ==
    LET st == pmm_alloc(pmm_init, KStackPages * PageUnits, PageUnits)
        pt == AllocLoop(st.m, PtPages, FALSE)
        up == AllocLoop(pt.m, 1, TRUE)
    IN /\ pmm = up.m
       /\ task = [s \in Slots |->
                    IF s = Slot0
                    THEN [used |-> TRUE,
                          kstack |-> WholePages(st.addr, st.addr + KStackPages * PageUnits),
                          pt |-> pt.got, user |-> up.got]
                    ELSE NoTask]
       /\ files = {}
       /\ last = "boot"

\* task_fork: admission, task_alloc (slot and stack), page tables, then one
\* reference per user frame.
Fork(s) ==
    /\ task[s].used
    /\ UNCHANGED files
    /\ \E intent \in 0 .. Cardinality(task[s].user) :
         IF ~task_fork_budget_ok(pmm, intent) \/ FreeSlots = {}
         THEN last' = "fork_refused" /\ UNCHANGED <<pmm, task>>
         ELSE IF ~CanStack(pmm)
         THEN last' = "fork_nostack" /\ UNCHANGED <<pmm, task>>
         ELSE LET st == pmm_alloc(pmm, KStackPages * PageUnits, PageUnits)
                  ks == WholePages(st.addr, st.addr + KStackPages * PageUnits)
                  pt == task_pt_setup(st.m)
                  child == [used |-> TRUE, kstack |-> ks, pt |-> pt.got, user |-> {}]
                  c == CHOOSE c \in FreeSlots : \A d \in FreeSlots : c <= d
              IN IF pt.ok
                 THEN /\ last' = "fork_ok"
                      /\ pmm' = RefAll(pt.m, task[s].user)
                      /\ task' = [task EXCEPT ![c] = [child EXCEPT !.user = task[s].user]]
                 ELSE /\ last' = "fork_nopt"
                      /\ pmm' = task_release(pt.m, child)
                      /\ UNCHANGED task

\* task_reap_slot of an exited task; its zombie keeps everything until then.
Reap(s) ==
    /\ task[s].used /\ s # Slot0
    /\ pmm' = task_release(pmm, task[s])
    /\ task' = [task EXCEPT ![s] = NoTask]
    /\ last' = "reap"
    /\ UNCHANGED files

\* task_map_user_anon_fault_page.
AnonFault(s) ==
    /\ task[s].used /\ Cardinality(task[s].user) < MaxUserPages
    /\ pmm_available_pages(pmm) > Reserve
    /\ LET res == pmm_alloc_page(pmm)
       IN /\ pmm' = res.m
          /\ task' = [task EXCEPT ![s].user = @ \cup {res.addr \div PageUnits}]
    /\ last' = "fault"
    /\ UNCHANGED files

\* The write fault on a frame that others still reference: copy, then drop the
\* old frame (task_handle_page_fault, refs > 1).
CowFault(s) ==
    /\ task[s].used
    /\ pmm_available_pages(pmm) > Reserve
    /\ \E p \in task[s].user :
         /\ pmm_page_refcount(pmm, p) > 1
         /\ LET res == pmm_alloc_page(pmm)
            IN /\ pmm' = pmm_free_page(res.m, p)
               /\ task' = [task EXCEPT ![s].user =
                             (@ \ {p}) \cup {res.addr \div PageUnits}]
    /\ last' = "cow"
    /\ UNCHANGED files

Unmap(s) ==
    /\ task[s].used
    /\ \E p \in task[s].user :
         /\ pmm' = pmm_free_page(pmm, p)
         /\ task' = [task EXCEPT ![s].user = @ \ {p}]
    /\ last' = "unmap"
    /\ UNCHANGED files

\* Mutant: exec is admitted on the pages it needs, without the reserve.
ExecAdmits_noreserve(m, n) == n <= MaxUserPages /\ pmm_available_pages(m) >= n

ExecAdmits(m, n) ==
    /\ n <= MaxUserPages
    /\ pmm_available_pages(m) > Reserve + n

\* load_exec_image: the image file is read into pages of the bump region.
load_exec_image(m, n) ==
    IF n = 0 THEN [ok |-> TRUE, m |-> m, pages |-> {}]
    ELSE LET res == pmm_alloc(m, n * PageUnits, PageUnits)
         IN IF res.addr = NoAddr THEN [ok |-> FALSE, m |-> m, pages |-> {}]
            ELSE [ok |-> TRUE, m |-> res.m,
                  pages |-> WholePages(res.addr, res.addr + n * PageUnits)]

\* sys_exec_impl: load the image (and the interpreter's), admit, unmap the old
\* program, map the new one page by page, free the images.
Exec(s) ==
    /\ task[s].used
    /\ UNCHANGED files
    /\ \E prog \in Programs :
         LET img == load_exec_image(pmm, prog[1])
             itp == load_exec_image(img.m, prog[2])
             images == img.pages \cup itp.pages
             bare == FreeAll(itp.m, task[s].user)
             new == AllocLoop(bare, prog[3], TRUE)
         IN \/ /\ ~(img.ok /\ itp.ok)
               /\ last' = "exec_noimage"
               /\ pmm' = FreeAll(itp.m, images)
               /\ UNCHANGED task
            \/ /\ img.ok /\ itp.ok /\ ~ExecAdmits(itp.m, prog[3])
               /\ last' = "exec_refused"
               /\ pmm' = FreeAll(itp.m, images)
               /\ UNCHANGED task
            \/ /\ img.ok /\ itp.ok /\ ExecAdmits(itp.m, prog[3])
               /\ last' = IF new.ok THEN "exec_ok" ELSE "exec_torn"
               /\ pmm' = FreeAll(new.m, images)
               /\ task' = [task EXCEPT ![s].user = new.got]

\* fs.c grows a file's memory with pmm_alloc and never gives the old one back.
FileGrow ==
    /\ Cardinality(files) < MaxFilePages
    /\ CanAlloc(pmm, FileUnits, 1)
    /\ LET res == pmm_alloc(pmm, FileUnits, 1)
       IN /\ pmm' = res.m
          /\ files' = files \cup WholePages(res.addr, res.addr + FileUnits)
    /\ last' = "file"
    /\ UNCHANGED task

Next == \/ \E s \in Slots : \/ Fork(s) \/ Reap(s) \/ AnonFault(s)
                            \/ CowFault(s) \/ Unmap(s) \/ Exec(s)
        \/ FileGrow

Spec == Init /\ [][Next]_vars

-----------------------------------------------------------------------------
TypeOK ==
    /\ PmmType(pmm)
    /\ task \in [Slots -> [used : BOOLEAN, kstack : SUBSET Pages,
                           pt : SUBSET Pages, user : SUBSET Pages]]
    /\ files \subseteq Pages

Owners(p) == {s \in Slots : p \in task[s].kstack \cup task[s].pt \cup task[s].user}

\* Every page's count is the number of tasks that own it (or 1 for file data):
\* no failed fork or exec, no reap and no copy-on-write leaves a page counted
\* that nobody owns, or owned and not counted.  Kernel stacks and page tables
\* have one owner, and are never user frames as well.
RefsMatchOwners ==
    /\ TypeOK
    /\ \A p \in Pages : pmm.refs[p] = Cardinality(Owners(p))
                                       + IF p \in files THEN 1 ELSE 0
    /\ \A s \in Slots : \A p \in task[s].kstack \cup task[s].pt : pmm.refs[p] = 1

\* What the page count admits does not run out of pages half-way: once
\* task_fork_budget_ok and the stack are had, page-table setup succeeds, and once
\* exec has unmapped the old program, the loader gets every page it maps.
AdmittedCompletes == last \notin {"fork_nopt", "exec_torn"}
=============================================================================

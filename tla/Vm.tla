--------------------------------- MODULE Vm ----------------------------------
(***************************************************************************)
(* Private user memory in kernel/task.c and kernel/mmu.c: page tables with *)
(* the software copy-on-write bit, the page list of each task, frames with *)
(* reference counts, address-space identifiers that are handed out again   *)
(* after a rollover, and the TLB, which keeps what the tables said until   *)
(* the kernel flushes it.  Every trap is one step: one processor, with     *)
(* interrupts masked in the kernel.  Execute permission, file mappings and *)
(* the cost of page tables and stacks (ForkMemory) are left out.           *)
(***************************************************************************)
EXTENDS Integers, FiniteSets

CONSTANTS
    Task,            \* the task table
    Boot,            \* the slot of the first task
    Va,              \* user pages
    Frame,           \* physical pages that user memory may take
    Value,           \* what a page may hold
    Zero,
    TASK_ASID_MAX,   \* identifiers are 1 .. TASK_ASID_MAX
    Reserve,         \* PMM_OOM_RESERVE_PAGES
    Prots,           \* the protections mmap and mprotect are called with
    Programs,        \* the sets of pages that exec loads
    Unmapped         \* what the abstract memory says of a page not mapped

ASSUME VmAssumption ==
    /\ IsFiniteSet(Task) /\ Boot \in Task
    /\ IsFiniteSet(Va)
    /\ Zero \in Value /\ Unmapped \notin Value \cup Frame
    /\ TASK_ASID_MAX \in Nat /\ TASK_ASID_MAX >= 2
    /\ Reserve \in Nat
    /\ Prots \subseteq {"r", "rw"} /\ Programs \subseteq SUBSET Va

VARIABLES
    task,     \* task_t: state, asid, page table, page list, areas
    frame,    \* reference count and contents of each frame
    cur,      \* current_task_ptr
    next,     \* next_asid
    tlb       \* translations the processor holds

vars == <<task, frame, cur, next, tlb>>

NoPte == [f |-> Unmapped, w |-> FALSE, cow |-> FALSE]

Pte == [f : Frame, w : BOOLEAN, cow : BOOLEAN] \cup {NoPte}

\* user_page_t: the frame and writable_intent.
NoPage == [f |-> Unmapped, intent |-> FALSE]

Page == [f : Frame, intent : BOOLEAN] \cup {NoPage}

Asid == 0 .. TASK_ASID_MAX

Translation == [asid : Asid, va : Va, f : Frame, w : BOOLEAN]

Unused == [live |-> FALSE, asid |-> 0, fresh |-> FALSE, pt |-> [va \in Va |-> NoPte],
           pages |-> [va \in Va |-> NoPage], area |-> [va \in Va |-> "none"]]

\* "fresh" is asid_epoch = t->asid_epoch: the epoch is only ever compared.
TypeOK ==
    /\ task \in [Task -> [live : BOOLEAN, asid : Asid, fresh : BOOLEAN,
                          pt : [Va -> Pte], pages : [Va -> Page],
                          area : [Va -> {"none", "r", "rw"}]]]
    /\ frame \in [Frame -> [refs : Nat, val : Value]]
    /\ cur \in Task
    /\ next \in 1 .. TASK_ASID_MAX + 1
    /\ tlb \subseteq Translation

-----------------------------------------------------------------------------
\* mmu.c.

mmu_tlb_flush_va(T, va, a) == {e \in T : ~(e.va = va /\ e.asid = a)}

mmu_tlb_flush_asid(T, a) == {e \in T : e.asid # a}

\* The translations an access to va may use: what the TLB holds under the
\* current identifier, or the page table.
Translations(va) ==
    {e \in tlb : e.asid = task[cur].asid /\ e.va = va} \cup
    {[asid |-> task[cur].asid, va |-> va, f |-> p.f, w |-> p.w] :
       p \in {task[cur].pt[va]} \ {NoPte}}

-----------------------------------------------------------------------------
\* Identifiers, on K = [task, next, tlb]; c is the current task.

Tagged(r, a, fresh) == [r EXCEPT !.asid = a, !.fresh = fresh]

\* The current task gets identifier 1, the others are left behind in the old epoch.
NewEpoch(T, c) == [t \in Task |-> Tagged(T[t], IF t = c THEN 1 ELSE T[t].asid, t = c)]

\* Mutant: the flush is left out.
task_asid_rollover_noflush(K, c) ==
    [task |-> NewEpoch(K.task, c), next |-> 2, tlb |-> K.tlb]

task_asid_rollover(K, c) == [task |-> NewEpoch(K.task, c), next |-> 2, tlb |-> {}]

\* task_alloc_asid up to the point where next_asid is the one to hand out.
task_alloc_asid(K, c) ==
    IF K.next > TASK_ASID_MAX THEN task_asid_rollover(K, c) ELSE K

Tag(K, t) == [task |-> [K.task EXCEPT ![t] = Tagged(K.task[t], K.next, TRUE)],
              next |-> K.next + 1, tlb |-> K.tlb]

\* task_ensure_asid, called with t already the current task.
task_ensure_asid(K, t) ==
    IF K.task[t].fresh THEN K ELSE Tag(task_alloc_asid(K, t), t)

Now == [task |-> task, next |-> next, tlb |-> tlb]

Becomes(K) == task' = K.task /\ next' = K.next /\ tlb' = K.tlb

-----------------------------------------------------------------------------
\* Frames.

FreeFrames == {f \in Frame : frame[f].refs = 0}

\* pmm_alloc_page, zeroed, above the reserve.
CanAlloc == Cardinality(FreeFrames) > Reserve

\* The references a task's page list holds on f.
Holds(t, f) == Cardinality({va \in Va : task[t].pages[va].f = f})

\* pmm_free_page, n times.  What a free frame holds no longer matters:
\* pmm_alloc_page clears it.
Dropped(f, n) == [refs |-> frame[f].refs - n,
                  val |-> IF frame[f].refs = n THEN Zero ELSE frame[f].val]

\* The frames after task t's page list let go of every page.
Released(t) == [f \in Frame |-> Dropped(f, Holds(t, f))]

-----------------------------------------------------------------------------
Init ==
    /\ task = [t \in Task |-> IF t = Boot THEN [Unused EXCEPT !.live = TRUE, !.asid = 1,
                                                              !.fresh = TRUE] ELSE Unused]
    /\ frame = [f \in Frame |-> [refs |-> 0, val |-> Zero]]
    /\ cur = Boot
    /\ next = 2
    /\ tlb = {}

\* The processor caches a valid descriptor of the running task.
TlbFill(va) ==
    /\ task[cur].pt[va] # NoPte
    /\ LET p == task[cur].pt[va]
       IN tlb' = tlb \cup {[asid |-> task[cur].asid, va |-> va, f |-> p.f, w |-> p.w]}
    /\ UNCHANGED <<task, frame, cur, next>>

Store(va, v) ==
    /\ \E e \in Translations(va) : e.w /\ frame' = [frame EXCEPT ![e.f].val = v]
    /\ UNCHANGED <<task, cur, next, tlb>>

Mmap(va, prot) ==
    /\ task[cur].area[va] = "none"
    /\ task' = [task EXCEPT ![cur].area[va] = prot]
    /\ UNCHANGED <<frame, cur, next, tlb>>

\* The translation fault in an anonymous area, the heap or the stack.
AnonFault(va) ==
    /\ task[cur].area[va] # "none"
    /\ task[cur].pages[va] = NoPage /\ task[cur].pt[va] = NoPte
    /\ CanAlloc
    /\ LET w == task[cur].area[va] = "rw"
       IN \E f \in FreeFrames :
            /\ frame' = [frame EXCEPT ![f] = [refs |-> 1, val |-> Zero]]
            /\ task' = [task EXCEPT ![cur].pt[va] = [f |-> f, w |-> w, cow |-> FALSE],
                                    ![cur].pages[va] = [f |-> f, intent |-> w]]
    /\ tlb' = mmu_tlb_flush_va(tlb, va, task[cur].asid)
    /\ UNCHANGED <<cur, next>>

\* task_page_validate_hw.
task_page_validate_hw(t, va) ==
    LET p == task[t].pt[va]
        u == task[t].pages[va]
    IN /\ p # NoPte /\ p.f = u.f
       /\ ~u.intent => ~p.w /\ ~p.cow
       /\ ~(p.cow /\ p.w)

\* Page va of the running task becomes frame f, writable; K is the task table.
Remap(K, va, f) ==
    /\ task' = [K EXCEPT ![cur].pt[va] = [f |-> f, w |-> TRUE, cow |-> FALSE],
                         ![cur].pages[va] = [f |-> f, intent |-> TRUE]]
    /\ tlb' = mmu_tlb_flush_va(tlb, va, task[cur].asid)

\* Mutant: the reference to the frame that was copied is kept.
Unshare_leak(K, va) ==
    LET f == task[cur].pages[va].f
    IN \/ frame[f].refs = 1 /\ Remap(K, va, f) /\ UNCHANGED frame
       \/ /\ frame[f].refs > 1 /\ CanAlloc
          /\ \E g \in FreeFrames :
               /\ Remap(K, va, g)
               /\ frame' = [frame EXCEPT ![g] = [refs |-> 1, val |-> frame[f].val]]

\* A private page is to become writable: a frame that others reference is copied
\* and let go, one that is ours alone is kept.
Unshare(K, va) ==
    LET f == task[cur].pages[va].f
    IN \/ frame[f].refs = 1 /\ Remap(K, va, f) /\ UNCHANGED frame
       \/ /\ frame[f].refs > 1 /\ CanAlloc
          /\ \E g \in FreeFrames :
               /\ Remap(K, va, g)
               /\ frame' = [frame EXCEPT ![g] = [refs |-> 1, val |-> frame[f].val],
                                         ![f] = Dropped(f, 1)]

\* The write fault on a copy-on-write page.
CowFault(va) ==
    /\ \E e \in Translations(va) : ~e.w
    /\ task[cur].pages[va].intent /\ task_page_validate_hw(cur, va)
    /\ ~task[cur].pt[va].w /\ task[cur].pt[va].cow
    /\ Unshare(task, va)
    /\ UNCHANGED <<cur, next>>

\* task_page_set_prot, with the areas already changed in K.  Without a frame for
\* the copy it fails and leaves the page as it was.
ProtectPage(K, va, prot) ==
    LET u == task[cur].pages[va]
    IN \/ /\ prot = "r"
          /\ task' = [K EXCEPT ![cur].pt[va] = [f |-> u.f, w |-> FALSE, cow |-> FALSE],
                               ![cur].pages[va] = [f |-> u.f, intent |-> FALSE]]
          /\ tlb' = mmu_tlb_flush_va(tlb, va, task[cur].asid)
          /\ UNCHANGED frame
       \/ prot = "rw" /\ Unshare(K, va)
       \/ /\ prot = "rw" /\ frame[u.f].refs > 1 /\ ~CanAlloc
          /\ task' = K /\ UNCHANGED <<frame, tlb>>

Mprotect(va, prot) ==
    LET K == [task EXCEPT ![cur].area[va] = prot]
    IN /\ task[cur].area[va] # "none"
       /\ \/ task[cur].pages[va] = NoPage /\ task' = K /\ UNCHANGED <<frame, tlb>>
          \/ /\ task[cur].pages[va] # NoPage /\ task_page_validate_hw(cur, va)
             /\ ProtectPage(K, va, prot)
       /\ UNCHANGED <<cur, next>>

\* task_munmap of an area's page, mapped or not.
Munmap(va) ==
    LET u == task[cur].pages[va]
    IN /\ task[cur].area[va] # "none"
       /\ u # NoPage => task_page_validate_hw(cur, va)
       /\ task' = [task EXCEPT ![cur].area[va] = "none", ![cur].pt[va] = NoPte,
                               ![cur].pages[va] = NoPage]
       /\ \/ u = NoPage /\ UNCHANGED <<frame, tlb>>
          \/ /\ u # NoPage
             /\ frame' = [frame EXCEPT ![u.f] = Dropped(u.f, 1)]
             /\ tlb' = mmu_tlb_flush_va(tlb, va, task[cur].asid)
       /\ UNCHANGED <<cur, next>>

-----------------------------------------------------------------------------
\* What task_fork asks of a page before it shares it.
ForkAccepts(t, va) ==
    /\ task_page_validate_hw(t, va)
    /\ task[t].pages[va].intent => task[t].pt[va].cow \/ task[t].pt[va].w

Mapped(t) == {va \in Va : task[t].pages[va] # NoPage}

\* The descriptor of a private page that parent and child now share.
Shared(u) == [f |-> u.f, w |-> FALSE, cow |-> u.intent]

\* Mutant: the parent's own translations are not flushed.
task_fork_noflush(c) ==
    LET K == Tag(task_alloc_asid(Now, cur), c)
        sealed == [va \in Va |-> IF va \in Mapped(cur) THEN Shared(task[cur].pages[va]) ELSE NoPte]
    IN /\ task' = [K.task EXCEPT ![c] = [task[cur] EXCEPT !.asid = K.task[c].asid,
                                              !.fresh = TRUE, !.pt = sealed],
                                 ![cur].pt = sealed]
       /\ frame' = [f \in Frame |-> [frame[f] EXCEPT !.refs = @ + Holds(cur, f)]]
       /\ next' = K.next /\ tlb' = K.tlb

\* task_fork once the slot is had: task_alloc tags the child, every page is
\* mapped read-only in the child and, if it was writable, in the parent too.
task_fork(c) ==
    LET K == Tag(task_alloc_asid(Now, cur), c)
        sealed == [va \in Va |-> IF va \in Mapped(cur) THEN Shared(task[cur].pages[va]) ELSE NoPte]
        changed == {va \in Mapped(cur) : task[cur].pages[va].intent /\ ~task[cur].pt[va].cow}
    IN /\ task' = [K.task EXCEPT ![c] = [task[cur] EXCEPT !.asid = K.task[c].asid,
                                              !.fresh = TRUE, !.pt = sealed],
                                 ![cur].pt = [va \in Va |-> IF va \in changed THEN sealed[va] ELSE @[va]]]
       /\ frame' = [f \in Frame |-> [frame[f] EXCEPT !.refs = @ + Holds(cur, f)]]
       /\ next' = K.next
       /\ tlb' = {e \in K.tlb : ~(e.asid = K.task[cur].asid /\ e.va \in changed)}

Fork(c) ==
    /\ ~task[c].live
    /\ \A va \in Mapped(cur) : ForkAccepts(cur, va)
    /\ task_fork(c)
    /\ UNCHANGED cur

\* task_unmap_user and the loader: one fresh frame for each page of the program.
Exec(prog) ==
    /\ \E new \in [prog -> Frame] :
         /\ \A a, b \in prog : a # b => new[a] # new[b]
         /\ \A a \in prog : Released(cur)[new[a]].refs = 0
         /\ Cardinality({f \in Frame : Released(cur)[f].refs = 0}) >= Reserve + Cardinality(prog)
         /\ frame' = [f \in Frame |-> IF \E a \in prog : new[a] = f
                                      THEN [refs |-> 1, val |-> Zero] ELSE Released(cur)[f]]
         /\ task' = [task EXCEPT
              ![cur].pt = [va \in Va |-> IF va \in prog THEN [f |-> new[va], w |-> TRUE, cow |-> FALSE]
                                         ELSE NoPte],
              ![cur].pages = [va \in Va |-> IF va \in prog THEN [f |-> new[va], intent |-> TRUE]
                                            ELSE NoPage]]
    /\ tlb' = mmu_tlb_flush_asid(tlb, task[cur].asid)
    /\ UNCHANGED <<cur, next>>

\* task_schedule_from_trap takes t.
Switch(t) ==
    /\ task[t].live
    /\ cur' = t
    /\ Becomes(task_ensure_asid(Now, t))
    /\ UNCHANGED frame

\* task_reap_slot on a task that is not running, or on the running one just
\* before the scheduler takes n (automatic reaping in task_force_exit).
Reap(t, n) ==
    /\ task[t].live /\ task[n].live /\ t # n
    /\ t = cur \/ n = cur
    /\ frame' = Released(t)
    /\ cur' = n
    /\ Becomes(task_ensure_asid([task |-> [task EXCEPT ![t] = Unused], next |-> next,
                                 tlb |-> mmu_tlb_flush_asid(tlb, task[t].asid)], n))

Next ==
    \/ \E va \in Va :
          \/ TlbFill(va) \/ AnonFault(va) \/ CowFault(va) \/ Munmap(va)
          \/ \E v \in Value : Store(va, v)
          \/ \E prot \in Prots : Mmap(va, prot) \/ Mprotect(va, prot)
    \/ \E prog \in Programs : Exec(prog)
    \/ \E t \in Task : Fork(t) \/ Switch(t)
    \/ \E t, n \in Task : Reap(t, n)

Spec == Init /\ [][Next]_vars

-----------------------------------------------------------------------------
\* A translation the processor holds for a task of the current epoch is the one
\* the task's table has now: every change of a descriptor is followed by the
\* flush of that page or identifier, and an identifier is handed out again only
\* after a rollover has emptied the TLB.  The running task is tagged in the current
\* epoch, in which no two tasks have one identifier.
TlbCoherent ==
    /\ \A e \in tlb, t \in Task : task[t].live /\ task[t].fresh /\ task[t].asid = e.asid =>
          task[t].pt[e.va].f = e.f /\ task[t].pt[e.va].w = e.w
    /\ task[cur].live /\ task[cur].fresh
    /\ \A t, u \in Task : t # u /\ task[t].live /\ task[t].fresh /\ task[u].live /\ task[u].fresh =>
          task[t].asid # task[u].asid

\* The kernel's three records of a mapping agree.  A frame's count is the number of
\* pages that map it: none is lost by fork, copy-on-write, mprotect, munmap, exec or
\* reap, and none is freed early.  Page list and page table never disagree in a way
\* that task_page_validate_hw or fork would refuse: those error paths are not taken.
\* No frame that two pages map can be written by either.
RecordsAgree ==
    /\ TypeOK
    /\ \A f \in Frame : frame[f].refs =
          Cardinality({m \in Task \X Va : task[m[1]].pages[m[2]].f = f})
    /\ \A t \in Task, va \in Va :
          IF task[t].pages[va] = NoPage THEN task[t].pt[va] = NoPte ELSE ForkAccepts(t, va)
    /\ \A t \in Task, va \in Va : task[t].pt[va].w => frame[task[t].pt[va].f].refs = 1

\* What each task finds in its memory.
View == [t \in Task |-> [va \in Va |->
           IF task[t].pt[va] = NoPte THEN Unmapped ELSE frame[task[t].pt[va].f].val]]

Abstract == INSTANCE PrivateMemory WITH view <- View

\* Copy-on-write with a caching processor is indistinguishable from copying: fork
\* gives the child its own copy, and a store changes one page of one task.
IsolatedMemory == Abstract!Spec
=============================================================================

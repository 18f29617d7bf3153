------------------------------ MODULE VmLemmas -------------------------------
(***************************************************************************)
(* The inductive invariant of private memory, and the lemmas that its      *)
(* proof rests on: counting the users of a frame, handing out identifiers, *)
(* and the steps that change one page of the running task.                 *)
(***************************************************************************)
EXTENDS Vm, FiniteSetTheorems, TLAPS

\* The pages that map frame f, over the task table T.
Users(T, f) == {m \in Task \X Va : T[m[1]].pages[m[2]].f = f}

\* The descriptor p and the page-list entry u of one page agree.
Agree(p, u) ==
    IF u = NoPage THEN p = NoPte
    ELSE /\ p # NoPte /\ p.f = u.f
         /\ ~u.intent => ~p.w /\ ~p.cow
         /\ ~(p.cow /\ p.w)
         /\ u.intent => p.cow \/ p.w

\* The three records of every mapping agree, over a task table and the frames.
PagesOK(T, F) ==
    /\ \A f \in Frame : F[f].refs = Cardinality(Users(T, f))
    /\ \A t \in Task, va \in Va : Agree(T[t].pt[va], T[t].pages[va])
    /\ \A t \in Task, va \in Va : T[t].pt[va].w => F[T[t].pt[va].f].refs = 1

\* The identifiers of the current epoch are distinct and below next_asid, and so
\* is everything the TLB holds: the next identifier has no stale translation.
TagsOK(K) ==
    /\ \A t \in Task : K.task[t].live /\ K.task[t].fresh => K.task[t].asid < K.next
    /\ \A t, u \in Task : /\ t # u
                          /\ K.task[t].live /\ K.task[t].fresh
                          /\ K.task[u].live /\ K.task[u].fresh
                          => K.task[t].asid # K.task[u].asid
    /\ \A e \in K.tlb : e.asid < K.next
    /\ \A e \in K.tlb, t \in Task :
          K.task[t].live /\ K.task[t].fresh /\ K.task[t].asid = e.asid =>
             K.task[t].pt[e.va].f = e.f /\ K.task[t].pt[e.va].w = e.w

\* A slot that is not in use maps nothing: task_reap_slot cleared it.
IInv ==
    /\ TypeOK
    /\ \A t \in Task, va \in Va : ~task[t].live => task[t].pages[va] = NoPage
    /\ task[cur].live /\ task[cur].fresh
    /\ PagesOK(task, frame)
    /\ TagsOK(Now)

\* Parts of TypeOK, for the functions on K = [task, next, tlb].
TaskRecord == [live : BOOLEAN, asid : Asid, fresh : BOOLEAN, pt : [Va -> Pte],
               pages : [Va -> Page], area : [Va -> {"none", "r", "rw"}]]

KType == [task : [Task -> TaskRecord], next : 1 .. TASK_ASID_MAX + 1, tlb : SUBSET Translation]

\* The task tables T and U differ at most in identifiers.
SameMemory(T, U) ==
    \A t \in Task : /\ U[t].live = T[t].live /\ U[t].pt = T[t].pt
                    /\ U[t].pages = T[t].pages /\ U[t].area = T[t].area

\* They map the same frames, except perhaps at page va of task c.
SameBut(T, U, c, va) ==
    \A t \in Task, v \in Va : <<t, v>> # <<c, va>> => U[t].pages[v].f = T[t].pages[v].f

\* The users of frame f, n so far, after one page went from frame a to frame b.
Moved(n, a, b, f) ==
    IF a = f /\ b # f THEN n - 1 ELSE IF a # f /\ b = f THEN n + 1 ELSE n

\* A writable descriptor maps a page.
LEMMA ClosedPte ==
    ASSUME NEW p, p.w
    PROVE  p # NoPte
BY DEF NoPte

-----------------------------------------------------------------------------
\* Counting the users of a frame.

LEMMA UsersFinite ==
    ASSUME NEW T, NEW f
    PROVE  IsFiniteSet(Users(T, f)) /\ Cardinality(Users(T, f)) \in Nat
<1>1. IsFiniteSet(Task \X Va)
  BY VmAssumption, FS_Product, Zenon
<1>2. IsFiniteSet(Users(T, f))
  BY <1>1, FS_Subset, Zenon DEF Users
<1> QED BY <1>2, FS_CardinalityType, Zenon

\* The pages of one task that map a frame, counted in the task or in the table.
LEMMA RowCount ==
    ASSUME NEW t \in Task, NEW S \in SUBSET Va
    PROVE  /\ IsFiniteSet(S) /\ Cardinality(S) \in Nat
           /\ IsFiniteSet({t} \X S)
           /\ Cardinality({t} \X S) = Cardinality(S)
<1>1. IsFiniteSet(S)
  BY VmAssumption, FS_Subset, Zenon
<1>2. Cardinality({t}) = 1 /\ IsFiniteSet({t})
  BY FS_Singleton
<1>3. Cardinality(S) \in Nat
  BY <1>1, FS_CardinalityType, Zenon
<1>4. IsFiniteSet({t} \X S) /\ Cardinality({t} \X S) = Cardinality({t}) * Cardinality(S)
  BY <1>1, <1>2, FS_Product
<1> QED BY <1>1, <1>2, <1>3, <1>4

\* A frame with one reference has one user; a free frame has none.
LEMMA OnlyUser ==
    ASSUME NEW T, NEW F, PagesOK(T, F), NEW f \in Frame,
           NEW t \in Task, NEW va \in Va, T[t].pages[va].f = f
    PROVE  /\ F[f].refs # 0
           /\ F[f].refs = 1 => \A u \in Task, v \in Va : T[u].pages[v].f = f => u = t /\ v = va
<1>0. F[f].refs = Cardinality(Users(T, f))
  BY DEF PagesOK
<1>1. <<t, va>> \in Users(T, f) /\ IsFiniteSet(Users(T, f))
  <2>1. <<t, va>> \in Users(T, f)
    BY DEF Users
  <2> QED BY <2>1, UsersFinite, Zenon
<1>2. Cardinality(Users(T, f)) # 0
  BY <1>1, FS_EmptySet, Zenon
<1>3. ASSUME Cardinality(Users(T, f)) = 1, NEW u \in Task, NEW v \in Va,
             T[u].pages[v].f = f
      PROVE  u = t /\ v = va
  <2>1. <<u, v>> \in Users(T, f)
    BY <1>3, Zenon DEF Users
  <2>2. PICK m : Users(T, f) = {m}
    BY <1>1, <1>3, FS_Singleton, Zenon
  <2>3. <<u, v>> = <<t, va>>
    BY <1>1, <2>1, <2>2, Zenon
  <2> QED BY <2>3
<1> QED BY <1>0, <1>2, <1>3, Zenon

\* Page va of task c goes from one frame to another, or to or from none.
LEMMA OnePageCount ==
    ASSUME NEW T, NEW U, NEW c \in Task, NEW va \in Va, NEW f, SameBut(T, U, c, va)
    PROVE  Cardinality(Users(U, f)) =
             Moved(Cardinality(Users(T, f)), T[c].pages[va].f, U[c].pages[va].f, f)
<1> DEFINE a == T[c].pages[va].f
           b == U[c].pages[va].f
           m == <<c, va>>
<1>0. IsFiniteSet(Users(T, f)) /\ Cardinality(Users(T, f)) \in Nat
  BY UsersFinite
<1>1. m \in Users(T, f) <=> a = f
  BY DEF Users
<1>2. m \in Users(U, f) <=> b = f
  BY DEF Users
<1>3. Users(U, f) \ {m} = Users(T, f) \ {m}
  <2>1. ASSUME NEW x \in Task \X Va, x # m
        PROVE  x \in Users(U, f) <=> x \in Users(T, f)
    <3>1. PICK t \in Task, v \in Va : x = <<t, v>>
      OBVIOUS
    <3>2. U[t].pages[v].f = T[t].pages[v].f
      BY <2>1, <3>1, Zenon DEF SameBut
    <3> QED BY <3>1, <3>2, Zenon DEF Users
  <2>2. Users(U, f) \subseteq Task \X Va /\ Users(T, f) \subseteq Task \X Va
    BY DEF Users
  <2> QED BY <2>1, <2>2, Zenon
<1> HIDE DEF m, a, b
<1>4. CASE a = f /\ b # f
  <2>1. Users(U, f) = Users(T, f) \ {m}
    BY <1>1, <1>2, <1>3, <1>4, Zenon
  <2> QED BY <1>0, <1>1, <1>4, <2>1, FS_RemoveElement, Zenon DEF a, b, Moved
<1>5. CASE a # f /\ b = f
  <2>1. Users(U, f) = Users(T, f) \cup {m} /\ m \notin Users(T, f)
    BY <1>1, <1>2, <1>3, <1>5, Zenon
  <2>2. Cardinality(Users(U, f)) = Cardinality(Users(T, f)) + 1
    BY <1>0, <2>1, FS_AddElement, Zenon
  <2> QED BY <1>5, <2>2, Zenon DEF a, b, Moved
<1>6. CASE (a = f) <=> (b = f)
  <2>1. Users(U, f) = Users(T, f)
    BY <1>1, <1>2, <1>3, <1>6
  <2> QED BY <1>6, <2>1 DEF a, b, Moved
<1> QED BY <1>4, <1>5, <1>6, Zenon

\* The pages of task t that map frame f.
Row(T, t, f) == {va \in Va : T[t].pages[va].f = f}

\* The pages of tasks other than t that map it.
Others(T, t, f) == Users(T, f) \ ({t} \X Row(T, t, f))

\* Task c lets go of all its pages.
LEMMA ClearCount ==
    ASSUME NEW T, NEW c \in Task, NEW f
    PROVE  LET S == Row(T, c, f)
           IN /\ {c} \X S \subseteq Users(T, f)
              /\ Cardinality(S) \in Nat
              /\ IsFiniteSet(Others(T, c, f))
              /\ Cardinality(Others(T, c, f)) = Cardinality(Users(T, f)) - Cardinality(S)
              /\ \A t \in Task, v \in Va :
                    <<t, v>> \in Others(T, c, f) <=> t # c /\ T[t].pages[v].f = f
<1> DEFINE S == Row(T, c, f)
<1>1. {c} \X S \subseteq Users(T, f)
  BY DEF Users, Row
<1>2. IsFiniteSet(Users(T, f))
  BY UsersFinite
<1>3. S \in SUBSET Va
  BY DEF Row
<1>4. \A t \in Task, v \in Va :
         <<t, v>> \in Users(T, f) \ ({c} \X S) <=> t # c /\ T[t].pages[v].f = f
  BY DEF Users, Row
<1> HIDE DEF S
<1>5. Cardinality(S) \in Nat /\ Cardinality({c} \X S) = Cardinality(S)
  BY <1>3, RowCount
<1>6. Users(T, f) \cap ({c} \X S) = {c} \X S
  BY <1>1
<1>7. /\ IsFiniteSet(Users(T, f) \ ({c} \X S))
      /\ Cardinality(Users(T, f) \ ({c} \X S)) =
            Cardinality(Users(T, f)) - Cardinality(Users(T, f) \cap ({c} \X S))
  BY <1>2, FS_Difference, Zenon
<1> QED BY <1>1, <1>4, <1>5, <1>6, <1>7, Zenon DEF S, Others

\* Slot c, which maps nothing, gets the pages of task p.
LEMMA CopyCount ==
    ASSUME NEW T, NEW U, NEW c \in Task, NEW p \in Task, NEW f \in Frame,
           \A v \in Va : T[c].pages[v].f # f,
           \A t \in Task : t # c => U[t].pages = T[t].pages,
           U[c].pages = T[p].pages
    PROVE  Cardinality(Users(U, f)) =
             Cardinality(Users(T, f)) + Cardinality({va \in Va : T[p].pages[va].f = f})
<1> DEFINE S == {va \in Va : T[p].pages[va].f = f}
<1>1. S \in SUBSET Va
  OBVIOUS
<1>2. Users(U, f) = Users(T, f) \cup ({c} \X S)
  <2>1. ASSUME NEW t \in Task, NEW v \in Va
        PROVE  <<t, v>> \in Users(U, f) <=> <<t, v>> \in Users(T, f) \cup ({c} \X S)
    BY DEF Users
  <2>2. Users(U, f) \subseteq Task \X Va /\ Users(T, f) \subseteq Task \X Va
        /\ {c} \X S \subseteq Task \X Va
    BY DEF Users
  <2> QED BY <2>1, <2>2
<1>3. Users(T, f) \cap ({c} \X S) = {}
  <2>1. \A m \in Users(T, f) : m[1] # c
    BY DEF Users
  <2> QED BY <2>1
<1> HIDE DEF S
<1>4. /\ IsFiniteSet(Users(T, f)) /\ Cardinality(Users(T, f)) \in Nat
      /\ IsFiniteSet({c} \X S) /\ Cardinality({c} \X S) = Cardinality(S)
      /\ Cardinality(S) \in Nat
  BY <1>1, UsersFinite, RowCount, Zenon
<1>5. Cardinality(Users(U, f)) =
        Cardinality(Users(T, f)) + Cardinality({c} \X S) - Cardinality(Users(T, f) \cap ({c} \X S))
  BY <1>2, <1>4, FS_Union
<1>6. Cardinality(Users(U, f)) = Cardinality(Users(T, f)) + Cardinality(S)
  <2>1. Cardinality(Users(T, f) \cap ({c} \X S)) = 0
    BY <1>3, FS_EmptySet, Zenon
  <2> QED BY <1>4, <1>5, <2>1
<1> QED BY <1>6 DEF S

-----------------------------------------------------------------------------
\* Identifiers.

LEMMA TaggedIs ==
    ASSUME NEW r \in TaskRecord, NEW a \in Asid, NEW b \in BOOLEAN
    PROVE  LET q == Tagged(r, a, b)
           IN /\ q \in TaskRecord /\ q.asid = a /\ q.fresh = b
              /\ q.live = r.live /\ q.pt = r.pt /\ q.pages = r.pages /\ q.area = r.area
BY Zenon DEF Tagged, TaskRecord

\* task_alloc_asid leaves an identifier to hand out; after a rollover only the
\* current task is of the current epoch, and the TLB is empty.
LEMMA AllocAsidOK ==
    ASSUME NEW K \in KType, NEW c \in Task, TagsOK(K)
    PROVE  LET L == task_alloc_asid(K, c)
           IN /\ L \in KType /\ TagsOK(L) /\ L.next <= TASK_ASID_MAX
              /\ SameMemory(K.task, L.task)
              /\ K.task[c].fresh => L.task[c].fresh
<1> DEFINE L == task_alloc_asid(K, c)
<1>0. K.next \in 1 .. TASK_ASID_MAX + 1 /\ K.task \in [Task -> TaskRecord]
      /\ TASK_ASID_MAX \in Nat /\ TASK_ASID_MAX >= 2
  BY VmAssumption DEF KType
<1>1. CASE K.next > TASK_ASID_MAX
  <2> DEFINE E == NewEpoch(K.task, c)
  <2>1. L = [task |-> E, next |-> 2, tlb |-> {}]
    BY <1>1, Zenon DEF task_alloc_asid, task_asid_rollover
  <2>2. ASSUME NEW t \in Task
        PROVE  /\ E[t] \in TaskRecord
               /\ E[t].live = K.task[t].live /\ E[t].pt = K.task[t].pt
               /\ E[t].pages = K.task[t].pages /\ E[t].area = K.task[t].area
               /\ E[t].fresh <=> t = c
               /\ t = c => E[t].asid = 1
    <3> DEFINE a == IF t = c THEN 1 ELSE K.task[t].asid
               b == t = c
               q == Tagged(K.task[t], a, b)
    <3>1. E[t] = q
      BY DEF NewEpoch
    <3>2. K.task[t] \in TaskRecord /\ a \in Asid /\ b \in BOOLEAN
      BY <1>0 DEF TaskRecord, Asid
    <3>3. t = c => a = 1
      OBVIOUS
    <3> HIDE DEF a, b
    <3>4. /\ q \in TaskRecord /\ q.asid = a /\ q.fresh = b
          /\ q.live = K.task[t].live /\ q.pt = K.task[t].pt
          /\ q.pages = K.task[t].pages /\ q.area = K.task[t].area
      BY <3>2, TaggedIs
    <3> HIDE DEF q
    <3>5. E[t].fresh <=> t = c
      BY <3>1, <3>4, Zenon DEF b
    <3> QED BY <3>1, <3>3, <3>4, <3>5, Zenon
  <2>5. E \in [Task -> TaskRecord]
    BY <2>2, Zenon DEF NewEpoch
  <2> HIDE DEF E, L
  <2>6. L \in KType
    BY <1>0, <2>1, <2>5 DEF KType
  <2>7. L.task = E /\ L.next = 2 /\ L.tlb = {}
    BY <2>1
  <2>8. TagsOK(L)
    BY <2>2, <2>7 DEF TagsOK
  <2> QED BY <1>0, <2>2, <2>6, <2>7, <2>8, Zenon DEF SameMemory, L
<1>2. CASE ~(K.next > TASK_ASID_MAX)
  BY <1>0, <1>2 DEF task_alloc_asid, SameMemory
<1> QED BY <1>1, <1>2, Zenon

\* The next identifier has no translations, so any task can have it.
LEMMA TagOK ==
    ASSUME NEW K \in KType, NEW t \in Task, TagsOK(K), K.next <= TASK_ASID_MAX
    PROVE  LET L == Tag(K, t)
           IN /\ L \in KType /\ TagsOK(L)
              /\ L.tlb = K.tlb /\ L.next = K.next + 1
              /\ SameMemory(K.task, L.task)
              /\ L.task[t].fresh /\ L.task[t].asid = K.next
              /\ \A u \in Task : u # t => L.task[u] = K.task[u]
<1> DEFINE L == Tag(K, t)
<1>0. /\ K.next \in 1 .. TASK_ASID_MAX + 1 /\ K.task \in [Task -> TaskRecord]
      /\ TASK_ASID_MAX \in Nat /\ K.tlb \in SUBSET Translation
  BY VmAssumption, Zenon DEF KType
<1> DEFINE q == Tagged(K.task[t], K.next, TRUE)
<1>1. L = [task |-> [K.task EXCEPT ![t] = q], next |-> K.next + 1, tlb |-> K.tlb]
  BY DEF Tag
<1>a. K.next \in Asid /\ K.task[t] \in TaskRecord
  BY <1>0 DEF Asid
<1>b. /\ q \in TaskRecord /\ q.asid = K.next /\ q.fresh
      /\ q.live = K.task[t].live /\ q.pt = K.task[t].pt
      /\ q.pages = K.task[t].pages /\ q.area = K.task[t].area
  BY <1>a, TaggedIs, Zenon
<1> HIDE DEF L, q
<1>2. L.tlb = K.tlb /\ L.next = K.next + 1 /\ L.task = [K.task EXCEPT ![t] = q]
  BY <1>1, Zenon
<1>3. (\A u \in Task : u # t => L.task[u] = K.task[u]) /\ L.task[t] = q
  BY <1>0, <1>2
<1>4. /\ L.task[t].live = K.task[t].live /\ L.task[t].pt = K.task[t].pt
      /\ L.task[t].pages = K.task[t].pages /\ L.task[t].area = K.task[t].area
      /\ L.task[t].fresh /\ L.task[t].asid = K.next
      /\ L.task[t] \in TaskRecord
  BY <1>3, <1>b, Zenon
<1>5. L \in KType
  <2>1. L.task \in [Task -> TaskRecord]
    BY <1>0, <1>2, <1>b, Zenon
  <2> QED BY <1>0, <1>1, <1>2, <2>1 DEF KType
<1>6. SameMemory(K.task, L.task)
  BY <1>3, <1>4, Zenon DEF SameMemory
<1>7. \A u \in Task : K.task[u].asid \in Nat
  BY <1>0 DEF TaskRecord, Asid
<1>8. \A e \in K.tlb : e.asid \in Nat
  BY <1>0 DEF Translation, Asid
<1>9. TagsOK(L)
  <2>1. \A u \in Task : L.task[u].live /\ L.task[u].fresh => L.task[u].asid < L.next
    BY <1>0, <1>2, <1>3, <1>4, <1>7 DEF TagsOK
  <2>2. \A e \in L.tlb : e.asid < L.next
    BY <1>0, <1>2, <1>8 DEF TagsOK
  <2>3. \A u, v \in Task : /\ u # v
                           /\ L.task[u].live /\ L.task[u].fresh
                           /\ L.task[v].live /\ L.task[v].fresh
                           => L.task[u].asid # L.task[v].asid
    BY <1>0, <1>3, <1>4, <1>7 DEF TagsOK
  <2>4. ASSUME NEW e \in L.tlb, NEW u \in Task,
               L.task[u].live /\ L.task[u].fresh /\ L.task[u].asid = e.asid
        PROVE  L.task[u].pt[e.va].f = e.f /\ L.task[u].pt[e.va].w = e.w
    <3>1. u # t
      BY <1>0, <1>2, <1>4, <1>8, <2>4 DEF TagsOK
    <3> QED BY <1>2, <1>3, <2>4, <3>1 DEF TagsOK
  <2> QED BY <2>1, <2>2, <2>3, <2>4, Zenon DEF TagsOK
<1> QED BY <1>2, <1>3, <1>4, <1>5, <1>6, <1>9, Zenon DEF L

\* task_ensure_asid: the task that runs next is of the current epoch.
LEMMA EnsureAsidOK ==
    ASSUME NEW K \in KType, NEW t \in Task, TagsOK(K)
    PROVE  LET L == task_ensure_asid(K, t)
           IN /\ L \in KType /\ TagsOK(L)
              /\ SameMemory(K.task, L.task)
              /\ L.task[t].fresh
<1>1. CASE K.task[t].fresh
  BY <1>1, Zenon DEF task_ensure_asid, SameMemory
<1>2. CASE ~K.task[t].fresh
  <2> DEFINE M == task_alloc_asid(K, t)
             L == Tag(M, t)
  <2>1. task_ensure_asid(K, t) = L
    BY <1>2, Zenon DEF task_ensure_asid
  <2>2. /\ M \in KType /\ TagsOK(M) /\ M.next <= TASK_ASID_MAX
        /\ SameMemory(K.task, M.task)
    BY AllocAsidOK, Zenon
  <2> HIDE DEF M
  <2>3. /\ L \in KType /\ TagsOK(L)
        /\ SameMemory(M.task, L.task)
        /\ L.task[t].fresh
        /\ \A u \in Task : u # t => L.task[u] = M.task[u]
    BY <2>2, TagOK
  <2> HIDE DEF L
  <2>4. SameMemory(K.task, L.task)
    BY <2>2, <2>3 DEF SameMemory
  <2> QED BY <2>1, <2>2, <2>3, <2>4, Zenon
<1> QED BY <1>1, <1>2, Zenon

\* A change of identifiers leaves the records of the mappings alone.
LEMMA SamePagesOK ==
    ASSUME NEW T, NEW U, NEW F, PagesOK(T, F), SameMemory(T, U)
    PROVE  PagesOK(U, F)
<1>1. ASSUME NEW f PROVE Users(U, f) = Users(T, f)
  BY DEF Users, SameMemory
<1>2. \A f \in Frame : F[f].refs = Cardinality(Users(U, f))
  BY <1>1, Zenon DEF PagesOK
<1>3. \A t \in Task, va \in Va : U[t].pt[va] = T[t].pt[va] /\ U[t].pages[va] = T[t].pages[va]
  BY DEF SameMemory
<1> QED BY <1>2, <1>3 DEF PagesOK

-----------------------------------------------------------------------------
\* The inductive invariant.

LEMMA InitIInv == Init => IInv
<1> SUFFICES ASSUME Init PROVE IInv
  OBVIOUS
<1>0. TASK_ASID_MAX \in Nat /\ TASK_ASID_MAX >= 2 /\ Boot \in Task /\ Zero \in Value
      /\ Unmapped \notin Frame
  BY VmAssumption
<1> DEFINE first == [Unused EXCEPT !.live = TRUE, !.asid = 1, !.fresh = TRUE]
<1>1. /\ \A t \in Task : task[t] = IF t = Boot THEN first ELSE Unused
      /\ task = [t \in Task |-> task[t]]
  BY DEF Init
<1>2. Unused \in TaskRecord
  BY <1>0 DEF Unused, TaskRecord, Asid, Pte, Page
<1>3. ~Unused.live /\ Unused.pt = [va \in Va |-> NoPte] /\ Unused.pages = [va \in Va |-> NoPage]
  BY DEF Unused
<1>4. /\ first \in TaskRecord /\ first.live /\ first.fresh /\ first.asid = 1
      /\ first.pt = [va \in Va |-> NoPte] /\ first.pages = [va \in Va |-> NoPage]
  <2>1. 1 \in Asid
    BY <1>0 DEF Asid
  <2>2. ASSUME NEW r \in TaskRecord
        PROVE  LET q == [r EXCEPT !.live = TRUE, !.asid = 1, !.fresh = TRUE]
               IN /\ q \in TaskRecord /\ q.live /\ q.fresh /\ q.asid = 1
                  /\ q.pt = r.pt /\ q.pages = r.pages
    BY <2>1, Zenon DEF TaskRecord
  <2> QED BY <1>2, <1>3, <2>2, Zenon
<1> HIDE DEF first
<1>5. \A t \in Task, va \in Va : task[t].pt[va] = NoPte /\ task[t].pages[va] = NoPage
  BY <1>1, <1>3, <1>4
<1>6. TypeOK
  <2>1. task \in [Task -> TaskRecord]
    BY <1>1, <1>2, <1>4
  <2>2. frame \in [Frame -> [refs : Nat, val : Value]]
    BY <1>0, Zenon DEF Init
  <2>3. cur \in Task /\ next \in 1 .. TASK_ASID_MAX + 1 /\ tlb \subseteq Translation
    BY <1>0 DEF Init
  <2> QED BY <2>1, <2>2, <2>3, Zenon DEF TypeOK, TaskRecord
<1>7. task[cur].live /\ task[cur].fresh
  BY <1>0, <1>1, <1>4, ZenonT(40) DEF Init
<1>8. PagesOK(task, frame)
  <2>1. ASSUME NEW f \in Frame PROVE frame[f].refs = Cardinality(Users(task, f))
    <3>1. Users(task, f) = {}
      <4>1. NoPage.f # f
        BY <1>0 DEF NoPage
      <4> QED BY <1>5, <4>1, Zenon DEF Users
    <3>2. frame[f].refs = 0
      BY DEF Init
    <3> QED BY <3>1, <3>2, FS_EmptySet, Zenon
  <2>2. \A t \in Task, va \in Va : Agree(task[t].pt[va], task[t].pages[va])
    BY <1>5 DEF Agree
  <2>3. ~NoPte.w
    BY DEF NoPte
  <2> QED BY <1>5, <2>1, <2>2, <2>3, Zenon DEF PagesOK
<1>9. TagsOK(Now)
  <2>1. /\ tlb = {} /\ next = 2
        /\ \A t \in Task : task[t].live => t = Boot /\ task[t].asid = 1
    BY <1>1, <1>3, <1>4, Zenon DEF Init
  <2> QED BY <2>1 DEF TagsOK, Now
<1> QED BY <1>5, <1>6, <1>7, <1>8, <1>9, Zenon DEF IInv

\* A fault, mprotect or munmap changes page va of the running task: the entry
\* becomes u, the descriptor p, the page is flushed, and the frames are counted.
TableBecomes(va, p, u) ==
    /\ task' \in [Task -> TaskRecord]
    /\ \A t \in Task : t # cur => task'[t] = task[t]
    /\ task'[cur].live /\ task'[cur].fresh /\ task'[cur].asid = task[cur].asid
    /\ task'[cur].pt = [task[cur].pt EXCEPT ![va] = p]
    /\ task'[cur].pages = [task[cur].pages EXCEPT ![va] = u]

PageBecomes(va, p, u) ==
    /\ TableBecomes(va, p, u)
    /\ tlb' = mmu_tlb_flush_va(tlb, va, task[cur].asid)
    /\ next' = next /\ cur' = cur
    /\ frame' \in [Frame -> [refs : Nat, val : Value]]
    /\ Agree(p, u)
    /\ p.w => frame'[p.f].refs = 1
    /\ \A f \in Frame :
          frame'[f].refs = Moved(frame[f].refs, task[cur].pages[va].f, u.f, f)
    /\ u.f \in Frame => u.f = task[cur].pages[va].f \/ frame[u.f].refs = 0

LEMMA OnePageStep ==
    ASSUME IInv, NEW va \in Va, NEW p \in Pte, NEW u \in Page, PageBecomes(va, p, u)
    PROVE  IInv'
<1> DEFINE a == task[cur].pages[va].f
<1>0. /\ task \in [Task -> TaskRecord] /\ cur \in Task
      /\ next \in 1 .. TASK_ASID_MAX + 1 /\ tlb \subseteq Translation
      /\ PagesOK(task, frame) /\ TagsOK(Now) /\ Unmapped \notin Frame
  BY VmAssumption, Zenon DEF IInv, TypeOK, TaskRecord
<1>a. /\ \A t \in Task : t # cur => task'[t] = task[t]
      /\ task'[cur].live /\ task'[cur].fresh /\ task'[cur].asid = task[cur].asid
      /\ next' = next /\ cur' = cur
  BY DEF PageBecomes, TableBecomes
<1>b. \A f \in Frame : frame'[f].refs = Moved(frame[f].refs, a, u.f, f)
  BY DEF PageBecomes, TableBecomes
<1>1. task[cur].pt \in [Va -> Pte] /\ task[cur].pages \in [Va -> Page]
  BY <1>0, Zenon DEF TaskRecord
<1>2. /\ task'[cur].pt[va] = p /\ task'[cur].pages[va] = u
      /\ \A v \in Va : v # va => /\ task'[cur].pt[v] = task[cur].pt[v]
                                 /\ task'[cur].pages[v] = task[cur].pages[v]
  BY <1>1 DEF PageBecomes, TableBecomes
<1>3. \A t \in Task, v \in Va : <<t, v>> # <<cur, va>> =>
         task'[t].pt[v] = task[t].pt[v] /\ task'[t].pages[v] = task[t].pages[v]
  BY <1>2, <1>a
<1>4. TypeOK'
  <2>1. tlb' \subseteq Translation
    BY <1>0, Zenon DEF PageBecomes, TableBecomes, mmu_tlb_flush_va
  <2> QED BY <1>0, <2>1 DEF PageBecomes, TableBecomes, TypeOK, TaskRecord
<1>5. ASSUME NEW t \in Task, NEW v \in Va, ~task'[t].live
      PROVE  task'[t].pages[v] = NoPage
  BY <1>5, <1>a DEF IInv
<1>6. PagesOK(task', frame')
  <2>1. ASSUME NEW f \in Frame PROVE frame'[f].refs = Cardinality(Users(task', f))
    <3> DEFINE n == Cardinality(Users(task, f))
    <3>1. SameBut(task, task', cur, va)
      BY <1>3 DEF SameBut
    <3> DEFINE b == task'[cur].pages[va].f
    <3>2. Cardinality(Users(task', f)) = Moved(n, a, b, f)
      <4>1. cur \in Task
        BY <1>0, Zenon
      <4> QED BY <3>1, <4>1, OnePageCount
    <3>3. frame[f].refs = n
      BY <1>0, Zenon DEF PagesOK
    <3>4. b = u.f
      BY <1>2
    <3> QED BY <1>b, <3>2, <3>3, <3>4, Zenon
  <2>2. ASSUME NEW t \in Task, NEW v \in Va
        PROVE  Agree(task'[t].pt[v], task'[t].pages[v])
    <3>1. CASE t = cur /\ v = va
      BY <1>2, <3>1, Zenon DEF PageBecomes, TableBecomes
    <3>2. CASE ~(t = cur /\ v = va)
      <4>1. task'[t].pt[v] = task[t].pt[v] /\ task'[t].pages[v] = task[t].pages[v]
        BY <1>3, <3>2
      <4> QED BY <1>0, <4>1, Zenon DEF PagesOK
    <3> QED BY <3>1, <3>2, Zenon
  <2>3. ASSUME NEW t \in Task, NEW v \in Va, task'[t].pt[v].w
        PROVE  frame'[task'[t].pt[v].f].refs = 1
    <3>1. CASE <<t, v>> = <<cur, va>>
      BY <1>2, <2>3, <3>1, Zenon DEF PageBecomes, TableBecomes
    <3>2. CASE <<t, v>> # <<cur, va>>
      <4> DEFINE f == task[t].pt[v].f
      <4>1. task'[t].pt[v] = task[t].pt[v]
        BY <1>3, <3>2, Zenon
      <4>2. frame[f].refs = 1
        BY <1>0, <2>3, <4>1, Zenon DEF PagesOK
      <4>3. task[t].pt[v] # NoPte /\ task[t].pt[v] \in Pte
        BY <1>0, <2>3, <4>1 DEF NoPte, TaskRecord
      <4>4. f \in Frame /\ task[t].pages[v].f = f
        BY <1>0, <4>3, Zenon DEF PagesOK, Agree, Pte
      <4>5. a # f
        BY <1>0, <3>2, <4>2, <4>4, OnlyUser
      <4>6. u.f # f
        BY <4>2, <4>4, <4>5 DEF PageBecomes, TableBecomes
      <4> QED BY <1>b, <4>1, <4>2, <4>4, <4>5, <4>6, Zenon DEF Moved
    <3> QED BY <3>1, <3>2, Zenon
  <2> QED BY <2>1, <2>2, <2>3, Zenon DEF PagesOK
<1>7. TagsOK(Now)'
  <2>1. \A t \in Task : /\ task'[t].live <=> task[t].live
                        /\ task'[t].fresh <=> task[t].fresh
                        /\ task'[t].asid = task[t].asid
    BY <1>a DEF IInv
  <2>2. tlb' \subseteq tlb /\ \A e \in tlb' : e.asid # task[cur].asid \/ e.va # va
    BY DEF PageBecomes, TableBecomes, mmu_tlb_flush_va
  <2>3. ASSUME NEW e \in tlb', NEW t \in Task,
               task'[t].live /\ task'[t].fresh /\ task'[t].asid = e.asid
        PROVE  task'[t].pt[e.va].f = e.f /\ task'[t].pt[e.va].w = e.w
    <3>1. task[t].pt[e.va].f = e.f /\ task[t].pt[e.va].w = e.w
      BY <1>0, <2>1, <2>2, <2>3 DEF TagsOK, Now
    <3>2. e.va \in Va /\ (t = cur => e.va # va)
      BY <1>0, <2>1, <2>2, <2>3, Zenon DEF Translation
    <3>3. task'[t].pt[e.va] = task[t].pt[e.va]
      BY <1>2, <1>a, <3>2
    <3> QED BY <3>1, <3>3, Zenon
  <2>4. /\ \A t \in Task : task'[t].live /\ task'[t].fresh => task'[t].asid < next'
        /\ \A e \in tlb' : e.asid < next'
    BY <1>0, <1>a, <2>1, <2>2, Zenon DEF TagsOK, Now
  <2>5. \A t, v \in Task : /\ t # v
                           /\ task'[t].live /\ task'[t].fresh
                           /\ task'[v].live /\ task'[v].fresh
                           => task'[t].asid # task'[v].asid
    BY <1>0, <2>1 DEF TagsOK, Now
  <2> QED BY <2>3, <2>4, <2>5, Zenon DEF TagsOK, Now
<1> QED BY <1>4, <1>5, <1>6, <1>7, <1>a, Zenon DEF IInv

\* The assignments of a page's descriptor and entry, and of its area.
PageSet(T, c, va, p, u) == [T EXCEPT ![c].pt[va] = p, ![c].pages[va] = u]

AreaSet(T, c, va, a) == [T EXCEPT ![c].area[va] = a]

LEMMA PageSetIs ==
    ASSUME NEW T \in [Task -> TaskRecord], NEW c \in Task, NEW va \in Va,
           NEW p \in Pte, NEW u \in Page
    PROVE  LET U == PageSet(T, c, va, p, u)
           IN /\ U \in [Task -> TaskRecord]
              /\ \A t \in Task : t # c => U[t] = T[t]
              /\ U[c].live = T[c].live /\ U[c].fresh = T[c].fresh /\ U[c].asid = T[c].asid
              /\ U[c].pt = [T[c].pt EXCEPT ![va] = p]
              /\ U[c].pages = [T[c].pages EXCEPT ![va] = u]
BY Zenon DEF TaskRecord, PageSet

LEMMA AreaSetIs ==
    ASSUME NEW T \in [Task -> TaskRecord], NEW c \in Task, NEW va \in Va,
           NEW a \in {"none", "r", "rw"}
    PROVE  LET U == AreaSet(T, c, va, a)
           IN /\ U \in [Task -> TaskRecord]
              /\ \A t \in Task : t # c => U[t] = T[t]
              /\ U[c].live = T[c].live /\ U[c].fresh = T[c].fresh /\ U[c].asid = T[c].asid
              /\ U[c].pt = T[c].pt /\ U[c].pages = T[c].pages
BY DEF TaskRecord, AreaSet

\* Such a step, after which the page reads as x.  Only a frame that nobody else
\* maps gets other contents.
PageStep(va, x) ==
    \E p \in Pte, u \in Page :
       /\ PageBecomes(va, p, u)
       /\ \A f \in Frame : frame'[f].val # frame[f].val =>
             frame[f].refs = 0 \/ (frame[f].refs = 1 /\ task[cur].pages[va].f = f)
       /\ x = IF p = NoPte THEN Unmapped ELSE frame'[p.f].val

ViewOf(T, F) == [t \in Task |-> [va \in Va |->
                   IF T[t].pt[va] = NoPte THEN Unmapped ELSE F[T[t].pt[va].f].val]]

LEMMA ViewType ==
    ASSUME NEW T \in [Task -> TaskRecord], NEW F \in [Frame -> [refs : Nat, val : Value]]
    PROVE  ViewOf(T, F) \in [Task -> [Va -> Value \cup {Unmapped}]]
<1>1. ASSUME NEW t \in Task, NEW v \in Va, T[t].pt[v] # NoPte
      PROVE  F[T[t].pt[v].f].val \in Value
  <2>1. T[t].pt[v].f \in Frame
    BY <1>1 DEF TaskRecord, Pte
  <2> QED BY <2>1, Zenon
<1> QED BY <1>1, Zenon DEF ViewOf

\* Two memories that differ in one page of one task.
LEMMA OneCell ==
    ASSUME NEW X, NEW V \in [Task -> [Va -> X]], NEW W \in [Task -> [Va -> X]],
           NEW c \in Task, NEW va \in Va, NEW x,
           \A t \in Task, v \in Va : ~(t = c /\ v = va) => W[t][v] = V[t][v],
           W[c][va] = x
    PROVE  W = [V EXCEPT ![c][va] = x]
OBVIOUS

\* Two memories that differ in one task.
LEMMA OneTask ==
    ASSUME NEW X, NEW V \in [Task -> [Va -> X]], NEW W \in [Task -> [Va -> X]],
           NEW c \in Task, NEW m \in [Va -> X],
           \A t \in Task, v \in Va : t # c => W[t][v] = V[t][v],
           \A v \in Va : W[c][v] = m[v]
    PROVE  W = [V EXCEPT ![c] = m]
<1>1. W[c] = m
  OBVIOUS
<1>2. ASSUME NEW t \in Task, t # c PROVE W[t] = V[t]
  BY <1>2
<1> QED BY <1>1, <1>2, Zenon

LEMMA PageStepOK ==
    ASSUME IInv, NEW va \in Va, NEW x, PageStep(va, x)
    PROVE  IInv' /\ View' = [View EXCEPT ![cur][va] = x]
<1> PICK p \in Pte, u \in Page :
       /\ PageBecomes(va, p, u)
       /\ \A f \in Frame : frame'[f].val # frame[f].val =>
             frame[f].refs = 0 \/ (frame[f].refs = 1 /\ task[cur].pages[va].f = f)
       /\ x = IF p = NoPte THEN Unmapped ELSE frame'[p.f].val
  BY DEF PageStep
<1>1. IInv'
  BY OnePageStep, Zenon
<1>2. task \in [Task -> TaskRecord] /\ cur \in Task /\ PagesOK(task, frame)
  BY DEF IInv, TypeOK, TaskRecord
<1>3. task[cur].pt \in [Va -> Pte]
  BY <1>2, Zenon DEF TaskRecord
<1>4. task'[cur].pt[va] = p
  BY <1>3 DEF PageBecomes, TableBecomes
<1>5. ASSUME NEW t \in Task, NEW v \in Va, ~(t = cur /\ v = va)
      PROVE  View'[t][v] = View[t][v]
  <2>1. task'[t].pt[v] = task[t].pt[v]
    BY <1>3, <1>5 DEF PageBecomes, TableBecomes
  <2>2. ASSUME task[t].pt[v] # NoPte
        PROVE  frame'[task[t].pt[v].f].val = frame[task[t].pt[v].f].val
    <3> DEFINE f == task[t].pt[v].f
    <3>1. f \in Frame /\ task[t].pages[v].f = f
      BY <1>2, <2>2 DEF PagesOK, Agree, TaskRecord, Pte
    <3>2. frame[f].refs # 0 /\ ~(frame[f].refs = 1 /\ task[cur].pages[va].f = f)
      BY <1>2, <1>5, <3>1, OnlyUser
    <3> QED BY <3>1, <3>2, Zenon
  <2> QED BY <2>1, <2>2, Zenon DEF View
<1>6. View'[cur][va] = x
  BY <1>2, <1>4, Zenon DEF View
<1>7. View' = [View EXCEPT ![cur][va] = x]
  <2>1. View = ViewOf(task, frame) /\ View' = ViewOf(task', frame')
    BY DEF View, ViewOf
  <2>2. View \in [Task -> [Va -> Value \cup {Unmapped}]]
    BY <1>2, <2>1, ViewType, Zenon DEF IInv, TypeOK
  <2>3. View' \in [Task -> [Va -> Value \cup {Unmapped}]]
    BY <2>1, ViewType, Zenon DEF PageBecomes, TableBecomes
  <2> QED BY <1>2, <1>5, <1>6, <2>2, <2>3, OneCell
<1> QED BY <1>1, <1>7, Zenon

\* Facts about a page of the running task that the actions use.
LEMMA PageFacts ==
    ASSUME IInv, NEW va \in Va
    PROVE  /\ task \in [Task -> TaskRecord] /\ cur \in Task
           /\ frame \in [Frame -> [refs : Nat, val : Value]]
           /\ task[cur].live /\ task[cur].fresh
           /\ task[cur].pages[va] \in Page /\ task[cur].pt[va] \in Pte
           /\ task[cur].pages[va] # NoPage =>
                /\ task[cur].pages[va] \in [f : Frame, intent : BOOLEAN]
                /\ task[cur].pt[va] # NoPte
                /\ task[cur].pt[va].f = task[cur].pages[va].f
                /\ frame[task[cur].pages[va].f].refs # 0
           /\ NoPage.f = Unmapped /\ Unmapped \notin Frame /\ Zero \in Value
<1>1. /\ task \in [Task -> TaskRecord] /\ cur \in Task
      /\ frame \in [Frame -> [refs : Nat, val : Value]]
      /\ task[cur].live /\ task[cur].fresh /\ PagesOK(task, frame)
  BY DEF IInv, TypeOK, TaskRecord
<1>2. task[cur].pages[va] \in Page /\ task[cur].pt[va] \in Pte
  BY <1>1 DEF TaskRecord
<1>3. ASSUME task[cur].pages[va] # NoPage
      PROVE  /\ task[cur].pages[va] \in [f : Frame, intent : BOOLEAN]
             /\ task[cur].pt[va] # NoPte
             /\ task[cur].pt[va].f = task[cur].pages[va].f
             /\ frame[task[cur].pages[va].f].refs # 0
  <2>1. task[cur].pages[va] \in [f : Frame, intent : BOOLEAN]
    BY <1>2, <1>3 DEF Page
  <2>2. task[cur].pt[va] # NoPte /\ task[cur].pt[va].f = task[cur].pages[va].f
    BY <1>1, <1>3 DEF PagesOK, Agree
  <2>3. task[cur].pages[va].f \in Frame
    BY <2>1, Zenon
  <2> QED BY <1>1, <2>1, <2>2, <2>3, OnlyUser
<1>4. NoPage.f = Unmapped /\ Unmapped \notin Frame /\ Zero \in Value
  BY VmAssumption DEF NoPage
<1> QED BY <1>1, <1>2, <1>3, <1>4, Zenon

LEMMA AnonFaultStep ==
    ASSUME IInv, NEW va \in Va, AnonFault(va)
    PROVE  PageStep(va, Zero) /\ task[cur].pt[va] = NoPte
<1> DEFINE w == task[cur].area[va] = "rw"
<1>1. PICK f \in FreeFrames :
        /\ frame' = [frame EXCEPT ![f] = [refs |-> 1, val |-> Zero]]
        /\ task' = [task EXCEPT ![cur].pt[va] = [f |-> f, w |-> w, cow |-> FALSE],
                                ![cur].pages[va] = [f |-> f, intent |-> w]]
  BY Zenon DEF AnonFault
<1>2. /\ task[cur].pages[va] = NoPage /\ task[cur].pt[va] = NoPte
      /\ tlb' = mmu_tlb_flush_va(tlb, va, task[cur].asid)
      /\ next' = next /\ cur' = cur
  BY DEF AnonFault
<1> DEFINE p == [f |-> f, w |-> w, cow |-> FALSE]
           u == [f |-> f, intent |-> w]
<1>3. f \in Frame /\ frame[f].refs = 0
  BY DEF FreeFrames
<1>4. w \in BOOLEAN
  OBVIOUS
<1> HIDE DEF w
<1>5. p \in Pte /\ u \in Page /\ p.f = f /\ u.f = f /\ p # NoPte /\ u # NoPage
  BY <1>3, <1>4, PageFacts, Zenon DEF Pte, Page, NoPte, NoPage
<1>6. Agree(p, u)
  BY <1>4, <1>5 DEF Agree
<1> HIDE DEF p, u
<1>7. /\ frame' \in [Frame -> [refs : Nat, val : Value]]
      /\ frame'[f].refs = 1 /\ frame'[f].val = Zero
      /\ \A g \in Frame : g # f => frame'[g] = frame[g]
  BY <1>1, <1>3, PageFacts, Zenon
<1>8. \A g \in Frame : frame'[g].refs = Moved(frame[g].refs, task[cur].pages[va].f, u.f, g)
  BY <1>2, <1>3, <1>5, <1>7, PageFacts DEF Moved
<1>9. TableBecomes(va, p, u)
  <2>1. task' = PageSet(task, cur, va, p, u)
    BY <1>1, Zenon DEF PageSet, p, u
  <2> QED BY <1>5, <2>1, PageFacts, PageSetIs DEF TableBecomes
<1>10. PageBecomes(va, p, u)
  BY <1>2, <1>3, <1>5, <1>6, <1>7, <1>8, <1>9, Zenon DEF PageBecomes
<1>11. \A g \in Frame : frame'[g].val # frame[g].val => frame[g].refs = 0
  BY <1>3, <1>7
<1>12. Zero = IF p = NoPte THEN Unmapped ELSE frame'[p.f].val
  BY <1>5, <1>7, Zenon
<1> QED BY <1>2, <1>5, <1>10, <1>11, <1>12, Zenon DEF PageStep

\* Over the task table K, which differs from the present one at most in the
\* areas of the running task.
SameTask(K) ==
    /\ K \in [Task -> TaskRecord]
    /\ \A t \in Task : t # cur => K[t] = task[t]
    /\ K[cur].live = task[cur].live /\ K[cur].fresh = task[cur].fresh
    /\ K[cur].asid = task[cur].asid
    /\ K[cur].pt = task[cur].pt /\ K[cur].pages = task[cur].pages

\* What PageBecomes asks of the task table, when it is K with page va set.
LEMMA PageSetStep ==
    ASSUME IInv, NEW va \in Va, NEW K, SameTask(K), NEW p \in Pte, NEW u \in Page,
           task' = PageSet(K, cur, va, p, u)
    PROVE  TableBecomes(va, p, u)
<1>1. K \in [Task -> TaskRecord] /\ cur \in Task /\ task[cur].live /\ task[cur].fresh
  BY Zenon DEF SameTask, IInv, TypeOK
<1>2. /\ task' \in [Task -> TaskRecord]
      /\ \A t \in Task : t # cur => task'[t] = K[t]
      /\ task'[cur].live = K[cur].live /\ task'[cur].fresh = K[cur].fresh
      /\ task'[cur].asid = K[cur].asid
      /\ task'[cur].pt = [K[cur].pt EXCEPT ![va] = p]
      /\ task'[cur].pages = [K[cur].pages EXCEPT ![va] = u]
  BY <1>1, PageSetIs
<1> QED BY <1>1, <1>2 DEF SameTask, TableBecomes

\* A page becomes writable: alone it keeps its frame, shared it gets a copy.
LEMMA UnshareStep ==
    ASSUME IInv, NEW va \in Va, NEW K, SameTask(K),
           task[cur].pages[va] # NoPage, Unshare(K, va), UNCHANGED <<cur, next>>
    PROVE  PageStep(va, frame[task[cur].pages[va].f].val)
<1> DEFINE f == task[cur].pages[va].f
           P(g) == [f |-> g, w |-> TRUE, cow |-> FALSE]
           U(g) == [f |-> g, intent |-> TRUE]
<1>1. /\ f \in Frame /\ frame[f].refs # 0
      /\ frame \in [Frame -> [refs : Nat, val : Value]] /\ Unmapped \notin Frame
  BY PageFacts
<1>2. ASSUME NEW g \in Frame
      PROVE  /\ P(g) \in Pte /\ U(g) \in Page /\ P(g).f = g /\ U(g).f = g
             /\ P(g) # NoPte /\ Agree(P(g), U(g))
  <2>1. P(g) \in Pte /\ U(g) \in Page /\ P(g).f = g /\ U(g).f = g
        /\ P(g).w /\ ~P(g).cow /\ U(g).intent
    BY DEF Pte, Page
  <2>2. P(g) # NoPte /\ U(g) # NoPage
    BY <1>1, <2>1, Zenon DEF NoPte, NoPage
  <2> HIDE DEF P, U
  <2> QED BY <2>1, <2>2 DEF Agree
<1>3. ASSUME NEW g \in Frame, Remap(K, va, g)
      PROVE  /\ task' = PageSet(K, cur, va, P(g), U(g))
             /\ tlb' = mmu_tlb_flush_va(tlb, va, task[cur].asid)
  BY <1>3, Zenon DEF Remap, PageSet
<1> HIDE DEF f, P, U
<1>4. CASE frame[f].refs = 1 /\ Remap(K, va, f) /\ UNCHANGED frame
  <2>1. \A g \in Frame : frame'[g].refs = Moved(frame[g].refs, f, U(f).f, g)
    BY <1>1, <1>2, <1>4, Zenon DEF Moved
  <2>2. PageBecomes(va, P(f), U(f))
    <3>1. TableBecomes(va, P(f), U(f))
      BY <1>1, <1>2, <1>3, <1>4, PageSetStep, Zenon
    <3> QED BY <1>1, <1>2, <1>3, <1>4, <2>1, <3>1, Zenon DEF PageBecomes, f
  <2>3. frame[f].val = IF P(f) = NoPte THEN Unmapped ELSE frame'[P(f).f].val
    BY <1>1, <1>2, <1>4, Zenon
  <2> QED BY <1>1, <1>2, <1>4, <2>2, <2>3, Zenon DEF PageStep, f
<1>5. ASSUME frame[f].refs > 1, NEW g \in FreeFrames, Remap(K, va, g),
             frame' = [frame EXCEPT ![g] = [refs |-> 1, val |-> frame[f].val],
                                    ![f] = Dropped(f, 1)]
      PROVE  PageStep(va, frame[f].val)
  <2>0. g \in Frame /\ frame[g].refs = 0 /\ g # f
    BY <1>5 DEF FreeFrames
  <2>a. Dropped(f, 1) = [refs |-> frame[f].refs - 1, val |-> frame[f].val]
    BY <1>5 DEF Dropped
  <2>1. /\ frame' \in [Frame -> [refs : Nat, val : Value]]
        /\ frame'[g].refs = 1 /\ frame'[g].val = frame[f].val
        /\ frame'[f].refs = frame[f].refs - 1 /\ frame'[f].val = frame[f].val
        /\ \A h \in Frame : h # f /\ h # g => frame'[h] = frame[h]
    BY <1>1, <1>5, <2>0, <2>a
  <2>2. \A h \in Frame : frame'[h].refs = Moved(frame[h].refs, f, U(g).f, h)
    BY <1>1, <1>2, <2>0, <2>1 DEF Moved
  <2>3. PageBecomes(va, P(g), U(g))
    <3>1. TableBecomes(va, P(g), U(g))
      BY <1>2, <1>3, <1>5, <2>0, PageSetStep
    <3> QED BY <1>2, <1>3, <1>5, <2>0, <2>1, <2>2, <3>1, ZenonT(40) DEF PageBecomes, f
  <2>4. \A h \in Frame : frame'[h].val # frame[h].val => frame[h].refs = 0
    BY <2>0, <2>1
  <2>5. frame[f].val = IF P(g) = NoPte THEN Unmapped ELSE frame'[P(g).f].val
    BY <1>2, <2>0, <2>1, Zenon
  <2> QED BY <1>2, <2>0, <2>3, <2>4, <2>5, Zenon DEF PageStep
<1> QED BY <1>4, <1>5, Zenon DEF Unshare, f

\* mprotect takes the write permission away.
LEMMA ReadOnlyStep ==
    ASSUME IInv, NEW va \in Va, NEW K, SameTask(K), task[cur].pages[va] # NoPage,
           LET f == task[cur].pages[va].f
           IN task' = PageSet(K, cur, va, [f |-> f, w |-> FALSE, cow |-> FALSE],
                                          [f |-> f, intent |-> FALSE]),
           tlb' = mmu_tlb_flush_va(tlb, va, task[cur].asid),
           UNCHANGED <<frame, cur, next>>
    PROVE  PageStep(va, frame[task[cur].pages[va].f].val)
<1> DEFINE f == task[cur].pages[va].f
           p == [f |-> f, w |-> FALSE, cow |-> FALSE]
           u == [f |-> f, intent |-> FALSE]
<1>1. /\ f \in Frame /\ frame[f].refs # 0 /\ task[cur].pages[va] \in [f : Frame, intent : BOOLEAN]
      /\ frame \in [Frame -> [refs : Nat, val : Value]] /\ Unmapped \notin Frame
  BY PageFacts, Zenon
<1>2. /\ p \in Pte /\ u \in Page /\ p.f = f /\ u.f = f
      /\ ~p.w /\ ~p.cow /\ ~u.intent
  BY <1>1, Zenon DEF Pte, Page
<1>3. p # NoPte /\ u # NoPage
  BY <1>1, <1>2 DEF NoPte, NoPage
<1>5. task' = PageSet(K, cur, va, p, u)
  OBVIOUS
<1> HIDE DEF f, p, u
<1>6. Agree(p, u)
  BY <1>2, <1>3, Zenon DEF Agree
<1>7. \A g \in Frame : frame'[g].refs = Moved(frame[g].refs, f, u.f, g)
  BY <1>1, <1>2, ZenonT(40) DEF Moved
<1>8. PageBecomes(va, p, u)
  <2>1. TableBecomes(va, p, u)
    BY <1>2, <1>5, PageSetStep, ZenonT(40)
  <2> QED BY <1>1, <1>2, <1>6, <1>7, <2>1, Zenon DEF PageBecomes, f
<1>9. frame[f].val = IF p = NoPte THEN Unmapped ELSE frame'[p.f].val
  BY <1>2, <1>3, Zenon
<1> QED BY <1>2, <1>8, <1>9, ZenonT(40) DEF PageStep, f

\* munmap of a page that was mapped.
LEMMA MunmapStep ==
    ASSUME IInv, NEW va \in Va, Munmap(va), task[cur].pages[va] # NoPage
    PROVE  PageStep(va, Unmapped)
<1> DEFINE f == task[cur].pages[va].f
           K == AreaSet(task, cur, va, "none")
<1>1. /\ f \in Frame /\ frame[f].refs # 0 /\ task \in [Task -> TaskRecord] /\ cur \in Task
      /\ frame \in [Frame -> [refs : Nat, val : Value]] /\ Unmapped \notin Frame
      /\ Zero \in Value
  BY PageFacts, Zenon
<1>2. NoPte \in Pte /\ NoPage \in Page /\ NoPage.f = Unmapped /\ ~NoPte.w /\ Agree(NoPte, NoPage)
  BY DEF Pte, Page, NoPte, NoPage, Agree
<1>3. /\ task' = PageSet(K, cur, va, NoPte, NoPage)
      /\ frame' = [frame EXCEPT ![f] = Dropped(f, 1)]
      /\ tlb' = mmu_tlb_flush_va(tlb, va, task[cur].asid)
      /\ cur' = cur /\ next' = next
  BY Zenon DEF Munmap, PageSet, AreaSet
<1>4. SameTask(K)
  BY <1>1, AreaSetIs DEF SameTask
<1> HIDE DEF f, K
<1>5. TableBecomes(va, NoPte, NoPage)
  BY <1>2, <1>3, <1>4, PageSetStep, Zenon
<1>6. Dropped(f, 1).refs = frame[f].refs - 1 /\ Dropped(f, 1) \in [refs : Nat, val : Value]
      /\ (frame[f].refs # 1 => Dropped(f, 1).val = frame[f].val)
  BY <1>1 DEF Dropped
<1>7. /\ frame' \in [Frame -> [refs : Nat, val : Value]]
      /\ frame'[f] = Dropped(f, 1)
      /\ \A g \in Frame : g # f => frame'[g] = frame[g]
  BY <1>1, <1>3, <1>6
<1>8. \A g \in Frame : frame'[g].refs = Moved(frame[g].refs, f, NoPage.f, g)
  BY <1>1, <1>2, <1>6, <1>7, Zenon DEF Moved
<1>9. PageBecomes(va, NoPte, NoPage)
  BY <1>1, <1>2, <1>3, <1>5, <1>7, <1>8, Zenon DEF PageBecomes, f
<1>10. \A g \in Frame : frame'[g].val # frame[g].val => frame[g].refs = 1 /\ g = f
  BY <1>6, <1>7, Zenon
<1> QED BY <1>2, <1>9, <1>10, Zenon DEF PageStep, f

\* Only the areas change.
LEMMA QuietStep ==
    ASSUME IInv, SameTask(task'), UNCHANGED <<frame, cur, next, tlb>>
    PROVE  IInv' /\ View' = View
<1>1. /\ task \in [Task -> TaskRecord] /\ cur \in Task /\ task[cur].live /\ task[cur].fresh
      /\ PagesOK(task, frame) /\ TagsOK(Now)
  BY DEF IInv, TypeOK, TaskRecord
<1>2. \A t \in Task : /\ task'[t].live = task[t].live /\ task'[t].fresh = task[t].fresh
                      /\ task'[t].asid = task[t].asid
                      /\ task'[t].pt = task[t].pt /\ task'[t].pages = task[t].pages
  BY DEF SameTask
<1>3. TypeOK'
  BY DEF IInv, TypeOK, SameTask, TaskRecord
<1>4. PagesOK(task', frame')
  <2>1. ASSUME NEW f PROVE Users(task', f) = Users(task, f)
    BY <1>2, Zenon DEF Users
  <2> QED BY <1>1, <1>2, <2>1 DEF PagesOK
<1>5. TagsOK(Now)'
  BY <1>1, <1>2 DEF TagsOK, Now
<1>6. View' = View
  BY <1>2 DEF View
<1>7. \A t \in Task, va \in Va : ~task'[t].live => task'[t].pages[va] = NoPage
  BY <1>2 DEF IInv
<1> QED BY <1>1, <1>2, <1>3, <1>4, <1>5, <1>6, <1>7, Zenon DEF IInv

\* The processor caches a descriptor.
LEMMA TlbFillStep ==
    ASSUME IInv, NEW va \in Va, TlbFill(va)
    PROVE  IInv' /\ View' = View
<1> DEFINE p == task[cur].pt[va]
           e == [asid |-> task[cur].asid, va |-> va, f |-> p.f, w |-> p.w]
<1>1. /\ task \in [Task -> TaskRecord] /\ cur \in Task /\ task[cur].live /\ task[cur].fresh
      /\ TagsOK(Now)
  BY DEF IInv, TypeOK, TaskRecord
<1>2. /\ p # NoPte /\ tlb' = tlb \cup {e}
      /\ task' = task /\ frame' = frame /\ cur' = cur /\ next' = next
  BY DEF TlbFill
<1>3. p \in [f : Frame, w : BOOLEAN, cow : BOOLEAN] /\ task[cur].asid \in Asid
  BY <1>1, <1>2 DEF TaskRecord, Pte
<1>4. e \in Translation /\ e.asid = task[cur].asid /\ e.va = va /\ e.f = p.f /\ e.w = p.w
  BY <1>3, Zenon DEF Translation
<1> HIDE DEF e
<1>5. TypeOK'
  BY <1>2, <1>4 DEF IInv, TypeOK
<1>6. TagsOK(Now)'
  <2>1. e.asid < next
    BY <1>1, <1>4 DEF TagsOK, Now
  <2>2. ASSUME NEW t \in Task, task[t].live /\ task[t].fresh /\ task[t].asid = e.asid
        PROVE  task[t].pt[e.va].f = e.f /\ task[t].pt[e.va].w = e.w
    <3>1. t = cur
      BY <1>1, <1>4, <2>2 DEF TagsOK, Now
    <3> QED BY <1>4, <3>1, Zenon
  <2>3. Now'.task = task /\ Now'.next = next /\ Now'.tlb = tlb \cup {e}
    BY <1>2 DEF Now
  <2>4. ASSUME NEW d \in tlb \cup {e}
        PROVE  /\ d.asid < next
               /\ \A t \in Task : task[t].live /\ task[t].fresh /\ task[t].asid = d.asid =>
                     task[t].pt[d.va].f = d.f /\ task[t].pt[d.va].w = d.w
    <3>1. CASE d = e
      BY <2>1, <2>2, <3>1, Zenon
    <3>2. CASE d \in tlb
      BY <1>1, <3>2, Zenon DEF TagsOK, Now
    <3> QED BY <3>1, <3>2
  <2>5. /\ \A t \in Task : task[t].live /\ task[t].fresh => task[t].asid < next
        /\ \A t, u \in Task : /\ t # u
                              /\ task[t].live /\ task[t].fresh
                              /\ task[u].live /\ task[u].fresh
                              => task[t].asid # task[u].asid
    BY <1>1 DEF TagsOK, Now
  <2> QED BY <2>3, <2>4, <2>5, Zenon DEF TagsOK
<1> QED BY <1>2, <1>5, <1>6, Zenon DEF IInv, View

\* A store reaches a frame that only the page it was addressed to maps.
LEMMA StoreStep ==
    ASSUME IInv, NEW va \in Va, NEW v \in Value, Store(va, v)
    PROVE  /\ IInv' /\ View' = [View EXCEPT ![cur][va] = v]
           /\ View[cur][va] # Unmapped
<1>1. PICK e \in Translations(va) : e.w /\ frame' = [frame EXCEPT ![e.f].val = v]
  BY Zenon DEF Store
<1>2. task' = task /\ cur' = cur /\ next' = next /\ tlb' = tlb
  BY DEF Store
<1>3. /\ task \in [Task -> TaskRecord] /\ cur \in Task /\ task[cur].live /\ task[cur].fresh
      /\ PagesOK(task, frame) /\ TagsOK(Now) /\ Unmapped \notin Value \cup Frame
      /\ frame \in [Frame -> [refs : Nat, val : Value]] /\ tlb \subseteq Translation
  BY VmAssumption DEF IInv, TypeOK, TaskRecord
<1> DEFINE p == task[cur].pt[va]
           f == p.f
<1>4. p.f = e.f /\ p.w
  <2>1. CASE e \in tlb
    <3>1. e.asid = task[cur].asid /\ e.va = va
      BY <2>1, <1>1 DEF Translations
    <3> QED BY <1>1, <1>3, <2>1, <3>1, Zenon DEF TagsOK, Now
  <2>2. CASE e \notin tlb
    BY <1>1, <2>2 DEF Translations
  <2> QED BY <2>1, <2>2
<1>5. p # NoPte
  BY <1>4, ClosedPte, Zenon
<1>6. f \in Frame /\ task[cur].pages[va].f = f /\ frame[f].refs = 1
  BY <1>3, <1>4, <1>5 DEF PagesOK, Agree, TaskRecord, Pte
<1>7. \A t \in Task, u \in Va : task[t].pages[u].f = f => t = cur /\ u = va
  BY <1>3, <1>6, OnlyUser
<1>8. /\ frame' \in [Frame -> [refs : Nat, val : Value]]
      /\ \A g \in Frame : frame'[g].refs = frame[g].refs
      /\ \A g \in Frame : g # f => frame'[g].val = frame[g].val
      /\ frame'[f].val = v
  BY <1>1, <1>3, <1>4, <1>6
<1>9. IInv'
  <2>1. TypeOK'
    BY <1>2, <1>8 DEF IInv, TypeOK
  <2>2. ASSUME NEW t \in Task, NEW u \in Va, task[t].pt[u].w
        PROVE  frame'[task[t].pt[u].f].refs = 1
    <3>1. task[t].pt[u] # NoPte
      BY <2>2, ClosedPte, Zenon
    <3>2. task[t].pt[u].f \in Frame
      BY <1>3, <3>1 DEF TaskRecord, Pte
    <3> QED BY <1>3, <1>8, <2>2, <3>2, Zenon DEF PagesOK
  <2>3. PagesOK(task', frame')
    BY <1>2, <1>3, <1>8, <2>2, Zenon DEF PagesOK
  <2>4. Now' = Now
    BY <1>2, Zenon DEF Now
  <2>5. TagsOK(Now')
    BY <1>3, <2>4, Zenon
  <2> QED BY <1>2, <2>1, <2>3, <2>5, Zenon DEF IInv
<1>10. View[cur][va] # Unmapped
  <2>1. View[cur][va] = frame[f].val
    BY <1>3, <1>5, Zenon DEF View
  <2> QED BY <1>3, <1>6, <2>1
<1>11. ASSUME NEW t \in Task, NEW u \in Va, ~(t = cur /\ u = va)
       PROVE  View'[t][u] = View[t][u]
  <2>1. ASSUME task[t].pt[u] # NoPte
        PROVE  frame'[task[t].pt[u].f].val = frame[task[t].pt[u].f].val
    <3>1. task[t].pt[u].f \in Frame /\ task[t].pages[u].f = task[t].pt[u].f
      BY <1>3, <2>1 DEF PagesOK, Agree, TaskRecord, Pte
    <3>2. task[t].pt[u].f # f
      BY <1>7, <1>11, <3>1, Zenon
    <3> QED BY <1>8, <3>1, <3>2, Zenon
  <2> QED BY <1>2, <2>1 DEF View
<1>12. View'[cur][va] = v
  BY <1>2, <1>3, <1>5, <1>8, Zenon DEF View
<1>13. View' = [View EXCEPT ![cur][va] = v]
  <2>1. View = ViewOf(task, frame) /\ View' = ViewOf(task', frame')
    BY DEF View, ViewOf
  <2>2. View \in [Task -> [Va -> Value \cup {Unmapped}]]
    BY <1>3, <2>1, ViewType, Zenon
  <2>3. View' \in [Task -> [Va -> Value \cup {Unmapped}]]
    BY <1>2, <1>3, <1>8, <2>1, ViewType, Zenon
  <2> QED BY <1>3, <1>11, <1>12, <2>2, <2>3, OneCell
<1> QED BY <1>9, <1>10, <1>13, Zenon
=============================================================================

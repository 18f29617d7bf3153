------------------------------ MODULE VmProofs -------------------------------
(***************************************************************************)
(* Proofs about private memory: the counts of the frames, the coherence of *)
(* the TLB and the isolation of the tasks, for every number of tasks,      *)
(* pages, frames and address-space identifiers.                            *)
(***************************************************************************)
EXTENDS VmLemmas

\* fork.

LEMMA SharedIs ==
    ASSUME NEW u \in Page
    PROVE  /\ u # NoPage => /\ Shared(u) \in Pte /\ Shared(u) # NoPte
                            /\ Shared(u).f = u.f /\ u.f \in Frame
                            /\ Agree(Shared(u), u)
           /\ ~Shared(u).w
<1>1. ~Shared(u).w /\ Shared(u).f = u.f /\ Shared(u).cow = u.intent
  BY DEF Shared
<1>2. ASSUME u # NoPage
      PROVE  /\ Shared(u) \in Pte /\ Shared(u) # NoPte /\ u.f \in Frame
             /\ Agree(Shared(u), u)
  <2>1. u \in [f : Frame, intent : BOOLEAN]
    BY <1>2, Zenon DEF Page
  <2>2. Shared(u) \in Pte /\ u.f \in Frame
    BY <2>1, Zenon DEF Shared, Pte
  <2>3. Shared(u) # NoPte
    BY <1>1, <2>2, VmAssumption DEF NoPte
  <2> QED BY <1>1, <1>2, <2>1, <2>2, <2>3 DEF Agree
<1> QED BY <1>1, <1>2, Zenon

\* Replacing a task's page table leaves the rest of it alone.
LEMMA PtSetIs ==
    ASSUME NEW r \in TaskRecord, NEW q \in [Va -> Pte]
    PROVE  LET w == [r EXCEPT !.pt = q]
           IN /\ w \in TaskRecord /\ w.live = r.live /\ w.fresh = r.fresh
              /\ w.asid = r.asid /\ w.pt = q /\ w.pages = r.pages
BY DEF TaskRecord

\* The tables after fork: S is what the child gets, P what the parent keeps, and K
\* the tables with an identifier left for the child.
ForkTables(K, c, S, P) ==
    /\ TagsOK(K) /\ K.next <= TASK_ASID_MAX /\ SameMemory(task, K.task)
    /\ task' \in [Task -> TaskRecord]
    /\ \A t \in Task : t # c /\ t # cur => task'[t] = K.task[t]
    /\ task'[c].live /\ task'[c].fresh /\ task'[c].asid = K.next
    /\ task'[c].pt = S /\ task'[c].pages = task[cur].pages
    /\ K.task[cur].fresh
    /\ task'[cur].live /\ task'[cur].fresh /\ task'[cur].asid = K.task[cur].asid
    /\ task'[cur].pt = P /\ task'[cur].pages = task[cur].pages
    /\ next' = K.next + 1
    /\ \A e \in tlb' : e \in K.tlb /\ (e.asid = K.task[cur].asid => P[e.va] = task[cur].pt[e.va])

LEMMA ForkTablesOK ==
    ASSUME IInv, NEW c \in Task, Fork(c)
    PROVE  LET S == [va \in Va |-> IF va \in Mapped(cur) THEN Shared(task[cur].pages[va]) ELSE NoPte]
               D == {va \in Mapped(cur) : task[cur].pages[va].intent /\ ~task[cur].pt[va].cow}
               P == [va \in Va |-> IF va \in D THEN S[va] ELSE task[cur].pt[va]]
           IN \E K \in KType : ForkTables(K, c, S, P)
<1> DEFINE S == [va \in Va |-> IF va \in Mapped(cur) THEN Shared(task[cur].pages[va]) ELSE NoPte]
           D == {va \in Mapped(cur) : task[cur].pages[va].intent /\ ~task[cur].pt[va].cow}
           P == [va \in Va |-> IF va \in D THEN S[va] ELSE task[cur].pt[va]]
           M == task_alloc_asid(Now, cur)
           K == Tag(M, c)
           child == [task[cur] EXCEPT !.asid = K.task[c].asid, !.fresh = TRUE, !.pt = S]
<1>1. /\ task \in [Task -> TaskRecord] /\ cur \in Task /\ task[cur].live /\ task[cur].fresh
      /\ TagsOK(Now) /\ Now \in KType /\ Now.task = task /\ Now.tlb = tlb
  BY DEF IInv, TypeOK, TaskRecord, KType, Now
<1>2. ~task[c].live /\ c # cur
  BY <1>1, Zenon DEF Fork
<1>3. /\ M \in KType /\ TagsOK(M) /\ M.next <= TASK_ASID_MAX
      /\ SameMemory(task, M.task) /\ M.task[cur].fresh
  BY <1>1, AllocAsidOK, Zenon
<1>4. /\ task' = [K.task EXCEPT ![c] = child,
                    ![cur].pt = [va \in Va |-> IF va \in D THEN S[va] ELSE @[va]]]
      /\ next' = K.next
      /\ tlb' = {e \in K.tlb : ~(e.asid = K.task[cur].asid /\ e.va \in D)}
  BY Zenon DEF Fork, task_fork
<1>5. S \in [Va -> Pte]
  <2>1. \A va \in Va : task[cur].pages[va] \in Page
    BY <1>1 DEF TaskRecord
  <2>2. NoPte \in Pte
    BY DEF Pte
  <2> QED BY <2>1, <2>2, SharedIs, Zenon DEF Mapped
<1>6. P \in [Va -> Pte] /\ \A va \in Va \ D : P[va] = task[cur].pt[va]
  <2> HIDE DEF S, D
  <2> QED BY <1>1, <1>5 DEF TaskRecord
<1> HIDE DEF M
<1>7. /\ K \in KType /\ K.tlb = M.tlb /\ K.next = M.next + 1
      /\ SameMemory(M.task, K.task)
      /\ K.task[c].fresh /\ K.task[c].asid = M.next
      /\ \A u \in Task : u # c => K.task[u] = M.task[u]
  BY <1>3, TagOK, Zenon
<1> HIDE DEF K, S
<1>8. K.task \in [Task -> TaskRecord] /\ K.task[c].asid \in Asid /\ M.next \in Nat
      /\ K.tlb \subseteq Translation
  BY <1>3, <1>7 DEF KType, TaskRecord
<1>9. /\ child \in TaskRecord /\ child.live = task[cur].live /\ child.fresh
      /\ child.asid = K.task[c].asid /\ child.pt = S /\ child.pages = task[cur].pages
  BY <1>1, <1>5, <1>8, ZenonT(40) DEF TaskRecord
<1> HIDE DEF child
<1>10. K.task[cur] = M.task[cur] /\ K.task[cur].pt = task[cur].pt
       /\ K.task[cur].live = task[cur].live /\ K.task[cur].pages = task[cur].pages
  BY <1>1, <1>2, <1>3, <1>7, Zenon DEF SameMemory
<1>11. task' = [K.task EXCEPT ![c] = child, ![cur].pt = P]
  <2>1. [K.task EXCEPT ![c] = child][cur].pt = task[cur].pt
    BY <1>1, <1>2, <1>8, <1>10, Zenon
  <2> QED BY <1>4, <2>1
<1> HIDE DEF P
<1>12. /\ task' \in [Task -> TaskRecord]
       /\ \A t \in Task : t # c /\ t # cur => task'[t] = K.task[t]
       /\ task'[c] = child
       /\ task'[cur].live = K.task[cur].live /\ task'[cur].fresh = K.task[cur].fresh
       /\ task'[cur].asid = K.task[cur].asid
       /\ task'[cur].pt = P /\ task'[cur].pages = K.task[cur].pages
  <2> DEFINE row == [K.task[cur] EXCEPT !.pt = P]
             T == [K.task EXCEPT ![c] = child]
  <2>1. T \in [Task -> TaskRecord] /\ T[cur] = K.task[cur] /\ T[c] = child
        /\ \A t \in Task : t # c => T[t] = K.task[t]
    BY <1>1, <1>2, <1>8, <1>9, Zenon
  <2>2. task' = [T EXCEPT ![cur] = row]
    BY <1>11, <2>1, Zenon
  <2>3. /\ row \in TaskRecord /\ row.live = K.task[cur].live /\ row.fresh = K.task[cur].fresh
        /\ row.asid = K.task[cur].asid /\ row.pt = P /\ row.pages = K.task[cur].pages
    <3>1. K.task[cur] \in TaskRecord /\ P \in [Va -> Pte]
      BY <1>1, <1>6, <1>8, Zenon
    <3> QED BY <3>1, PtSetIs, Zenon
  <2> HIDE DEF row, T
  <2>4. /\ task' \in [Task -> TaskRecord]
        /\ \A t \in Task : t # cur => task'[t] = T[t]
        /\ task'[cur] = row
    BY <1>1, <2>1, <2>2, <2>3, Zenon
  <2> QED BY <1>2, <2>1, <2>3, <2>4, Zenon
<1>13. \A e \in tlb' : e \in M.tlb /\ (e.asid = M.task[cur].asid => P[e.va] = task[cur].pt[e.va])
  BY <1>4, <1>6, <1>7, <1>8, <1>10 DEF Translation
<1>14. /\ \A t \in Task : t # c /\ t # cur => task'[t] = M.task[t]
       /\ task'[c].live /\ task'[c].fresh /\ task'[c].asid = M.next
       /\ task'[c].pt = S /\ task'[c].pages = task[cur].pages
  BY <1>1, <1>7, <1>9, <1>12, Zenon
<1>15. /\ task'[cur].live /\ task'[cur].fresh /\ task'[cur].asid = M.task[cur].asid
       /\ task'[cur].pt = P /\ task'[cur].pages = task[cur].pages
       /\ next' = M.next + 1
  BY <1>1, <1>3, <1>4, <1>7, <1>10, <1>12, Zenon
<1>16. ForkTables(M, c, S, P)
  BY <1>3, <1>12, <1>13, <1>14, <1>15, Zenon DEF ForkTables
<1> QED BY <1>3, <1>16, Zenon DEF S, P

\* The descriptors of a page that parent and child now share: neither can write.
SharedPte(s, p, u) ==
    /\ Agree(s, u) /\ ~s.w
    /\ Agree(p, u) /\ ~p.w

LEMMA ForkPtes ==
    ASSUME IInv, NEW va \in Va
    PROVE  LET S == [v \in Va |-> IF v \in Mapped(cur) THEN Shared(task[cur].pages[v]) ELSE NoPte]
               D == {v \in Mapped(cur) : task[cur].pages[v].intent /\ ~task[cur].pt[v].cow}
               P == [v \in Va |-> IF v \in D THEN S[v] ELSE task[cur].pt[v]]
           IN SharedPte(S[va], P[va], task[cur].pages[va])
<1> DEFINE u == task[cur].pages[va]
           q == task[cur].pt[va]
           S == [v \in Va |-> IF v \in Mapped(cur) THEN Shared(task[cur].pages[v]) ELSE NoPte]
           D == {v \in Mapped(cur) : task[cur].pages[v].intent /\ ~task[cur].pt[v].cow}
           P == [v \in Va |-> IF v \in D THEN S[v] ELSE task[cur].pt[v]]
<1>1. u \in Page /\ q \in Pte /\ Agree(q, u)
  BY PageFacts, Zenon DEF IInv, PagesOK
<1>2. S[va] = (IF u # NoPage THEN Shared(u) ELSE NoPte)
  BY DEF Mapped
<1>3. P[va] = (IF u # NoPage /\ u.intent /\ ~q.cow THEN S[va] ELSE q)
  BY DEF Mapped
<1> HIDE DEF S, D, P, u, q
<1>4. Agree(S[va], u) /\ ~S[va].w
  <2>1. CASE u = NoPage
    BY <1>2, <2>1 DEF Agree, NoPte
  <2>2. CASE u # NoPage
    BY <1>1, <1>2, <2>2, SharedIs, Zenon
  <2> QED BY <2>1, <2>2, Zenon
<1>5. Agree(P[va], u) /\ ~P[va].w
  <2>1. CASE u # NoPage /\ u.intent /\ ~q.cow
    BY <1>3, <1>4, <2>1, Zenon
  <2>2. CASE ~(u # NoPage /\ u.intent /\ ~q.cow)
    <3>1. P[va] = q
      BY <1>3, <2>2, Zenon
    <3>2. ~q.w
      BY <1>1, <2>2 DEF Agree, NoPte
    <3> QED BY <1>1, <3>1, <3>2, Zenon
  <2> QED BY <2>1, <2>2, Zenon
<1> QED BY <1>4, <1>5, Zenon DEF SharedPte, u, S, D, P

\* The identifiers after fork.
LEMMA ForkTagsOK ==
    ASSUME IInv, NEW c \in Task, ~task[c].live, NEW S, NEW P,
           NEW K \in KType, ForkTables(K, c, S, P)
    PROVE  TagsOK(Now')
<1>1. /\ TagsOK(K) /\ SameMemory(task, K.task) /\ K.next \in Nat
      /\ K.tlb \subseteq Translation /\ K.task \in [Task -> TaskRecord]
      /\ c # cur /\ cur \in Task /\ task[cur].live
  BY VmAssumption DEF ForkTables, KType, IInv, TypeOK
<1>2. /\ \A t \in Task : t # c /\ t # cur => task'[t] = K.task[t]
      /\ task'[c].asid = K.next
      /\ task'[cur].asid = K.task[cur].asid /\ K.task[cur].fresh /\ K.task[cur].live
      /\ task'[cur].pt = P
      /\ next' = K.next + 1
      /\ \A e \in tlb' : e \in K.tlb /\ (e.asid = K.task[cur].asid => P[e.va] = K.task[cur].pt[e.va])
  BY <1>1 DEF ForkTables, SameMemory
<1>3. \A t \in Task : K.task[t].asid \in Nat
  BY <1>1 DEF TaskRecord, Asid
<1>4. \A e \in K.tlb : e.asid \in Nat /\ e.asid < K.next
  BY <1>1 DEF Translation, Asid, TagsOK
<1>5. \A t \in Task : t # c =>
         /\ task'[t].asid = K.task[t].asid
         /\ task'[t].live /\ task'[t].fresh =>
              K.task[t].live /\ K.task[t].fresh /\ K.task[t].asid < K.next
  BY <1>1, <1>2, Zenon DEF TagsOK
<1>6. \A t \in Task : task'[t].live /\ task'[t].fresh => task'[t].asid < next'
  BY <1>1, <1>2, <1>3, <1>5
<1>7. \A e \in tlb' : e.asid < next'
  BY <1>1, <1>2, <1>4
<1>8. ASSUME NEW t \in Task, NEW u \in Task, t # u,
             task'[t].live /\ task'[t].fresh, task'[u].live /\ task'[u].fresh
      PROVE  task'[t].asid # task'[u].asid
  <2>1. CASE t = c
    BY <1>1, <1>2, <1>3, <1>5, <1>8, <2>1
  <2>2. CASE u = c
    BY <1>1, <1>2, <1>3, <1>5, <1>8, <2>2
  <2>3. CASE t # c /\ u # c
    BY <1>1, <1>5, <1>8, <2>3 DEF TagsOK
  <2> QED BY <2>1, <2>2, <2>3, Zenon
<1>9. ASSUME NEW e \in tlb', NEW t \in Task,
             task'[t].live /\ task'[t].fresh, task'[t].asid = e.asid
      PROVE  task'[t].pt[e.va].f = e.f /\ task'[t].pt[e.va].w = e.w
  <2>1. e \in K.tlb /\ t # c
    BY <1>1, <1>2, <1>4, <1>9
  <2>2. K.task[t].pt[e.va].f = e.f /\ K.task[t].pt[e.va].w = e.w
    BY <1>1, <1>5, <1>9, <2>1 DEF TagsOK
  <2>3. task'[t].pt[e.va] = K.task[t].pt[e.va]
    BY <1>2, <1>5, <1>9, <2>1, Zenon
  <2> QED BY <2>2, <2>3, Zenon
<1>10. Now'.task = task' /\ Now'.next = next' /\ Now'.tlb = tlb'
  BY DEF Now
<1> QED BY <1>6, <1>7, <1>8, <1>9, <1>10 DEF TagsOK

\* fork: the child finds what the parent finds, and nobody else notices.
LEMMA ForkStep ==
    ASSUME IInv, NEW c \in Task, Fork(c)
    PROVE  /\ IInv' /\ cur' = cur /\ c # cur
           /\ \A v \in Va : View[c][v] = Unmapped
           /\ View' = [View EXCEPT ![c] = View[cur]]
<1> DEFINE S == [v \in Va |-> IF v \in Mapped(cur) THEN Shared(task[cur].pages[v]) ELSE NoPte]
           D == {v \in Mapped(cur) : task[cur].pages[v].intent /\ ~task[cur].pt[v].cow}
           P == [v \in Va |-> IF v \in D THEN S[v] ELSE task[cur].pt[v]]
<1>1. PICK K \in KType : ForkTables(K, c, S, P)
  BY ForkTablesOK, Zenon
<1>2. \A v \in Va : SharedPte(S[v], P[v], task[cur].pages[v])
  BY ForkPtes
<1> HIDE DEF S, D, P
<1>3. /\ ~task[c].live /\ cur' = cur
      /\ frame' = [f \in Frame |-> [frame[f] EXCEPT !.refs = @ + Holds(cur, f)]]
  BY Zenon DEF Fork, task_fork
<1>4. /\ task \in [Task -> TaskRecord] /\ cur \in Task /\ task[cur].live
      /\ frame \in [Frame -> [refs : Nat, val : Value]]
      /\ PagesOK(task, frame) /\ c # cur /\ Unmapped \notin Frame
  BY <1>3, VmAssumption, Zenon DEF IInv, TypeOK, TaskRecord
<1>5. /\ task' \in [Task -> TaskRecord]
      /\ \A t \in Task : t # c /\ t # cur =>
           /\ task'[t].live = task[t].live /\ task'[t].pt = task[t].pt
           /\ task'[t].pages = task[t].pages
      /\ task'[c].live /\ task'[c].pt = S /\ task'[c].pages = task[cur].pages
      /\ task'[cur].live /\ task'[cur].fresh /\ task'[cur].pt = P
      /\ task'[cur].pages = task[cur].pages
  BY <1>1 DEF ForkTables, SameMemory
<1>6. \A f \in Frame : Holds(cur, f) \in Nat
  BY <1>4, RowCount, Zenon DEF Holds
<1>7. /\ frame' \in [Frame -> [refs : Nat, val : Value]]
      /\ \A f \in Frame : /\ frame'[f].refs = frame[f].refs + Holds(cur, f)
                          /\ frame'[f].val = frame[f].val
  BY <1>3, <1>4, <1>6
<1>8. TypeOK'
  <2>1. next' \in 1 .. TASK_ASID_MAX + 1 /\ tlb' \subseteq Translation
    BY <1>1, VmAssumption DEF ForkTables, KType
  <2> QED BY <1>3, <1>4, <1>5, <1>7, <2>1, Zenon DEF TypeOK, TaskRecord
<1>9. TagsOK(Now)'
  BY <1>1, <1>3, ForkTagsOK, Zenon
<1>10. \A v \in Va : task[c].pages[v] = NoPage /\ task[c].pt[v] = NoPte
  BY <1>3, <1>4, Zenon DEF IInv, PagesOK, Agree
<1>11. PagesOK(task', frame')
  <2>1. ASSUME NEW f \in Frame PROVE frame'[f].refs = Cardinality(Users(task', f))
    <3>1. \A v \in Va : task[c].pages[v].f # f
      BY <1>4, <1>10 DEF NoPage
    <3>2. \A t \in Task : t # c => task'[t].pages = task[t].pages
      BY <1>5, Zenon
    <3>3. task'[c].pages = task[cur].pages /\ cur \in Task
      BY <1>4, <1>5, Zenon
    <3>4. Cardinality(Users(task', f)) = Cardinality(Users(task, f)) + Holds(cur, f)
      BY <3>1, <3>2, <3>3, CopyCount DEF Holds
    <3> QED BY <1>4, <1>7, <3>4, Zenon DEF PagesOK
  <2>2. ASSUME NEW t \in Task, NEW v \in Va
        PROVE  Agree(task'[t].pt[v], task'[t].pages[v])
    <3>1. CASE t = c
      BY <1>2, <1>5, <3>1, Zenon DEF SharedPte
    <3>2. CASE t = cur
      BY <1>2, <1>5, <3>2, Zenon DEF SharedPte
    <3>3. CASE t # c /\ t # cur
      BY <1>4, <1>5, <3>3 DEF PagesOK
    <3> QED BY <3>1, <3>2, <3>3, Zenon
  <2>3. ASSUME NEW t \in Task, NEW v \in Va, task'[t].pt[v].w
        PROVE  frame'[task'[t].pt[v].f].refs = 1
    <3> DEFINE f == task[t].pt[v].f
    <3>1. t # c /\ t # cur
      BY <1>2, <1>5, <2>3, Zenon DEF SharedPte
    <3>2. task'[t].pt[v] = task[t].pt[v]
      BY <1>5, <3>1
    <3>3. frame[f].refs = 1
      BY <1>4, <2>3, <3>2, Zenon DEF PagesOK
    <3>4. task[t].pt[v] # NoPte /\ task[t].pt[v] \in Pte
      BY <1>4, <2>3, <3>2 DEF NoPte, TaskRecord
    <3>5. f \in Frame /\ task[t].pages[v].f = f
      BY <1>4, <3>4 DEF PagesOK, Agree, Pte
    <3>6. \A w \in Va : task[cur].pages[w].f # f
      BY <1>4, <3>1, <3>3, <3>5, OnlyUser
    <3>7. Holds(cur, f) = 0
      <4>1. {w \in Va : task[cur].pages[w].f = f} = {}
        BY <3>6, Zenon
      <4> QED BY <4>1, FS_EmptySet, Zenon DEF Holds
    <3> HIDE DEF f
    <3>8. frame'[f].refs = 1
      BY <1>7, <3>3, <3>5, <3>7
    <3> QED BY <3>2, <3>8, Zenon DEF f
  <2> QED BY <2>1, <2>2, <2>3, Zenon DEF PagesOK
<1>12. \A t \in Task, v \in Va : ~task'[t].live => task'[t].pages[v] = NoPage
  BY <1>5 DEF IInv
<1>13. IInv'
  BY <1>3, <1>5, <1>8, <1>9, <1>11, <1>12, Zenon DEF IInv
<1>14. \A v \in Va : View[c][v] = Unmapped
  BY <1>10 DEF View
<1>15. View' = [View EXCEPT ![c] = View[cur]]
  <2>1. ASSUME NEW t \in Task, NEW v \in Va, t # c PROVE View'[t][v] = View[t][v]
    <3>1. /\ task'[t].pt[v] = NoPte <=> task[t].pt[v] = NoPte
          /\ task'[t].pt[v] # NoPte => task'[t].pt[v].f = task[t].pt[v].f
      <4>1. CASE t = cur
        BY <1>2, <1>4, <1>5, <4>1 DEF SharedPte, PagesOK, Agree
      <4>2. CASE t # cur
        BY <1>5, <2>1, <4>2, Zenon
      <4> QED BY <4>1, <4>2, Zenon
    <3>2. task[t].pt[v] # NoPte => task[t].pt[v].f \in Frame
      BY <1>4 DEF TaskRecord, Pte
    <3> QED BY <1>7, <3>1, <3>2 DEF View
  <2>2. ASSUME NEW v \in Va PROVE View'[c][v] = View[cur][v]
    <3>1. /\ task'[c].pt[v] = NoPte <=> task[cur].pt[v] = NoPte
          /\ task'[c].pt[v] # NoPte => task'[c].pt[v].f = task[cur].pt[v].f
      BY <1>2, <1>4, <1>5 DEF SharedPte, PagesOK, Agree
    <3>2. task[cur].pt[v] # NoPte => task[cur].pt[v].f \in Frame
      BY <1>4 DEF TaskRecord, Pte
    <3> QED BY <1>4, <1>7, <3>1, <3>2, Zenon DEF View
  <2>3. View = ViewOf(task, frame) /\ View' = ViewOf(task', frame')
    BY DEF View, ViewOf
  <2>4. /\ View \in [Task -> [Va -> Value \cup {Unmapped}]]
        /\ View' \in [Task -> [Va -> Value \cup {Unmapped}]]
    BY <1>4, <1>5, <1>7, <2>3, ViewType
  <2> QED BY <1>4, <2>1, <2>2, <2>4, OneTask
<1> QED BY <1>3, <1>4, <1>13, <1>14, <1>15, Zenon

-----------------------------------------------------------------------------
\* exec and reaping: a task lets go of its whole page list.

LEMMA ReleasedOK ==
    ASSUME IInv, NEW c \in Task
    PROVE  /\ Released(c) \in [Frame -> [refs : Nat, val : Value]]
           /\ \A f \in Frame : Released(c)[f].refs = Cardinality(Others(task, c, f))
           /\ \A t \in Task, v \in Va, f \in Frame : t # c /\ task[t].pages[v].f = f =>
                 /\ Released(c)[f].refs # 0 /\ Released(c)[f].val = frame[f].val
                 /\ frame[f].refs = 1 => Released(c)[f].refs = 1
<1>1. /\ task \in [Task -> TaskRecord] /\ PagesOK(task, frame) /\ Zero \in Value
      /\ frame \in [Frame -> [refs : Nat, val : Value]]
  BY VmAssumption, Zenon DEF IInv, TypeOK, TaskRecord
<1>2. ASSUME NEW f \in Frame
      PROVE  /\ IsFiniteSet(Others(task, c, f)) /\ Holds(c, f) \in Nat
             /\ Cardinality(Others(task, c, f)) = frame[f].refs - Holds(c, f)
             /\ \A t \in Task, v \in Va :
                   <<t, v>> \in Others(task, c, f) <=> t # c /\ task[t].pages[v].f = f
  <2>1. frame[f].refs = Cardinality(Users(task, f))
    BY <1>1 DEF PagesOK
  <2>2. /\ IsFiniteSet(Others(task, c, f)) /\ Cardinality(Row(task, c, f)) \in Nat
        /\ Cardinality(Others(task, c, f)) =
              Cardinality(Users(task, f)) - Cardinality(Row(task, c, f))
        /\ \A t \in Task, v \in Va :
              <<t, v>> \in Others(task, c, f) <=> t # c /\ task[t].pages[v].f = f
    BY ClearCount
  <2>3. Holds(c, f) = Cardinality(Row(task, c, f))
    BY DEF Holds, Row
  <2> QED BY <2>1, <2>2, <2>3, Zenon
<1>3. ASSUME NEW f \in Frame
      PROVE  /\ Released(c)[f].refs = frame[f].refs - Holds(c, f)
             /\ Released(c)[f].val = IF frame[f].refs = Holds(c, f) THEN Zero ELSE frame[f].val
             /\ Released(c)[f] = Dropped(f, Holds(c, f))
  BY DEF Released, Dropped
<1>4. ASSUME NEW f \in Frame
      PROVE  /\ Released(c)[f].refs = Cardinality(Others(task, c, f))
             /\ Released(c)[f] \in [refs : Nat, val : Value]
  <2>1. Cardinality(Others(task, c, f)) \in Nat
    BY <1>2, FS_CardinalityType, Zenon
  <2>2. Released(c)[f].refs = Cardinality(Others(task, c, f))
    BY <1>2, <1>3
  <2>3. frame[f].refs - Holds(c, f) \in Nat
    BY <1>3, <2>1, <2>2, Zenon
  <2>4. Dropped(f, Holds(c, f)) \in [refs : Nat, val : Value]
    BY <1>1, <2>3, Zenon DEF Dropped
  <2> QED BY <1>3, <2>2, <2>4, Zenon
<1>5. Released(c) \in [Frame -> [refs : Nat, val : Value]]
  <2>1. Released(c) = [f \in Frame |-> Released(c)[f]]
    BY DEF Released
  <2> QED BY <1>4, <2>1, Zenon
<1>6. ASSUME NEW t \in Task, NEW v \in Va, NEW f \in Frame, t # c, task[t].pages[v].f = f
      PROVE  /\ Released(c)[f].refs # 0 /\ Released(c)[f].val = frame[f].val
             /\ frame[f].refs = 1 => Released(c)[f].refs = 1
  <2>1. <<t, v>> \in Others(task, c, f)
    BY <1>2, <1>6, Zenon
  <2>2. Cardinality(Others(task, c, f)) # 0
    BY <1>2, <2>1, FS_EmptySet, Zenon
  <2>3. frame[f].refs \in Nat /\ Holds(c, f) \in Nat
    BY <1>1, <1>2, Zenon
  <2>4. frame[f].refs # Holds(c, f)
    BY <1>2, <2>2, <2>3
  <2>5. Released(c)[f].refs # 0 /\ Released(c)[f].val = frame[f].val
    BY <1>3, <1>4, <2>2, <2>4
  <2>6. ASSUME frame[f].refs = 1 PROVE Released(c)[f].refs = 1
    <3>1. \A w \in Va : task[c].pages[w].f # f
      BY <1>1, <1>6, <2>6, OnlyUser
    <3>2. {w \in Va : task[c].pages[w].f = f} = {}
      BY <3>1
    <3>3. Holds(c, f) = 0
      BY <3>2, FS_EmptySet, Zenon DEF Holds
    <3> QED BY <1>3, <2>6, <3>3
  <2> QED BY <2>5, <2>6
<1> QED BY <1>4, <1>5, <1>6, Zenon

\* Task c gets a new memory: the frames it let go of may be among the new ones.
\* Page v of c now maps the fresh frame new[v], if v is in prog, and nothing if not.
MemoryBecomes(T, F, c, prog, new) ==
    /\ T \in [Task -> TaskRecord]
    /\ F \in [Frame -> [refs : Nat, val : Value]]
    /\ new \in [prog -> Frame] /\ prog \subseteq Va
    /\ \A a, b \in prog : a # b => new[a] # new[b]
    /\ \A a \in prog : Released(c)[new[a]].refs = 0
    /\ \A a \in prog : F[new[a]].refs = 1 /\ F[new[a]].val = Zero
    /\ \A f \in Frame : (\A a \in prog : new[a] # f) => F[f] = Released(c)[f]
    /\ \A t \in Task : t # c => T[t].pt = task[t].pt /\ T[t].pages = task[t].pages
    /\ \A v \in prog : /\ T[c].pt[v] = [f |-> new[v], w |-> TRUE, cow |-> FALSE]
                       /\ T[c].pages[v] = [f |-> new[v], intent |-> TRUE]
    /\ \A v \in Va \ prog : T[c].pt[v] = NoPte /\ T[c].pages[v] = NoPage

LEMMA NewMemoryOK ==
    ASSUME IInv, NEW c \in Task, NEW T, NEW F, NEW prog, NEW new,
           MemoryBecomes(T, F, c, prog, new)
    PROVE  /\ PagesOK(T, F)
           /\ ViewOf(T, F) =
                [View EXCEPT ![c] = [va \in Va |-> IF va \in prog THEN Zero ELSE Unmapped]]
<1>1. /\ task \in [Task -> TaskRecord] /\ PagesOK(task, frame) /\ Zero \in Value
      /\ frame \in [Frame -> [refs : Nat, val : Value]] /\ Unmapped \notin Frame
  BY VmAssumption, Zenon DEF IInv, TypeOK, TaskRecord
<1>2. /\ T \in [Task -> TaskRecord] /\ F \in [Frame -> [refs : Nat, val : Value]]
      /\ prog \subseteq Va /\ \A a \in prog : new[a] \in Frame
      /\ \A t \in Task : t # c => T[t].pt = task[t].pt /\ T[t].pages = task[t].pages
  BY DEF MemoryBecomes
<1>3. ASSUME NEW v \in prog
      PROVE  /\ T[c].pt[v].f = new[v] /\ T[c].pt[v] # NoPte
             /\ T[c].pages[v].f = new[v] /\ T[c].pages[v] # NoPage
             /\ T[c].pages[v].intent /\ T[c].pt[v].w /\ ~T[c].pt[v].cow
             /\ F[new[v]].refs = 1 /\ F[new[v]].val = Zero
             /\ Released(c)[new[v]].refs = 0
  <2>1. /\ T[c].pt[v] = [f |-> new[v], w |-> TRUE, cow |-> FALSE]
        /\ T[c].pages[v] = [f |-> new[v], intent |-> TRUE]
        /\ F[new[v]].refs = 1 /\ F[new[v]].val = Zero
        /\ Released(c)[new[v]].refs = 0
    BY DEF MemoryBecomes
  <2> QED BY <2>1 DEF NoPte, NoPage
<1>4. \A v \in Va \ prog : T[c].pt[v] = NoPte /\ T[c].pages[v] = NoPage
  BY DEF MemoryBecomes
<1>5. ASSUME NEW t \in Task, NEW v \in Va, t # c, NEW f \in Frame, task[t].pages[v].f = f
      PROVE  /\ \A a \in prog : new[a] # f
             /\ F[f] = Released(c)[f]
             /\ F[f].val = frame[f].val
             /\ frame[f].refs = 1 => F[f].refs = 1
  <2>1. /\ Released(c)[f].refs # 0 /\ Released(c)[f].val = frame[f].val
        /\ frame[f].refs = 1 => Released(c)[f].refs = 1
    BY <1>5, ReleasedOK, Zenon
  <2>2. \A a \in prog : new[a] # f
    BY <1>3, <2>1, Zenon
  <2>3. F[f] = Released(c)[f]
    BY <2>2 DEF MemoryBecomes
  <2> QED BY <2>1, <2>2, <2>3, Zenon
<1>6. ASSUME NEW f \in Frame PROVE F[f].refs = Cardinality(Users(T, f))
  <2>0. \A t \in Task, v \in Va : <<t, v>> \in Others(task, c, f) <=> t # c /\ task[t].pages[v].f = f
    BY DEF Others, Users, Row
  <2>a. Others(task, c, f) \subseteq Task \X Va /\ Users(T, f) \subseteq Task \X Va
    BY DEF Others, Users, Row
  <2>1. CASE \E a \in prog : new[a] = f
    <3>1. PICK a \in prog : new[a] = f
      BY <2>1, Zenon
    <3>2. \A t \in Task, v \in Va : t # c => task[t].pages[v].f # f
      BY <1>5, <3>1
    <3>3. ASSUME NEW t \in Task, NEW v \in Va
          PROVE  <<t, v>> \in Users(T, f) <=> t = c /\ v = a
      <4>1. CASE t # c
        BY <1>2, <3>2, <4>1 DEF Users
      <4>2. CASE t = c /\ v \in prog
        <5>1. T[t].pages[v].f = f <=> v = a
          BY <1>3, <3>1, <4>2 DEF MemoryBecomes
        <5> QED BY <4>2, <5>1, Zenon DEF Users
      <4>3. CASE t = c /\ v \notin prog
        <5>1. T[t].pages[v].f # f
          BY <1>1, <1>4, <4>3 DEF NoPage
        <5> QED BY <3>1, <4>3, <5>1, Zenon DEF Users
      <4> QED BY <4>1, <4>2, <4>3, Zenon
    <3>4. Users(T, f) = {<<c, a>>}
      BY <1>2, <2>a, <3>3
    <3>5. Cardinality(Users(T, f)) = 1
      BY <3>4, FS_Singleton, Zenon
    <3> QED BY <1>3, <3>1, <3>5
  <2>2. CASE \A a \in prog : new[a] # f
    <3>1. F[f] = Released(c)[f]
      BY <2>2, Zenon DEF MemoryBecomes
    <3>2. ASSUME NEW t \in Task, NEW v \in Va
          PROVE  <<t, v>> \in Users(T, f) <=> <<t, v>> \in Others(task, c, f)
      <4>1. CASE t # c
        BY <1>2, <2>0, <4>1 DEF Users
      <4>2. CASE t = c /\ v \in prog
        BY <1>3, <2>0, <2>2, <4>2 DEF Users
      <4>3. CASE t = c /\ v \notin prog
        <5>1. T[t].pages[v].f # f
          BY <1>1, <1>4, <4>3 DEF NoPage
        <5> QED BY <2>0, <4>3, <5>1, Zenon DEF Users
      <4> QED BY <4>1, <4>2, <4>3, Zenon
    <3>3. Users(T, f) = Others(task, c, f)
      BY <2>a, <3>2
    <3> QED BY <3>1, <3>3, ReleasedOK, Zenon
  <2> QED BY <2>1, <2>2, Zenon
<1>7. ASSUME NEW t \in Task, NEW v \in Va
      PROVE  Agree(T[t].pt[v], T[t].pages[v])
  <2>1. CASE t # c
    BY <1>1, <1>2, <2>1, Zenon DEF PagesOK
  <2>2. CASE t = c /\ v \in prog
    BY <1>3, <2>2, Zenon DEF Agree
  <2>3. CASE t = c /\ v \notin prog
    BY <1>4, <2>3, Zenon DEF Agree
  <2> QED BY <2>1, <2>2, <2>3, Zenon
<1>8. ASSUME NEW t \in Task, NEW v \in Va, T[t].pt[v].w
      PROVE  F[T[t].pt[v].f].refs = 1
  <2>1. CASE t # c
    <3> DEFINE f == task[t].pt[v].f
    <3>1. T[t].pt[v] = task[t].pt[v]
      BY <1>2, <2>1, Zenon
    <3>2. frame[f].refs = 1
      BY <1>1, <1>8, <3>1, Zenon DEF PagesOK
    <3>3. task[t].pt[v] # NoPte /\ task[t].pt[v] \in Pte
      BY <1>1, <1>8, <3>1 DEF NoPte, TaskRecord
    <3>4. f \in Frame /\ task[t].pages[v].f = f
      BY <1>1, <3>3, Zenon DEF PagesOK, Agree, Pte
    <3> QED BY <1>5, <2>1, <3>1, <3>2, <3>4
  <2>2. CASE t = c /\ v \in prog
    BY <1>3, <2>2, Zenon
  <2>3. CASE t = c /\ v \notin prog
    BY <1>4, <1>8, <2>3 DEF NoPte
  <2> QED BY <2>1, <2>2, <2>3, Zenon
<1>9. PagesOK(T, F)
  BY <1>6, <1>7, <1>8, Zenon DEF PagesOK
<1>10. ASSUME NEW t \in Task, NEW v \in Va, t # c
       PROVE  ViewOf(T, F)[t][v] = View[t][v]
  <2>1. T[t].pt[v] = task[t].pt[v]
    BY <1>2, <1>10
  <2>2. ASSUME task[t].pt[v] # NoPte
        PROVE  F[task[t].pt[v].f].val = frame[task[t].pt[v].f].val
    <3>1. task[t].pt[v].f \in Frame /\ task[t].pages[v].f = task[t].pt[v].f
      BY <1>1, <2>2 DEF PagesOK, Agree, TaskRecord, Pte
    <3> QED BY <1>5, <1>10, <3>1, Zenon
  <2> QED BY <2>1, <2>2, Zenon DEF View, ViewOf
<1> DEFINE m == [va \in Va |-> IF va \in prog THEN Zero ELSE Unmapped]
<1>11. ASSUME NEW v \in Va PROVE ViewOf(T, F)[c][v] = m[v]
  BY <1>3, <1>4, Zenon DEF ViewOf
<1>12. m \in [Va -> Value \cup {Unmapped}]
  BY <1>1, Zenon
<1> HIDE DEF m
<1>13. /\ View \in [Task -> [Va -> Value \cup {Unmapped}]]
       /\ ViewOf(T, F) \in [Task -> [Va -> Value \cup {Unmapped}]]
  <2>1. View = ViewOf(task, frame)
    BY DEF View, ViewOf
  <2> QED BY <1>1, <1>2, <2>1, ViewType, Zenon
<1>14. ViewOf(T, F) = [View EXCEPT ![c] = m]
  BY <1>10, <1>11, <1>12, <1>13, OneTask
<1> QED BY <1>9, <1>14, Zenon DEF m

\* Replacing a task's page table and page list.
MemorySet(T, c, q, l) == [T EXCEPT ![c].pt = q, ![c].pages = l]

LEMMA MemorySetIs ==
    ASSUME NEW T \in [Task -> TaskRecord], NEW c \in Task,
           NEW q \in [Va -> Pte], NEW l \in [Va -> Page]
    PROVE  LET U == MemorySet(T, c, q, l)
           IN /\ U \in [Task -> TaskRecord]
              /\ \A t \in Task : t # c => U[t] = T[t]
              /\ U[c].live = T[c].live /\ U[c].fresh = T[c].fresh /\ U[c].asid = T[c].asid
              /\ U[c].pt = q /\ U[c].pages = l
BY Zenon DEF TaskRecord, MemorySet

LEMMA ExecStep ==
    ASSUME IInv, NEW prog \in SUBSET Va, Exec(prog)
    PROVE  /\ IInv' /\ cur' = cur
           /\ View' = [View EXCEPT ![cur] = [va \in Va |-> IF va \in prog THEN Zero ELSE Unmapped]]
<1>1. PICK new \in [prog -> Frame] :
         /\ \A a, b \in prog : a # b => new[a] # new[b]
         /\ \A a \in prog : Released(cur)[new[a]].refs = 0
         /\ frame' = [f \in Frame |-> IF \E a \in prog : new[a] = f
                                      THEN [refs |-> 1, val |-> Zero] ELSE Released(cur)[f]]
         /\ task' = [task EXCEPT
              ![cur].pt = [va \in Va |-> IF va \in prog THEN [f |-> new[va], w |-> TRUE, cow |-> FALSE]
                                         ELSE NoPte],
              ![cur].pages = [va \in Va |-> IF va \in prog THEN [f |-> new[va], intent |-> TRUE]
                                            ELSE NoPage]]
  BY Zenon DEF Exec
<1> DEFINE q == [va \in Va |-> IF va \in prog THEN [f |-> new[va], w |-> TRUE, cow |-> FALSE]
                               ELSE NoPte]
           l == [va \in Va |-> IF va \in prog THEN [f |-> new[va], intent |-> TRUE] ELSE NoPage]
<1>2. /\ task \in [Task -> TaskRecord] /\ cur \in Task /\ task[cur].live /\ task[cur].fresh
      /\ frame \in [Frame -> [refs : Nat, val : Value]] /\ Zero \in Value
      /\ TagsOK(Now) /\ tlb \subseteq Translation
      /\ next \in 1 .. TASK_ASID_MAX + 1
  BY VmAssumption DEF IInv, TypeOK, TaskRecord
<1>3. q \in [Va -> Pte] /\ l \in [Va -> Page]
  BY DEF Pte, Page
<1>4. /\ \A v \in prog : /\ q[v] = [f |-> new[v], w |-> TRUE, cow |-> FALSE]
                         /\ l[v] = [f |-> new[v], intent |-> TRUE]
      /\ \A v \in Va \ prog : q[v] = NoPte /\ l[v] = NoPage
  OBVIOUS
<1>5. task' = MemorySet(task, cur, q, l)
  BY <1>1, Zenon DEF MemorySet
<1> HIDE DEF q, l
<1>6. /\ task' \in [Task -> TaskRecord]
      /\ \A t \in Task : t # cur => task'[t] = task[t]
      /\ task'[cur].live /\ task'[cur].fresh /\ task'[cur].asid = task[cur].asid
      /\ task'[cur].pt = q /\ task'[cur].pages = l
  BY <1>2, <1>3, <1>5, MemorySetIs
<1>7. Released(cur) \in [Frame -> [refs : Nat, val : Value]]
  BY <1>2, ReleasedOK, Zenon
<1>8. /\ frame' \in [Frame -> [refs : Nat, val : Value]]
      /\ \A a \in prog : frame'[new[a]].refs = 1 /\ frame'[new[a]].val = Zero
      /\ \A f \in Frame : (\A a \in prog : new[a] # f) => frame'[f] = Released(cur)[f]
  BY <1>1, <1>2, <1>7, Zenon
<1>9. MemoryBecomes(task', frame', cur, prog, new)
  BY <1>1, <1>4, <1>6, <1>8, Zenon DEF MemoryBecomes
<1>10. PagesOK(task', frame')
       /\ ViewOf(task', frame') =
            [View EXCEPT ![cur] = [va \in Va |-> IF va \in prog THEN Zero ELSE Unmapped]]
  BY <1>2, <1>9, NewMemoryOK
<1>11. cur' = cur /\ next' = next /\ tlb' = {e \in tlb : e.asid # task[cur].asid}
  BY DEF Exec, mmu_tlb_flush_asid
<1>12. TypeOK'
  BY <1>2, <1>6, <1>8, <1>11, Zenon DEF TypeOK, TaskRecord
<1>13. TagsOK(Now')
  <2>1. Now'.task = task' /\ Now'.next = next /\ Now'.tlb = tlb'
    BY <1>11 DEF Now
  <2>2. \A t \in Task : /\ task'[t].live <=> task[t].live
                        /\ task'[t].fresh <=> task[t].fresh
                        /\ task'[t].asid = task[t].asid
    BY <1>2, <1>6, Zenon
  <2>3. ASSUME NEW e \in tlb', NEW t \in Task,
               task'[t].live /\ task'[t].fresh /\ task'[t].asid = e.asid
        PROVE  task'[t].pt[e.va].f = e.f /\ task'[t].pt[e.va].w = e.w
    <3>1. t # cur /\ e \in tlb
      BY <1>11, <2>2, <2>3, Zenon
    <3> QED BY <1>2, <1>6, <2>3, <3>1 DEF TagsOK, Now
  <2>4. /\ \A t \in Task : task'[t].live /\ task'[t].fresh => task'[t].asid < next
        /\ \A e \in tlb' : e.asid < next
    BY <1>2, <1>11, <2>2, Zenon DEF TagsOK, Now
  <2>5. \A t, u \in Task : /\ t # u
                           /\ task'[t].live /\ task'[t].fresh
                           /\ task'[u].live /\ task'[u].fresh
                           => task'[t].asid # task'[u].asid
    BY <1>2, <2>2 DEF TagsOK, Now
  <2> QED BY <2>1, <2>3, <2>4, <2>5, Zenon DEF TagsOK
<1>14. \A t \in Task, v \in Va : ~task'[t].live => task'[t].pages[v] = NoPage
  BY <1>6 DEF IInv
<1>15. View' = ViewOf(task', frame')
  BY DEF View, ViewOf
<1>16. IInv'
  BY <1>6, <1>10, <1>11, <1>12, <1>13, <1>14 DEF IInv
<1> QED BY <1>10, <1>11, <1>15, <1>16, Zenon

-----------------------------------------------------------------------------
\* The scheduler.

LEMMA SwitchStep ==
    ASSUME IInv, NEW t \in Task, Switch(t)
    PROVE  IInv' /\ cur' = t /\ View' = View
<1> DEFINE L == task_ensure_asid(Now, t)
<1>1. /\ task[t].live /\ cur' = t /\ frame' = frame
      /\ task' = L.task /\ next' = L.next /\ tlb' = L.tlb
  BY DEF Switch, Becomes
<1>2. /\ TagsOK(Now) /\ Now \in KType /\ Now.task = task /\ PagesOK(task, frame)
      /\ frame \in [Frame -> [refs : Nat, val : Value]]
  BY DEF IInv, TypeOK, TaskRecord, KType, Now
<1>3. /\ L \in KType /\ TagsOK(L) /\ SameMemory(task, L.task) /\ L.task[t].fresh
  BY <1>2, EnsureAsidOK
<1> HIDE DEF L
<1>4. TypeOK'
  BY <1>1, <1>2, <1>3, ZenonT(40) DEF TypeOK, KType, TaskRecord
<1>5. TagsOK(Now')
  BY <1>1, <1>3 DEF TagsOK, Now
<1>6. PagesOK(task', frame')
  BY <1>1, <1>2, <1>3, SamePagesOK, Zenon
<1>7. \A u \in Task : /\ task'[u].live = task[u].live /\ task'[u].pt = task[u].pt
                      /\ task'[u].pages = task[u].pages
  BY <1>1, <1>3, Zenon DEF SameMemory
<1>8. IInv'
  <2>1. \A u \in Task, v \in Va : ~task'[u].live => task'[u].pages[v] = NoPage
    BY <1>7 DEF IInv
  <2>2. task'[cur'].live /\ task'[cur'].fresh
    BY <1>1, <1>3, <1>7, Zenon
  <2> QED BY <1>4, <1>5, <1>6, <2>1, <2>2, Zenon DEF IInv
<1>9. View' = View
  BY <1>1, <1>7, Zenon DEF View
<1> QED BY <1>1, <1>8, <1>9, Zenon

\* task_reap_slot, and the scheduler if the task reaped was the running one.
LEMMA ReapStep ==
    ASSUME IInv, NEW t \in Task, NEW n \in Task, Reap(t, n)
    PROVE  /\ IInv' /\ t # n /\ (t = cur \/ n = cur) /\ cur' = n
           /\ View' = [View EXCEPT ![t] = [va \in Va |-> Unmapped]]
<1> DEFINE T == [task EXCEPT ![t] = Unused]
           B == mmu_tlb_flush_asid(tlb, task[t].asid)
           K == [task |-> T, next |-> next, tlb |-> B]
           L == task_ensure_asid(K, n)
<1>1. /\ task[t].live /\ task[n].live /\ t # n /\ (t = cur \/ n = cur)
      /\ frame' = Released(t) /\ cur' = n
      /\ task' = L.task /\ next' = L.next /\ tlb' = L.tlb
  BY DEF Reap, Becomes
<1>2. /\ task \in [Task -> TaskRecord] /\ TagsOK(Now) /\ tlb \subseteq Translation
      /\ next \in 1 .. TASK_ASID_MAX + 1
  BY DEF IInv, TypeOK, TaskRecord
<1>3. /\ Unused \in TaskRecord /\ ~Unused.live
      /\ \A v \in Va : Unused.pt[v] = NoPte /\ Unused.pages[v] = NoPage
  BY VmAssumption DEF Unused, TaskRecord, Asid, Pte, Page
<1>4. /\ T \in [Task -> TaskRecord] /\ T[t] = Unused
      /\ \A u \in Task : u # t => T[u] = task[u]
  BY <1>2, <1>3, Zenon
<1>5. B \subseteq tlb
  BY DEF mmu_tlb_flush_asid
<1> HIDE DEF T, B
<1>6. K.task = T /\ K.next = next /\ K.tlb = B /\ K \in KType
  BY <1>2, <1>4, <1>5, ZenonT(40) DEF KType
<1> HIDE DEF K
<1>7. TagsOK(K)
  BY <1>2, <1>3, <1>4, <1>5, <1>6 DEF TagsOK, Now
<1>8. L \in KType /\ TagsOK(L) /\ SameMemory(T, L.task) /\ L.task[n].fresh
  BY <1>6, <1>7, EnsureAsidOK
<1> HIDE DEF L
<1>9. \A u \in Task : u # t => /\ task'[u].live = task[u].live /\ task'[u].pt = task[u].pt
                               /\ task'[u].pages = task[u].pages
  BY <1>1, <1>4, <1>8, Zenon DEF SameMemory
<1>10. \A v \in Va : task'[t].pt[v] = NoPte /\ task'[t].pages[v] = NoPage
  BY <1>1, <1>3, <1>4, <1>8 DEF SameMemory
<1>11. Released(t) \in [Frame -> [refs : Nat, val : Value]]
  BY ReleasedOK, Zenon
<1>12. TypeOK'
  BY <1>1, <1>8, <1>11, Zenon DEF TypeOK, KType, TaskRecord
<1>13. TagsOK(Now')
  BY <1>1, <1>8 DEF TagsOK, Now
<1>14. MemoryBecomes(task', frame', t, {}, [a \in {} |-> Zero])
  <2>1. task' \in [Task -> TaskRecord]
    BY <1>1, <1>8, Zenon DEF KType
  <2>2. [a \in {} |-> Zero] \in [{} -> Frame]
    OBVIOUS
  <2> QED BY <1>1, <1>9, <1>10, <1>11, <2>1, <2>2, Zenon DEF MemoryBecomes
<1>15. /\ PagesOK(task', frame')
       /\ ViewOf(task', frame') =
            [View EXCEPT ![t] = [va \in Va |-> IF va \in {} THEN Zero ELSE Unmapped]]
  BY <1>14, NewMemoryOK
<1>16. View' = [View EXCEPT ![t] = [va \in Va |-> Unmapped]]
  <2>1. View' = ViewOf(task', frame')
    BY DEF View, ViewOf
  <2>2. [va \in Va |-> IF va \in {} THEN Zero ELSE Unmapped] = [va \in Va |-> Unmapped]
    OBVIOUS
  <2> QED BY <1>15, <2>1, <2>2, Zenon
<1>17. IInv'
  <2>1. \A u \in Task, v \in Va : ~task'[u].live => task'[u].pages[v] = NoPage
    BY <1>9, <1>10 DEF IInv
  <2>2. task'[cur'].live /\ task'[cur'].fresh
    BY <1>1, <1>8, <1>9, Zenon
  <2> QED BY <1>12, <1>13, <1>15, <2>1, <2>2, Zenon DEF IInv
<1> QED BY <1>1, <1>16, <1>17, Zenon

-----------------------------------------------------------------------------
\* Steps that no task notices.

\* What a mapped page of the running task reads.
LEMMA PageReads ==
    ASSUME IInv, NEW va \in Va
    PROVE  /\ View \in [Task -> [Va -> Value \cup {Unmapped}]]
           /\ task[cur].pages[va] # NoPage =>
                View[cur][va] = frame[task[cur].pages[va].f].val
           /\ task[cur].pt[va] = NoPte => View[cur][va] = Unmapped
<1>1. /\ task \in [Task -> TaskRecord] /\ cur \in Task
      /\ frame \in [Frame -> [refs : Nat, val : Value]]
      /\ task[cur].pages[va] # NoPage =>
           task[cur].pt[va] # NoPte /\ task[cur].pt[va].f = task[cur].pages[va].f
  BY PageFacts
<1>2. View = ViewOf(task, frame)
  BY DEF View, ViewOf
<1> QED BY <1>1, <1>2, ViewType, Zenon DEF ViewOf

\* A page gets another frame, or another descriptor, with the same contents.
LEMMA SamePageStep ==
    ASSUME IInv, NEW va \in Va, task[cur].pages[va] # NoPage,
           PageStep(va, frame[task[cur].pages[va].f].val)
    PROVE  IInv' /\ View' = View
<1>1. IInv' /\ View' = [View EXCEPT ![cur][va] = frame[task[cur].pages[va].f].val]
  BY PageStepOK
<1>2. /\ View \in [Task -> [Va -> Value \cup {Unmapped}]]
      /\ View[cur][va] = frame[task[cur].pages[va].f].val
  BY PageReads, Zenon
<1>3. [View EXCEPT ![cur][va] = View[cur][va]] = View
  BY <1>2
<1> QED BY <1>1, <1>2, <1>3, Zenon

LEMMA CowFaultStep ==
    ASSUME IInv, NEW va \in Va, CowFault(va)
    PROVE  IInv' /\ View' = View /\ cur' = cur
<1>1. SameTask(task)
  BY PageFacts, Zenon DEF SameTask
<1>2. task[cur].pages[va] # NoPage
  BY DEF CowFault, NoPage
<1>3. Unshare(task, va) /\ UNCHANGED <<cur, next>>
  BY DEF CowFault
<1>4. PageStep(va, frame[task[cur].pages[va].f].val)
  BY <1>1, <1>2, <1>3, UnshareStep, Zenon
<1> QED BY <1>2, <1>3, <1>4, SamePageStep

LEMMA MmapStep ==
    ASSUME IInv, NEW va \in Va, NEW prot \in Prots, Mmap(va, prot)
    PROVE  IInv' /\ View' = View /\ cur' = cur
<1>1. task' = AreaSet(task, cur, va, prot) /\ UNCHANGED <<frame, cur, next, tlb>>
  BY DEF Mmap, AreaSet
<1>2. prot \in {"none", "r", "rw"}
  BY VmAssumption
<1>3. task \in [Task -> TaskRecord] /\ cur \in Task
  BY PageFacts, Zenon
<1>4. SameTask(task')
  BY <1>1, <1>2, <1>3, AreaSetIs DEF SameTask
<1> QED BY <1>1, <1>4, QuietStep, Zenon

LEMMA MprotectStep ==
    ASSUME IInv, NEW va \in Va, NEW prot \in Prots, Mprotect(va, prot)
    PROVE  IInv' /\ View' = View /\ cur' = cur
<1> DEFINE K == AreaSet(task, cur, va, prot)
           u == task[cur].pages[va]
<1>1. /\ \/ u = NoPage /\ task' = K /\ UNCHANGED <<frame, tlb>>
         \/ u # NoPage /\ ProtectPage(K, va, prot)
      /\ UNCHANGED <<cur, next>>
  BY DEF Mprotect, AreaSet
<1>2. prot \in {"none", "r", "rw"} /\ task \in [Task -> TaskRecord] /\ cur \in Task
  BY VmAssumption, PageFacts, Zenon
<1>3. SameTask(K)
  BY <1>2, AreaSetIs DEF SameTask
<1> HIDE DEF K
<1>4. CASE task' = K /\ UNCHANGED <<frame, tlb>>
  BY <1>1, <1>3, <1>4, QuietStep, Zenon
<1>5. CASE u # NoPage /\ Unshare(K, va)
  <2>1. PageStep(va, frame[u.f].val)
    BY <1>1, <1>3, <1>5, UnshareStep
  <2> QED BY <1>1, <1>5, <2>1, SamePageStep, ZenonT(40)
<1>6. CASE /\ u # NoPage
           /\ task' = [K EXCEPT ![cur].pt[va] = [f |-> u.f, w |-> FALSE, cow |-> FALSE],
                                ![cur].pages[va] = [f |-> u.f, intent |-> FALSE]]
           /\ tlb' = mmu_tlb_flush_va(tlb, va, task[cur].asid)
           /\ UNCHANGED frame
  <2>1. task' = PageSet(K, cur, va, [f |-> u.f, w |-> FALSE, cow |-> FALSE],
                                    [f |-> u.f, intent |-> FALSE])
    BY <1>6 DEF PageSet
  <2>2. PageStep(va, frame[u.f].val)
    BY <1>1, <1>3, <1>6, <2>1, ReadOnlyStep, Zenon
  <2> QED BY <1>1, <1>6, <2>2, SamePageStep, Zenon
<1> QED BY <1>1, <1>4, <1>5, <1>6, Zenon DEF ProtectPage

\* munmap of a page of the area that was never touched.
LEMMA MunmapNothingStep ==
    ASSUME IInv, NEW va \in Va, Munmap(va), task[cur].pages[va] = NoPage
    PROVE  IInv' /\ View' = View
<1> DEFINE K == AreaSet(task, cur, va, "none")
<1>1. task' = PageSet(K, cur, va, NoPte, NoPage) /\ UNCHANGED <<frame, cur, next, tlb>>
  BY Zenon DEF Munmap, AreaSet, PageSet
<1>2. /\ task \in [Task -> TaskRecord] /\ cur \in Task /\ task[cur].pt[va] = NoPte
      /\ task[cur].live /\ task[cur].fresh
      /\ task[cur].pt \in [Va -> Pte] /\ task[cur].pages \in [Va -> Page]
  BY PageFacts DEF IInv, PagesOK, Agree, TaskRecord
<1>3. SameTask(K)
  <2>1. task \in [Task -> TaskRecord] /\ cur \in Task /\ "none" \in {"none", "r", "rw"}
    BY <1>2, Zenon
  <2> QED BY <2>1, AreaSetIs DEF SameTask
<1> HIDE DEF K
<1>4. NoPte \in Pte /\ NoPage \in Page
  BY DEF Pte, Page
<1>5. TableBecomes(va, NoPte, NoPage)
  BY <1>1, <1>3, <1>4, PageSetStep, Zenon
<1>6. [task[cur].pt EXCEPT ![va] = NoPte] = task[cur].pt
      /\ [task[cur].pages EXCEPT ![va] = NoPage] = task[cur].pages
  BY <1>2
<1>7. SameTask(task')
  BY <1>2, <1>5, <1>6, Zenon DEF TableBecomes, SameTask
<1> QED BY <1>1, <1>7, QuietStep, Zenon

-----------------------------------------------------------------------------
\* The theorems.

\* Every step keeps the invariant and is a step of the private memories, or none.
LEMMA StepIInv ==
    ASSUME IInv, [Next]_vars
    PROVE  IInv' /\ [Abstract!Next]_<<View, cur>>
<1>0. cur \in Task /\ Programs \subseteq SUBSET Va
  BY VmAssumption, Zenon DEF IInv, TypeOK
<1>1. ASSUME NEW va \in Va, TlbFill(va)
      PROVE  IInv' /\ View' = View /\ cur' = cur
  BY <1>1, TlbFillStep, Zenon DEF TlbFill
<1>2. ASSUME NEW va \in Va, AnonFault(va)
      PROVE  IInv' /\ Abstract!Map(va)
  <2>1. PageStep(va, Zero) /\ task[cur].pt[va] = NoPte
    BY <1>2, AnonFaultStep, Zenon
  <2>2. IInv' /\ View' = [View EXCEPT ![cur][va] = Zero]
    BY <2>1, PageStepOK, Zenon
  <2>3. View[cur][va] = Unmapped
    BY <2>1, PageReads, Zenon
  <2>4. cur' = cur
    BY <1>2 DEF AnonFault
  <2> QED BY <2>2, <2>3, <2>4, Zenon DEF Abstract!Map
<1>3. ASSUME NEW va \in Va, CowFault(va)
      PROVE  IInv' /\ View' = View /\ cur' = cur
  BY <1>3, CowFaultStep, Zenon
<1>4. ASSUME NEW va \in Va, Munmap(va)
      PROVE  IInv' /\ (Abstract!Unmap(va) \/ (View' = View /\ cur' = cur))
  <2>1. cur' = cur
    BY <1>4 DEF Munmap
  <2>2. CASE task[cur].pages[va] = NoPage
    BY <1>4, <2>1, <2>2, MunmapNothingStep, Zenon
  <2>3. CASE task[cur].pages[va] # NoPage
    <3>1. PageStep(va, Unmapped)
      BY <1>4, <2>3, MunmapStep, Zenon
    <3>2. IInv' /\ View' = [View EXCEPT ![cur][va] = Unmapped]
      BY <3>1, PageStepOK, Zenon
    <3> QED BY <2>1, <3>2, Zenon DEF Abstract!Unmap
  <2> QED BY <2>2, <2>3, Zenon
<1>5. ASSUME NEW va \in Va, NEW v \in Value, Store(va, v)
      PROVE  IInv' /\ Abstract!Store(va, v)
  BY <1>5, StoreStep, Zenon DEF Abstract!Store, Store
<1>6. ASSUME NEW va \in Va, NEW prot \in Prots, Mmap(va, prot) \/ Mprotect(va, prot)
      PROVE  IInv' /\ View' = View /\ cur' = cur
  BY <1>6, MmapStep, MprotectStep, Zenon
<1>7. ASSUME NEW prog \in Programs, Exec(prog)
      PROVE  IInv' /\ Abstract!Exec(prog) /\ prog \in SUBSET Va
  BY <1>0, <1>7, ExecStep, Zenon DEF Abstract!Exec
<1>8. ASSUME NEW c \in Task, Fork(c)
      PROVE  IInv' /\ Abstract!Fork(c)
  <2>1. /\ IInv' /\ cur' = cur /\ c # cur
        /\ \A v \in Va : View[c][v] = Unmapped
        /\ View' = [View EXCEPT ![c] = View[cur]]
    BY <1>8, ForkStep, Zenon
  <2>2. View[c] = Abstract!Empty
    BY <2>1, Zenon DEF View, Abstract!Empty
  <2> QED BY <2>1, <2>2, Zenon DEF Abstract!Fork
<1>9. ASSUME NEW t \in Task, Switch(t)
      PROVE  IInv' /\ Abstract!Switch(t)
  BY <1>9, SwitchStep, Zenon DEF Abstract!Switch
<1>10. ASSUME NEW t \in Task, NEW n \in Task, Reap(t, n)
       PROVE  IInv' /\ Abstract!Reap(t, n)
  BY <1>10, ReapStep, Zenon DEF Abstract!Reap, Abstract!Empty
<1>11. CASE UNCHANGED vars
  <2>1. task' = task /\ frame' = frame /\ cur' = cur /\ next' = next /\ tlb' = tlb
    BY <1>11, Zenon DEF vars
  <2> QED BY <2>1, Zenon DEF IInv, TypeOK, Now, View
<1> QED BY <1>1, <1>2, <1>3, <1>4, <1>5, <1>6, <1>7, <1>8, <1>9, <1>10, <1>11, Zenon
        DEF Next, Abstract!Next

\* Page tables, page lists and frame counts never disagree: no reference is lost or
\* dropped early by a fault, fork, mprotect, munmap, exec or reap, fork never meets a
\* page it would refuse, and a frame that two pages map is writable through neither.
THEOREM RecordsAlwaysAgree == Spec => []RecordsAgree
<1>1. Init => IInv
  BY InitIInv, Zenon
<1>2. IInv /\ [Next]_vars => IInv'
  BY StepIInv
<1>3. IInv => RecordsAgree
  BY ZenonT(40) DEF IInv, RecordsAgree, PagesOK, Users, Agree, ForkAccepts, task_page_validate_hw
<1> QED BY <1>1, <1>2, <1>3, PTL DEF Spec

\* The processor never holds a translation of a task of the current epoch that its
\* table no longer has, through any number of rollovers of the identifiers.
THEOREM TlbAlwaysCoherent == Spec => []TlbCoherent
<1>1. Init => IInv
  BY InitIInv
<1>2. IInv /\ [Next]_vars => IInv'
  BY StepIInv
<1>3. IInv => TlbCoherent
  BY Zenon DEF IInv, TlbCoherent, TagsOK, Now
<1> QED BY <1>1, <1>2, <1>3, PTL DEF Spec

\* Copy-on-write, demand paging and recycled identifiers implement private memories:
\* every step is a step of PrivateMemory on what the tasks read, or changes nothing.
THEOREM ImplementsPrivateMemory == Spec => IsolatedMemory
<1>1. Init => IInv
  BY InitIInv
<1>2. Init => Abstract!Init
  <2> SUFFICES ASSUME Init PROVE Abstract!Init
    OBVIOUS
  <2>1. \A t \in Task, va \in Va : task[t].pt[va] = NoPte
    BY InitIInv, Zenon DEF Init, Unused
  <2>2. View = [t \in Task |-> [va \in Va |-> Unmapped]]
    BY <2>1, Zenon DEF View
  <2> QED BY <2>2 DEF Init, Abstract!Init, Abstract!Empty
<1>3. IInv /\ [Next]_vars => IInv' /\ [Abstract!Next]_<<View, cur>>
  BY StepIInv
<1> QED BY <1>1, <1>2, <1>3, PTL DEF Spec, IsolatedMemory, Abstract!Spec
=============================================================================

--------------------------- MODULE PipeTasksProofs ---------------------------
(***************************************************************************)
(* Proofs about tasks that share pipes, for every number of tasks, pipes   *)
(* and descriptors, every pipe capacity and every set of calls: the end    *)
(* counts are the open descriptors, nobody sleeps on a pipe that is ready, *)
(* and a hang-up is final.                                                 *)
(***************************************************************************)
EXTENDS PipeTasks, FiniteSetTheorems, LoopLemmas

-----------------------------------------------------------------------------
\* Min of a non-empty set of numbers is one of them.
LEMMA MinIn ==
    ASSUME NEW S \in SUBSET Nat, S # {}
    PROVE  Min(S) \in S
<1> DEFINE R == OpToRel(<, Nat)
<1>1. IsWellFoundedOn(R, Nat)
  BY NatLessThanWellFounded
<1>2. \A x, y \in Nat : x < y => <<x, y>> \in R
  BY DEF OpToRel
<1> HIDE DEF R
<1>3. PICK x \in S : \A y \in S : ~(<<y, x>> \in R)
  BY <1>1, WFMin, Zenon
<1>4. ASSUME NEW y \in S PROVE x <= y
  <2>1. x \in Nat /\ y \in Nat /\ ~(y < x)
    BY <1>2, <1>3, Zenon
  <2> QED BY <2>1
<1> QED BY <1>3, <1>4, Zenon DEF Min

-----------------------------------------------------------------------------
\* One pipe.

LEMMA RefPipe ==
    ASSUME NEW p \in PipeRecord, p.used
    PROVE  /\ LET r == pipe_ref_read(p)
              IN /\ r \in PipeRecord /\ r.used /\ r.count = p.count
                 /\ r.readers = p.readers + 1 /\ r.writers = p.writers
           /\ LET r == pipe_ref_write(p)
              IN /\ r \in PipeRecord /\ r.used /\ r.count = p.count
                 /\ r.readers = p.readers /\ r.writers = p.writers + 1
BY DEF PipeRecord, pipe_ref_read, pipe_ref_write

LEMMA FreePipeType ==
    /\ FreePipe \in PipeRecord /\ ~FreePipe.used /\ FreePipe.count = 0
    /\ FreePipe.readers = 0 /\ FreePipe.writers = 0
    /\ NewPipe \in PipeRecord /\ NewPipe.used /\ NewPipe.count = 0
    /\ NewPipe.readers = 1 /\ NewPipe.writers = 1
<1>1. FreePipe \in PipeRecord
  BY PipeAssumption DEF FreePipe, PipeRecord, Positions
<1>2. /\ ~FreePipe.used /\ FreePipe.count = 0
      /\ FreePipe.readers = 0 /\ FreePipe.writers = 0
  BY DEF FreePipe
<1> QED BY <1>1, <1>2, Zenon DEF NewPipe, PipeRecord

LEMMA ClosePipe ==
    ASSUME NEW p \in PipeRecord, p.used
    PROVE  /\ p.readers > 0 =>
                LET r == pipe_close_read(p)
                IN /\ r \in PipeRecord /\ r.readers = p.readers - 1 /\ r.writers = p.writers
                   /\ r.used <=> (r.readers # 0 \/ r.writers # 0)
                   /\ r.used => r.count = p.count
           /\ p.writers > 0 =>
                LET r == pipe_close_write(p)
                IN /\ r \in PipeRecord /\ r.readers = p.readers /\ r.writers = p.writers - 1
                   /\ r.used <=> (r.readers # 0 \/ r.writers # 0)
                   /\ r.used => r.count = p.count
BY FreePipeType DEF PipeRecord, pipe_close_read, pipe_close_write, pipe_maybe_release

-----------------------------------------------------------------------------
\* Counting descriptors.

Pipes == [PipeId -> PipeRecord]

Tables == [Proc -> [Fd -> Ends \cup {Closed, Console}]]

End(kind, k) == [kind |-> kind, pipe |-> k]

Named(F, kind, k) == {h \in Proc \X Fd : F[h[1]][h[2]] = End(kind, k)}

Count(F, kind, k) == Cardinality(Named(F, kind, k))

Put(F, t, fd, f) == [F EXCEPT ![t][fd] = f]

\* The descriptors of end e, n so far, after one slot went from a to b.
Moved(n, a, b, e) ==
    IF a = e /\ b # e THEN n - 1 ELSE IF a # e /\ b = e THEN n + 1 ELSE n

Counted(P, F) ==
    \A k \in PipeId :
       /\ P[k].readers = Count(F, "PIPE_R", k)
       /\ P[k].writers = Count(F, "PIPE_W", k)
       /\ P[k].used <=> (P[k].readers # 0 \/ P[k].writers # 0)

LEMMA NamedFinite ==
    ASSUME NEW F, NEW kind, NEW k
    PROVE  IsFiniteSet(Named(F, kind, k)) /\ Count(F, kind, k) \in Nat
<1>1. IsFiniteSet(Fd)
  BY TasksAssumption, FS_Interval DEF Fd
<1>2. IsFiniteSet(Proc \X Fd)
  BY <1>1, TasksAssumption, FS_Product
<1>3. IsFiniteSet(Named(F, kind, k))
  BY <1>2, FS_Subset DEF Named
<1> QED BY <1>3, FS_CardinalityType DEF Count

LEMMA PutIs ==
    ASSUME NEW F \in Tables, NEW t \in Proc, NEW fd \in Fd,
           NEW f \in Ends \cup {Closed, Console}
    PROVE  /\ Put(F, t, fd, f) \in Tables
           /\ Put(F, t, fd, f)[t][fd] = f
           /\ \A u \in Proc, v \in Fd :
                 ~(u = t /\ v = fd) => Put(F, t, fd, f)[u][v] = F[u][v]
BY DEF Put, Tables

LEMMA PutCount ==
    ASSUME NEW F \in Tables, NEW t \in Proc, NEW fd \in Fd,
           NEW f \in Ends \cup {Closed, Console}, NEW kind, NEW k
    PROVE  Count(Put(F, t, fd, f), kind, k)
             = Moved(Count(F, kind, k), F[t][fd], f, End(kind, k))
<1> DEFINE A == Named(F, kind, k)
           B == Named(Put(F, t, fd, f), kind, k)
           h == <<t, fd>>
<1>1. \A g \in Proc \X Fd : g # h => (g \in B <=> g \in A)
  BY PutIs DEF Named
<1>2. /\ h \in Proc \X Fd /\ (h \in A <=> F[t][fd] = End(kind, k))
      /\ h \in B <=> f = End(kind, k)
  BY PutIs DEF Named
<1>3. A \subseteq Proc \X Fd /\ B \subseteq Proc \X Fd
  BY DEF Named
<1>4. IsFiniteSet(A) /\ IsFiniteSet(B) /\ Cardinality(A) \in Nat
  BY NamedFinite DEF Count
<1> HIDE DEF A, B, h
<1>5. CASE h \in A /\ h \notin B
  <2>1. B = A \ {h}
    BY <1>1, <1>3, <1>5, Zenon
  <2>2. Cardinality(B) = Cardinality(A) - 1
    BY <1>4, <1>5, <2>1, FS_RemoveElement, Zenon
  <2> QED BY <1>2, <1>5, <2>2 DEF Count, Moved, A, B
<1>6. CASE h \notin A /\ h \in B
  <2>1. B = A \cup {h}
    BY <1>1, <1>3, <1>6, Zenon
  <2>2. Cardinality(B) = Cardinality(A) + 1
    BY <1>4, <1>6, <2>1, FS_AddElement, Zenon
  <2> QED BY <1>2, <1>6, <2>2 DEF Count, Moved, A, B
<1>7. CASE h \in A <=> h \in B
  <2>1. B = A
    BY <1>1, <1>3, <1>7
  <2> QED BY <1>2, <1>7, <2>1, Zenon DEF Count, Moved, A, B
<1> QED BY <1>5, <1>6, <1>7, Zenon

\* An open descriptor is counted, so its pipe is in use.
LEMMA OpenEnd ==
    ASSUME NEW P \in Pipes, NEW F \in Tables, Counted(P, F), NEW t \in Proc, NEW fd \in Fd,
           F[t][fd] \in Ends
    PROVE  /\ F[t][fd].pipe \in PipeId /\ P[F[t][fd].pipe].used
           /\ F[t][fd].kind = "PIPE_R" => P[F[t][fd].pipe].readers > 0
           /\ F[t][fd].kind = "PIPE_W" => P[F[t][fd].pipe].writers > 0
           /\ F[t][fd].kind = "PIPE_R" \/ F[t][fd].kind = "PIPE_W"
<1> DEFINE f == F[t][fd]
<1>1. /\ f.pipe \in PipeId /\ f.kind \in {"PIPE_R", "PIPE_W"}
      /\ f = End(f.kind, f.pipe)
  BY DEF Ends, End
<1>2. <<t, fd>> \in Named(F, f.kind, f.pipe)
  BY <1>1 DEF Named
<1>3. Count(F, f.kind, f.pipe) # 0 /\ Count(F, f.kind, f.pipe) \in Nat
  BY <1>2, NamedFinite, FS_EmptySet DEF Count
<1> QED BY <1>1, <1>3 DEF Counted, Pipes, PipeRecord

\* References only added, to ends that had one; and only taken away.
Grows(P, Q) ==
    \A k \in PipeId :
       /\ Q[k].used = P[k].used /\ Q[k].count = P[k].count
       /\ Q[k].readers >= P[k].readers /\ (P[k].readers = 0 => Q[k].readers = 0)
       /\ Q[k].writers >= P[k].writers /\ (P[k].writers = 0 => Q[k].writers = 0)

Shrinks(P, Q) ==
    \A k \in PipeId : Q[k].used =>
       /\ P[k].used /\ Q[k].count = P[k].count
       /\ Q[k].readers <= P[k].readers /\ Q[k].writers <= P[k].writers

LEMMA NotEnds == Closed \notin Ends /\ Console \notin Ends
BY DEF Closed, Console, Ends

LEMMA EndIs ==
    ASSUME NEW f \in Ends
    PROVE  /\ f.pipe \in PipeId
           /\ \A kind, k : f = End(kind, k) <=> f.kind = kind /\ f.pipe = k
           /\ f.kind = "PIPE_R" \/ f.kind = "PIPE_W"
BY DEF Ends, End

LEMMA EndType ==
    ASSUME NEW kind \in {"PIPE_R", "PIPE_W"}, NEW k \in PipeId
    PROVE  End(kind, k) \in Ends /\ End(kind, k).pipe = k /\ End(kind, k).kind = kind
BY DEF Ends, End

\* A free slot becomes a copy of an open descriptor (task_fd_ref).
LEMMA AddEnd ==
    ASSUME NEW P \in Pipes, NEW F \in Tables, Counted(P, F),
           NEW t \in Proc, NEW fd \in Fd, F[t][fd] \notin Ends,
           NEW u \in Proc, NEW v \in Fd
    PROVE  /\ task_fd_ref(P, F[u][v]) \in Pipes
           /\ Counted(task_fd_ref(P, F[u][v]), Put(F, t, fd, F[u][v]))
           /\ Grows(P, task_fd_ref(P, F[u][v]))
<1> DEFINE f == F[u][v]
           Q == task_fd_ref(P, f)
           G == Put(F, t, fd, f)
<1>0. f \in Ends \cup {Closed, Console}
  BY DEF Tables
<1>1. ASSUME NEW kind \in {"PIPE_R", "PIPE_W"}, NEW k \in PipeId
      PROVE  Count(G, kind, k) = IF f = End(kind, k) THEN Count(F, kind, k) + 1
                                 ELSE Count(F, kind, k)
  <2>1. End(kind, k) \in Ends
    BY DEF Ends, End
  <2>2. Count(G, kind, k) = Moved(Count(F, kind, k), F[t][fd], f, End(kind, k))
    BY <1>0, PutCount
  <2> HIDE DEF G, f
  <2> QED BY <2>1, <2>2 DEF Moved
<1>2. CASE f \notin Ends
  <2>1. f.kind # "PIPE_R" /\ f.kind # "PIPE_W"
    BY <1>0, <1>2 DEF Closed, Console
  <2>2. Q = P
    BY <2>1 DEF task_fd_ref
  <2>3. ASSUME NEW kind \in {"PIPE_R", "PIPE_W"}, NEW k \in PipeId
        PROVE  Count(G, kind, k) = Count(F, kind, k)
    <3>1. End(kind, k) \in Ends
      BY DEF Ends, End
    <3> QED BY <1>1, <1>2, <3>1, Zenon
  <2>4. Counted(Q, G)
    BY <2>2, <2>3, Zenon DEF Counted
  <2>5. Grows(P, Q)
    BY <2>2 DEF Grows, Pipes, PipeRecord
  <2> QED BY <2>2, <2>4, <2>5, Zenon
<1>3. CASE f \in Ends
  <2> DEFINE j == f.pipe
  <2>1. /\ j \in PipeId /\ P[j] \in PipeRecord /\ P[j].used
        /\ f.kind = "PIPE_R" => P[j].readers > 0
        /\ f.kind = "PIPE_W" => P[j].writers > 0
        /\ f.kind = "PIPE_R" \/ f.kind = "PIPE_W"
    BY <1>3, OpenEnd, Zenon DEF Pipes
  <2>2. /\ Q[j] \in PipeRecord /\ Q[j].used /\ Q[j].count = P[j].count
        /\ Q[j].readers = IF f.kind = "PIPE_R" THEN P[j].readers + 1 ELSE P[j].readers
        /\ Q[j].writers = IF f.kind = "PIPE_W" THEN P[j].writers + 1 ELSE P[j].writers
        /\ Q \in Pipes
        /\ \A k \in PipeId : k # j => Q[k] = P[k]
    <3> HIDE DEF f
    <3> QED BY <2>1, RefPipe, Zenon DEF task_fd_ref, Pipes
  <2>3. ASSUME NEW k \in PipeId
        PROVE  /\ f = End("PIPE_R", k) <=> f.kind = "PIPE_R" /\ j = k
               /\ f = End("PIPE_W", k) <=> f.kind = "PIPE_W" /\ j = k
    BY <1>3, EndIs
  <2> HIDE DEF f, Q, G, j
  <2>4. Counted(Q, G)
    <3>1. ASSUME NEW k \in PipeId, k # j
          PROVE  /\ Q[k].readers = Count(G, "PIPE_R", k)
                 /\ Q[k].writers = Count(G, "PIPE_W", k)
                 /\ Q[k].used <=> (Q[k].readers # 0 \/ Q[k].writers # 0)
      BY <1>1, <2>2, <2>3, <3>1, Zenon DEF Counted
    <3>2. /\ Q[j].readers = Count(G, "PIPE_R", j)
          /\ Q[j].writers = Count(G, "PIPE_W", j)
      BY <1>1, <2>1, <2>2, <2>3 DEF Counted
    <3>3. Q[j].used <=> (Q[j].readers # 0 \/ Q[j].writers # 0)
      BY <2>1, <2>2 DEF PipeRecord
    <3> QED BY <3>1, <3>2, <3>3, Zenon DEF Counted
  <2>5. Grows(P, Q)
    <3>1. \A k \in PipeId : P[k].readers \in Nat /\ P[k].writers \in Nat
      BY DEF Pipes, PipeRecord
    <3>2. ASSUME NEW k \in PipeId, k # j
          PROVE  /\ Q[k].used = P[k].used /\ Q[k].count = P[k].count
                 /\ Q[k].readers >= P[k].readers /\ (P[k].readers = 0 => Q[k].readers = 0)
                 /\ Q[k].writers >= P[k].writers /\ (P[k].writers = 0 => Q[k].writers = 0)
      BY <2>2, <3>1, <3>2
    <3>3. /\ Q[j].used = P[j].used /\ Q[j].count = P[j].count
          /\ Q[j].readers >= P[j].readers /\ (P[j].readers = 0 => Q[j].readers = 0)
          /\ Q[j].writers >= P[j].writers /\ (P[j].writers = 0 => Q[j].writers = 0)
      BY <2>1, <2>2, <3>1 DEF PipeRecord
    <3> QED BY <3>2, <3>3, Zenon DEF Grows
  <2> QED BY <2>2, <2>4, <2>5, Zenon DEF Q, G, f
<1> QED BY <1>2, <1>3

\* An open slot is closed (task_fd_drop).
LEMMA DropEnd ==
    ASSUME NEW P \in Pipes, NEW F \in Tables, Counted(P, F), NEW t \in Proc, NEW fd \in Fd
    PROVE  /\ task_fd_drop(P, F[t][fd]) \in Pipes
           /\ Counted(task_fd_drop(P, F[t][fd]), Put(F, t, fd, Closed))
           /\ Shrinks(P, task_fd_drop(P, F[t][fd]))
           /\ F[t][fd] \notin Ends => task_fd_drop(P, F[t][fd]) = P
           /\ \A k \in PipeId : k # F[t][fd].pipe => task_fd_drop(P, F[t][fd])[k] = P[k]
<1> DEFINE f == F[t][fd]
           Q == task_fd_drop(P, f)
           G == Put(F, t, fd, Closed)
<1>0. f \in Ends \cup {Closed, Console}
  BY DEF Tables
<1>1. ASSUME NEW kind \in {"PIPE_R", "PIPE_W"}, NEW k \in PipeId
      PROVE  Count(G, kind, k) = IF f = End(kind, k) THEN Count(F, kind, k) - 1
                                 ELSE Count(F, kind, k)
  <2>1. End(kind, k) # Closed
    BY DEF Closed, End
  <2>2. Count(G, kind, k) = Moved(Count(F, kind, k), f, Closed, End(kind, k))
    BY PutCount
  <2> HIDE DEF G, f
  <2> QED BY <2>1, <2>2, Zenon DEF Moved
<1>2. CASE f \notin Ends
  <2>1. f.kind # "PIPE_R" /\ f.kind # "PIPE_W"
    BY <1>0, <1>2 DEF Closed, Console
  <2>2. Q = P
    BY <2>1 DEF task_fd_drop
  <2>3. ASSUME NEW kind \in {"PIPE_R", "PIPE_W"}, NEW k \in PipeId
        PROVE  Count(G, kind, k) = Count(F, kind, k)
    <3>1. End(kind, k) \in Ends
      BY DEF Ends, End
    <3> QED BY <1>1, <1>2, <3>1, Zenon
  <2>4. Counted(Q, G)
    BY <2>2, <2>3, Zenon DEF Counted
  <2>5. Shrinks(P, Q)
    BY <2>2 DEF Shrinks, Pipes, PipeRecord
  <2> QED BY <2>2, <2>4, <2>5, Zenon
<1>3. CASE f \in Ends
  <2> DEFINE j == f.pipe
  <2>1. /\ j \in PipeId /\ P[j] \in PipeRecord /\ P[j].used
        /\ f.kind = "PIPE_R" => P[j].readers > 0
        /\ f.kind = "PIPE_W" => P[j].writers > 0
        /\ f.kind = "PIPE_R" \/ f.kind = "PIPE_W"
    BY <1>3, OpenEnd, Zenon DEF Pipes
  <2>2. /\ Q[j] \in PipeRecord /\ (Q[j].used => Q[j].count = P[j].count)
        /\ Q[j].readers = IF f.kind = "PIPE_R" THEN P[j].readers - 1 ELSE P[j].readers
        /\ Q[j].writers = IF f.kind = "PIPE_W" THEN P[j].writers - 1 ELSE P[j].writers
        /\ Q[j].used <=> (Q[j].readers # 0 \/ Q[j].writers # 0)
        /\ Q \in Pipes
        /\ \A k \in PipeId : k # j => Q[k] = P[k]
    <3> HIDE DEF f
    <3> QED BY <2>1, ClosePipe DEF task_fd_drop, Pipes
  <2>3. ASSUME NEW k \in PipeId
        PROVE  /\ f = End("PIPE_R", k) <=> f.kind = "PIPE_R" /\ j = k
               /\ f = End("PIPE_W", k) <=> f.kind = "PIPE_W" /\ j = k
    BY <1>3, EndIs
  <2> HIDE DEF f, Q, G, j
  <2>4. Counted(Q, G)
    <3>1. ASSUME NEW k \in PipeId, k # j
          PROVE  /\ Q[k].readers = Count(G, "PIPE_R", k)
                 /\ Q[k].writers = Count(G, "PIPE_W", k)
                 /\ Q[k].used <=> (Q[k].readers # 0 \/ Q[k].writers # 0)
      BY <1>1, <2>2, <2>3, <3>1, Zenon DEF Counted
    <3>2. /\ Q[j].readers = Count(G, "PIPE_R", j)
          /\ Q[j].writers = Count(G, "PIPE_W", j)
      BY <1>1, <2>1, <2>2, <2>3 DEF Counted
    <3> QED BY <2>2, <3>1, <3>2, Zenon DEF Counted
  <2>5. Shrinks(P, Q)
    <3>1. \A k \in PipeId : P[k].readers \in Nat /\ P[k].writers \in Nat
      BY DEF Pipes, PipeRecord
    <3>2. ASSUME NEW k \in PipeId, k # j
          PROVE  Q[k].used => /\ P[k].used /\ Q[k].count = P[k].count
                              /\ Q[k].readers <= P[k].readers
                              /\ Q[k].writers <= P[k].writers
      BY <2>2, <3>1, <3>2
    <3>3. Q[j].used => /\ P[j].used /\ Q[j].count = P[j].count
                       /\ Q[j].readers <= P[j].readers /\ Q[j].writers <= P[j].writers
      BY <2>1, <2>2, <3>1
    <3> QED BY <3>2, <3>3, Zenon DEF Shrinks
  <2> QED BY <1>3, <2>2, <2>4, <2>5, Zenon DEF Q, G, f, j
<1> QED BY <1>2, <1>3, Zenon

-----------------------------------------------------------------------------
\* The state as a whole.

TaskRecord == [state : {"UNUSED", "RUNNABLE", "WAITING", "STOPPED"},
               obj : PipeId \cup {0}, call : Calls \cup {NoCall}]

States == [pipes : Pipes, fds : Tables, task : [Proc -> TaskRecord]]

\* The call with which task q sleeps would block again.
WaitsRight(S, q) ==
    LET r == S.task[q]
        pipe == S.pipes[r.obj]
    IN /\ r.call \in Calls /\ r.obj \in PipeId
       /\ \/ /\ S.fds[q][r.call.fd] = End("PIPE_R", r.obj)
             /\ pipe.count = 0 /\ pipe_has_writers(pipe)
          \/ /\ S.fds[q][r.call.fd] = End("PIPE_W", r.obj)
             /\ pipe.count = PIPE_CAPACITY /\ pipe_has_readers(pipe)

Asleep(S) == \A q \in Proc : S.task[q].state = "WAITING" => WaitsRight(S, q)

\* A free task slot has no open descriptors.
Tidy(S) == \A q \in Proc, fd \in Fd : S.task[q].state = "UNUSED" => S.fds[q][fd] = Closed

\* The inductive invariant.  Without a bad buffer every sleeper is right.
Good(S) ==
    /\ S \in States
    /\ Counted(S.pipes, S.fds)
    /\ Tidy(S)
    /\ TRUE \notin BadBuffer => Asleep(S)

\* A pipe as good to a sleeper as before.
SameReady(p, r) ==
    /\ r.count = p.count
    /\ pipe_has_readers(p) => pipe_has_readers(r)
    /\ pipe_has_writers(p) => pipe_has_writers(r)

LEMMA AsleepKept ==
    ASSUME NEW S, NEW R, Asleep(S),
           \A q \in Proc : R.task[q].state = "WAITING" =>
              /\ R.task[q] = S.task[q]
              /\ R.fds[q][S.task[q].call.fd] = S.fds[q][S.task[q].call.fd]
              /\ SameReady(S.pipes[S.task[q].obj], R.pipes[S.task[q].obj])
    PROVE  Asleep(R)
<1> SUFFICES ASSUME NEW q \in Proc, R.task[q].state = "WAITING" PROVE WaitsRight(R, q)
  BY DEF Asleep
<1>1. /\ R.task[q] = S.task[q]
      /\ R.fds[q][S.task[q].call.fd] = S.fds[q][S.task[q].call.fd]
      /\ SameReady(S.pipes[S.task[q].obj], R.pipes[S.task[q].obj])
  OBVIOUS
<1>2. WaitsRight(S, q)
  BY <1>1, Zenon DEF Asleep
<1> QED BY <1>1, <1>2, Zenon DEF WaitsRight, SameReady

\* task_wake_pipe leaves nobody asleep on pipe k.
Woken(S, R, k) ==
    /\ R \in States /\ R.pipes = S.pipes /\ R.fds = S.fds
    /\ \A q \in Proc :
          /\ R.task[q].state = "WAITING" => R.task[q] = S.task[q] /\ S.task[q].obj # k
          /\ R.task[q].state = "UNUSED" <=> S.task[q].state = "UNUSED"
          /\ S.task[q].state # "WAITING" => R.task[q] = S.task[q]

LEMMA WakeIs ==
    ASSUME NEW S \in States, NEW k
    PROVE  Woken(S, task_wake_pipe(S, k), k)
<1> DEFINE T == [q \in Proc |->
                   IF S.task[q].state = "WAITING" /\ S.task[q].obj = k
                   THEN [S.task[q] EXCEPT !.state = "RUNNABLE", !.obj = 0] ELSE S.task[q]]
           R == task_wake_pipe(S, k)
<1>1. \A q \in Proc : S.task[q] \in TaskRecord
  BY DEF States
<1>2. ASSUME NEW q \in Proc
      PROVE  /\ T[q] \in TaskRecord
             /\ T[q].state = "WAITING" => T[q] = S.task[q] /\ S.task[q].obj # k
             /\ T[q].state = "UNUSED" <=> S.task[q].state = "UNUSED"
             /\ S.task[q].state # "WAITING" => T[q] = S.task[q]
  BY <1>1, Zenon DEF TaskRecord
<1>3. /\ R = [S EXCEPT !.task = T]
      /\ T \in [Proc -> TaskRecord]
  BY <1>2, Zenon DEF task_wake_pipe
<1> HIDE DEF R, T
<1>4. R \in States /\ R.pipes = S.pipes /\ R.fds = S.fds /\ R.task = T
  BY <1>3 DEF States
<1> QED BY <1>2, <1>4, Zenon DEF Woken, R

\* Closing one descriptor.
Closes(S, R, p, fd) ==
    /\ R \in States
    /\ R.fds = Put(S.fds, p, fd, Closed)
    /\ Counted(R.pipes, R.fds)
    /\ Shrinks(S.pipes, R.pipes)
    /\ Asleep(S) => Asleep(R)
    /\ \A q \in Proc : /\ R.task[q].state = "UNUSED" <=> S.task[q].state = "UNUSED"
                       /\ S.task[q].state # "WAITING" => R.task[q] = S.task[q]

LEMMA CloseOK ==
    ASSUME NEW S \in States, Counted(S.pipes, S.fds), NEW p \in Proc, NEW fd \in Fd
    PROVE  Closes(S, task_fd_close(S, p, fd), p, fd)
<1> DEFINE f == S.fds[p][fd]
           Q == task_fd_drop(S.pipes, f)
           G == Put(S.fds, p, fd, Closed)
           M == [S EXCEPT !.pipes = Q, !.fds[p][fd] = Closed]
           R == task_fd_close(S, p, fd)
<1>1. S.pipes \in Pipes /\ S.fds \in Tables /\ S.task \in [Proc -> TaskRecord]
  BY DEF States
<1>2. /\ Q \in Pipes /\ Counted(Q, G) /\ Shrinks(S.pipes, Q)
      /\ f \notin Ends => Q = S.pipes
      /\ \A k \in PipeId : k # f.pipe => Q[k] = S.pipes[k]
  BY <1>1, DropEnd
<1>3. /\ G \in Tables
      /\ \A u \in Proc, v \in Fd : ~(u = p /\ v = fd) => G[u][v] = S.fds[u][v]
  BY <1>1, PutIs
<1>4. R = IF f \in Ends THEN task_wake_pipe(M, f.pipe) ELSE M
  BY DEF task_fd_close
<1>5. M \in States /\ M.pipes = Q /\ M.fds = G /\ M.task = S.task
  <2>1. M = [S EXCEPT !.pipes = Q, !.fds = G]
    BY DEF States, Put
  <2> HIDE DEF M, Q, G
  <2> QED BY <1>1, <1>2, <1>3, <2>1, Zenon DEF States
<1> HIDE DEF M, Q, G, R, f
<1>6. /\ R \in States /\ R.pipes = Q /\ R.fds = G
      /\ \A q \in Proc :
          /\ R.task[q].state = "WAITING" =>
                R.task[q] = S.task[q] /\ (f \in Ends => S.task[q].obj # f.pipe)
          /\ R.task[q].state = "UNUSED" <=> S.task[q].state = "UNUSED"
          /\ S.task[q].state # "WAITING" => R.task[q] = S.task[q]
  <2>1. CASE f \in Ends
    <3>1. Woken(M, R, f.pipe)
      BY <1>4, <1>5, <2>1, WakeIs, Zenon
    <3> QED BY <1>5, <2>1, <3>1, Zenon DEF Woken
  <2>2. CASE f \notin Ends
    BY <1>4, <1>5, <2>2, Zenon
  <2> QED BY <2>1, <2>2, Zenon
<1>7. ASSUME Asleep(S) PROVE Asleep(R)
  <2>1. ASSUME NEW q \in Proc, R.task[q].state = "WAITING"
        PROVE  /\ R.task[q] = S.task[q]
               /\ R.fds[q][S.task[q].call.fd] = S.fds[q][S.task[q].call.fd]
               /\ SameReady(S.pipes[S.task[q].obj], R.pipes[S.task[q].obj])
    <3>1. R.task[q] = S.task[q] /\ (f \in Ends => S.task[q].obj # f.pipe)
      BY <1>6, <2>1, Zenon
    <3> DEFINE r == S.task[q]
    <3>2. WaitsRight(S, q)
      BY <1>7, <2>1, <3>1, Zenon DEF Asleep
    <3>3. /\ r.call.fd \in Fd /\ r.obj \in PipeId
          /\ \/ S.fds[q][r.call.fd] = End("PIPE_R", r.obj)
             \/ S.fds[q][r.call.fd] = End("PIPE_W", r.obj)
      <4>1. r.call \in Calls
        BY <3>2, Zenon DEF WaitsRight
      <4>2. r.call.fd \in Fd
        BY <4>1 DEF Calls
      <4> QED BY <3>2, <4>2, Zenon DEF WaitsRight
    <3>4. /\ S.fds[q][r.call.fd] \in Ends
          /\ S.fds[q][r.call.fd].pipe = r.obj
      BY <3>3, EndType
    <3>5. ~(q = p /\ r.call.fd = fd)
      BY <3>1, <3>4, Zenon DEF f
    <3>6. R.fds[q][r.call.fd] = S.fds[q][r.call.fd]
      BY <1>3, <1>6, <3>3, <3>5, Zenon
    <3>7. R.pipes[r.obj] = S.pipes[r.obj]
      BY <1>2, <1>6, <3>1, <3>3, Zenon
    <3> QED BY <3>1, <3>6, <3>7, Zenon DEF SameReady
  <2> QED BY <1>7, <2>1, AsleepKept, Zenon
<1> QED BY <1>2, <1>6, <1>7, Zenon DEF Closes, R, G

-----------------------------------------------------------------------------
\* Exit closes every descriptor: the state R after the first n of them.
Closing(S, R, p, n) ==
    /\ R \in States
    /\ Counted(R.pipes, R.fds)
    /\ Shrinks(S.pipes, R.pipes)
    /\ Asleep(S) => Asleep(R)
    /\ \A fd \in Fd : fd < n => R.fds[p][fd] = Closed
    /\ \A q \in Proc, fd \in Fd : q # p => R.fds[q][fd] = S.fds[q][fd]
    /\ \A q \in Proc : R.task[q].state = "UNUSED" <=> S.task[q].state = "UNUSED"

LEMMA ShrinksTrans ==
    ASSUME NEW P \in Pipes, NEW Q \in Pipes, NEW R \in Pipes, Shrinks(P, Q), Shrinks(Q, R)
    PROVE  Shrinks(P, R)
<1>1. ASSUME NEW k \in PipeId
      PROVE  /\ P[k].readers \in Nat /\ Q[k].readers \in Nat /\ R[k].readers \in Nat
             /\ P[k].writers \in Nat /\ Q[k].writers \in Nat /\ R[k].writers \in Nat
  BY DEF Pipes, PipeRecord
<1>2. ASSUME NEW k \in PipeId, R[k].used
      PROVE  /\ P[k].used /\ R[k].count = P[k].count
             /\ R[k].readers <= P[k].readers /\ R[k].writers <= P[k].writers
  <2>1. /\ Q[k].used /\ R[k].count = Q[k].count
        /\ R[k].readers <= Q[k].readers /\ R[k].writers <= Q[k].writers
    BY <1>2 DEF Shrinks
  <2>2. /\ P[k].used /\ Q[k].count = P[k].count
        /\ Q[k].readers <= P[k].readers /\ Q[k].writers <= P[k].writers
    BY <2>1 DEF Shrinks
  <2> QED BY <1>1, <2>1, <2>2
<1> QED BY <1>2 DEF Shrinks

LEMMA ClosingStep ==
    ASSUME NEW S \in States, NEW p \in Proc, NEW n \in Fd, NEW R, Closing(S, R, p, n)
    PROVE  Closing(S, task_fd_close(R, p, n), p, n + 1)
<1> DEFINE Q == task_fd_close(R, p, n)
<1>1. R \in States /\ Counted(R.pipes, R.fds) /\ R.fds \in Tables
  BY DEF Closing, States
<1>2. Closes(R, Q, p, n)
  BY <1>1, CloseOK, Zenon
<1> HIDE DEF Q
<1>3. Q \in States /\ Counted(Q.pipes, Q.fds) /\ Q.fds = Put(R.fds, p, n, Closed)
  BY <1>2 DEF Closes
<1>4. Shrinks(S.pipes, Q.pipes)
  <2>1. S.pipes \in Pipes /\ R.pipes \in Pipes /\ Q.pipes \in Pipes
    BY <1>1, <1>3, Zenon DEF States
  <2>2. Shrinks(S.pipes, R.pipes) /\ Shrinks(R.pipes, Q.pipes)
    BY <1>2 DEF Closing, Closes
  <2> QED BY <2>1, <2>2, ShrinksTrans, Zenon
<1>5. Asleep(S) => Asleep(Q)
  BY <1>2 DEF Closing, Closes
<1>6. /\ Q.fds[p][n] = Closed
      /\ \A u \in Proc, v \in Fd : ~(u = p /\ v = n) => Q.fds[u][v] = R.fds[u][v]
  BY <1>1, <1>3, PutIs
<1>7. \A fd \in Fd : fd < n + 1 => Q.fds[p][fd] = Closed
  <2>1. \A fd \in Fd : fd < n + 1 => fd = n \/ fd < n
    BY DEF Fd
  <2>2. \A fd \in Fd : fd < n => R.fds[p][fd] = Closed
    BY DEF Closing
  <2> QED BY <1>6, <2>1, <2>2
<1>8. \A q \in Proc, fd \in Fd : q # p => Q.fds[q][fd] = S.fds[q][fd]
  BY <1>6 DEF Closing
<1>9. \A q \in Proc : Q.task[q].state = "UNUSED" <=> S.task[q].state = "UNUSED"
  BY <1>2, Zenon DEF Closing, Closes
<1> QED BY <1>3, <1>4, <1>5, <1>7, <1>8, <1>9, Zenon DEF Closing, Q

LEMMA CloseAllOK ==
    ASSUME NEW S \in States, Counted(S.pipes, S.fds), NEW p \in Proc
    PROVE  Closing(S, CloseAll(S, p), p, MAX_FDS)
<1> DEFINE X == [n \in 0 .. MAX_FDS |-> {R \in States : Closing(S, R, p, n)}]
           D == [n \in Fd |-> [R \in X[n] |-> task_fd_close(R, p, n)]]
           after == CHOOSE g : g = [n \in 0 .. MAX_FDS |->
                                      IF n = 0 THEN S ELSE task_fd_close(g[n - 1], p, n - 1)]
<1>0. MAX_FDS \in Nat /\ Fd = 0 .. MAX_FDS - 1 /\ \A n \in Fd : n + 1 \in 0 .. MAX_FDS
  BY TasksAssumption DEF Fd
<1>1. S \in X[0]
  <2>1. Shrinks(S.pipes, S.pipes)
    BY DEF Shrinks, States, Pipes, PipeRecord
  <2>2. \A fd \in Fd : ~(fd < 0)
    BY <1>0
  <2>3. Closing(S, S, p, 0)
    BY <2>1, <2>2, Zenon DEF Closing
  <2> QED BY <1>0, <2>3
<1>2. ASSUME NEW n \in Fd, NEW R \in X[n]
      PROVE  task_fd_close(R, p, n) \in X[n + 1]
  <2>1. Closing(S, R, p, n)
    BY <1>0
  <2>2. Closing(S, task_fd_close(R, p, n), p, n + 1)
    BY <2>1, ClosingStep, Zenon
  <2>3. task_fd_close(R, p, n) \in States
    BY <2>2 DEF Closing
  <2> QED BY <1>0, <2>2, <2>3, Zenon
<1>3. \E g : g = [n \in 0 .. MAX_FDS |->
                    IF n = 0 THEN S ELSE task_fd_close(g[n - 1], p, n - 1)]
  <2> HIDE DEF X
  <2>1. \A n \in 0 .. MAX_FDS - 1 : \A R \in X[n] :
           D[n][R] = task_fd_close(R, p, n) /\ D[n][R] \in X[n + 1]
    BY <1>0, <1>2, Zenon
  <2> HIDE DEF D
  <2>2. PICK g : Run(g, X, D, S, MAX_FDS)
    BY <1>0, <1>1, <2>1, LoopRuns, Zenon
  <2>3. ASSUME NEW n \in 0 .. MAX_FDS, n # 0
        PROVE  D[n - 1][g[n - 1]] = task_fd_close(g[n - 1], p, n - 1)
    <3>1. n - 1 \in 0 .. MAX_FDS - 1 /\ n - 1 \in 0 .. MAX_FDS
      BY <1>0, <2>3
    <3> QED BY <2>1, <2>2, <3>1, Zenon DEF Run
  <2>4. g = [n \in 0 .. MAX_FDS |->
               IF n = 0 THEN S ELSE task_fd_close(g[n - 1], p, n - 1)]
    BY <2>2, <2>3, Zenon DEF Run
  <2> QED BY <2>4, Zenon
<1>4. after = [n \in 0 .. MAX_FDS |->
                 IF n = 0 THEN S ELSE task_fd_close(after[n - 1], p, n - 1)]
  BY <1>3, Zenon
<1>5. CloseAll(S, p) = after[MAX_FDS]
  BY DEF CloseAll
<1> HIDE DEF after, X, D
<1>6. after[0] \in X[0]
  BY <1>0, <1>1, <1>4
<1>7. ASSUME NEW n \in 0 .. MAX_FDS - 1, after[n] \in X[n]
      PROVE  after[n + 1] \in X[n + 1]
  <2>1. after[n + 1] = task_fd_close(after[n], p, n)
    BY <1>0, <1>4
  <2> QED BY <1>0, <1>2, <1>7, <2>1, Zenon
<1>8. after[MAX_FDS] \in X[MAX_FDS]
  BY <1>0, <1>6, <1>7, LoopKeeps, Zenon
<1> QED BY <1>0, <1>5, <1>8 DEF X

-----------------------------------------------------------------------------
\* Fork counts every copied descriptor: the table and the pipes after the
\* first n of them.
Copied(F, p, q, n) == [F EXCEPT ![q] = [fd \in Fd |-> IF fd < n THEN F[p][fd] ELSE Closed]]

Copying(P, F, R, p, q, n) ==
    /\ R \in Pipes
    /\ Counted(R, Copied(F, p, q, n))
    /\ Grows(P, R)

LEMMA CopiedIs ==
    ASSUME NEW F \in Tables, NEW p \in Proc, NEW q \in Proc, p # q,
           \A fd \in Fd : F[q][fd] = Closed
    PROVE  /\ Copied(F, p, q, 0) = F
           /\ Copied(F, p, q, MAX_FDS) = [F EXCEPT ![q] = F[p]]
           /\ \A n \in Fd : /\ Copied(F, p, q, n) \in Tables
                            /\ Copied(F, p, q, n)[p][n] = F[p][n]
                            /\ Copied(F, p, q, n)[q][n] = Closed
                            /\ Copied(F, p, q, n + 1) = Put(Copied(F, p, q, n), q, n, F[p][n])
<1> DEFINE row(n) == [fd \in Fd |-> IF fd < n THEN F[p][fd] ELSE Closed]
<1>0. F[p] \in [Fd -> Ends \cup {Closed, Console}] /\ F[q] \in [Fd -> Ends \cup {Closed, Console}]
  BY DEF Tables
<1>1. row(0) = F[q]
  <2>1. \A fd \in Fd : ~(fd < 0)
    BY DEF Fd
  <2> QED BY <1>0, <2>1, Zenon
<1>2. row(MAX_FDS) = F[p]
  <2>1. \A fd \in Fd : fd < MAX_FDS
    BY TasksAssumption DEF Fd
  <2> QED BY <1>0, <2>1, Zenon
<1>3. ASSUME NEW n \in Fd
      PROVE  /\ row(n) \in [Fd -> Ends \cup {Closed, Console}]
             /\ row(n)[n] = Closed
             /\ row(n + 1) = [row(n) EXCEPT ![n] = F[p][n]]
  <2>1. \A fd \in Fd : fd < n + 1 <=> fd < n \/ fd = n
    BY DEF Fd
  <2>2. ~(n < n)
    BY DEF Fd
  <2> QED BY <1>0, <2>1, <2>2, Zenon
<1>4. \A n : Copied(F, p, q, n) = [F EXCEPT ![q] = row(n)]
  BY DEF Copied
<1> HIDE DEF row
<1>5. Copied(F, p, q, 0) = F /\ Copied(F, p, q, MAX_FDS) = [F EXCEPT ![q] = F[p]]
  BY <1>1, <1>2, <1>4 DEF Tables
<1>6. ASSUME NEW n \in Fd
      PROVE  /\ Copied(F, p, q, n) \in Tables
             /\ Copied(F, p, q, n)[p][n] = F[p][n]
             /\ Copied(F, p, q, n)[q][n] = Closed
             /\ Copied(F, p, q, n + 1) = Put(Copied(F, p, q, n), q, n, F[p][n])
  <2>1. Copied(F, p, q, n) = [F EXCEPT ![q] = row(n)]
    BY <1>4, Zenon
  <2>2. Copied(F, p, q, n + 1) = [F EXCEPT ![q] = [row(n) EXCEPT ![n] = F[p][n]]]
    BY <1>3, <1>4, Zenon
  <2> QED BY <1>3, <2>1, <2>2, Zenon DEF Put, Tables
<1> QED BY <1>5, <1>6, Zenon

LEMMA GrowsTrans ==
    ASSUME NEW P \in Pipes, NEW Q \in Pipes, NEW R \in Pipes, Grows(P, Q), Grows(Q, R)
    PROVE  Grows(P, R)
<1>1. ASSUME NEW k \in PipeId
      PROVE  /\ P[k].readers \in Nat /\ Q[k].readers \in Nat /\ R[k].readers \in Nat
             /\ P[k].writers \in Nat /\ Q[k].writers \in Nat /\ R[k].writers \in Nat
  BY DEF Pipes, PipeRecord
<1> QED BY <1>1 DEF Grows

LEMMA CopyingStep ==
    ASSUME NEW P \in Pipes, NEW F \in Tables, NEW p \in Proc, NEW q \in Proc, p # q,
           \A fd \in Fd : F[q][fd] = Closed,
           NEW n \in Fd, NEW R, Copying(P, F, R, p, q, n)
    PROVE  Copying(P, F, task_fd_ref(R, F[p][n]), p, q, n + 1)
<1> DEFINE G == Copied(F, p, q, n)
           Q == task_fd_ref(R, F[p][n])
<1>1. /\ G \in Tables /\ G[p][n] = F[p][n] /\ G[q][n] \notin Ends
      /\ Copied(F, p, q, n + 1) = Put(G, q, n, F[p][n])
  BY CopiedIs, NotEnds
<1>2. R \in Pipes /\ Counted(R, G) /\ Grows(P, R)
  BY DEF Copying
<1> HIDE DEF G
<1>3. /\ task_fd_ref(R, G[p][n]) \in Pipes
      /\ Counted(task_fd_ref(R, G[p][n]), Put(G, q, n, G[p][n]))
      /\ Grows(R, task_fd_ref(R, G[p][n]))
  BY <1>1, <1>2, AddEnd, Zenon
<1>4. Q \in Pipes /\ Counted(Q, Copied(F, p, q, n + 1)) /\ Grows(R, Q)
  BY <1>1, <1>3, Zenon
<1> HIDE DEF Q
<1>5. Grows(P, Q)
  BY <1>2, <1>4, GrowsTrans, Zenon
<1> QED BY <1>4, <1>5, Zenon DEF Copying, Q

LEMMA RefAllOK ==
    ASSUME NEW P \in Pipes, NEW F \in Tables, Counted(P, F),
           NEW p \in Proc, NEW q \in Proc, p # q, \A fd \in Fd : F[q][fd] = Closed
    PROVE  Copying(P, F, RefAll(P, F[p]), p, q, MAX_FDS)
<1> DEFINE X == [n \in 0 .. MAX_FDS |-> {R \in Pipes : Copying(P, F, R, p, q, n)}]
           D == [n \in Fd |-> [R \in X[n] |-> task_fd_ref(R, F[p][n])]]
           after == CHOOSE g : g = [n \in 0 .. MAX_FDS |->
                                      IF n = 0 THEN P ELSE task_fd_ref(g[n - 1], F[p][n - 1])]
<1>0. MAX_FDS \in Nat /\ Fd = 0 .. MAX_FDS - 1 /\ \A n \in Fd : n + 1 \in 0 .. MAX_FDS
  BY TasksAssumption DEF Fd
<1>1. P \in X[0]
  <2>1. Grows(P, P)
    BY DEF Grows, Pipes, PipeRecord
  <2>2. Copying(P, F, P, p, q, 0)
    BY <2>1, CopiedIs, Zenon DEF Copying
  <2> QED BY <1>0, <2>2
<1>2. ASSUME NEW n \in Fd, NEW R \in X[n]
      PROVE  task_fd_ref(R, F[p][n]) \in X[n + 1]
  <2>1. Copying(P, F, R, p, q, n)
    BY <1>0
  <2>2. Copying(P, F, task_fd_ref(R, F[p][n]), p, q, n + 1)
    BY <2>1, CopyingStep, Zenon
  <2>3. task_fd_ref(R, F[p][n]) \in Pipes
    BY <2>2 DEF Copying
  <2> QED BY <1>0, <2>2, <2>3, Zenon
<1>3. \E g : g = [n \in 0 .. MAX_FDS |->
                    IF n = 0 THEN P ELSE task_fd_ref(g[n - 1], F[p][n - 1])]
  <2> HIDE DEF X
  <2>1. \A n \in 0 .. MAX_FDS - 1 : \A R \in X[n] :
           D[n][R] = task_fd_ref(R, F[p][n]) /\ D[n][R] \in X[n + 1]
    BY <1>0, <1>2, Zenon
  <2> HIDE DEF D
  <2>2. PICK g : Run(g, X, D, P, MAX_FDS)
    BY <1>0, <1>1, <2>1, LoopRuns, Zenon
  <2>3. ASSUME NEW n \in 0 .. MAX_FDS, n # 0
        PROVE  D[n - 1][g[n - 1]] = task_fd_ref(g[n - 1], F[p][n - 1])
    <3>1. n - 1 \in 0 .. MAX_FDS - 1 /\ n - 1 \in 0 .. MAX_FDS
      BY <1>0, <2>3
    <3> QED BY <2>1, <2>2, <3>1, Zenon DEF Run
  <2>4. g = [n \in 0 .. MAX_FDS |->
               IF n = 0 THEN P ELSE task_fd_ref(g[n - 1], F[p][n - 1])]
    BY <2>2, <2>3, Zenon DEF Run
  <2> QED BY <2>4, Zenon
<1>4. after = [n \in 0 .. MAX_FDS |->
                 IF n = 0 THEN P ELSE task_fd_ref(after[n - 1], F[p][n - 1])]
  BY <1>3, Zenon
<1>5. RefAll(P, F[p]) = after[MAX_FDS]
  BY DEF RefAll
<1> HIDE DEF after, X, D
<1>6. after[0] \in X[0]
  BY <1>0, <1>1, <1>4
<1>7. ASSUME NEW n \in 0 .. MAX_FDS - 1, after[n] \in X[n]
      PROVE  after[n + 1] \in X[n + 1]
  <2>1. after[n + 1] = task_fd_ref(after[n], F[p][n])
    BY <1>0, <1>4
  <2> QED BY <1>0, <1>2, <1>7, <2>1, Zenon
<1>8. after[MAX_FDS] \in X[MAX_FDS]
  BY <1>0, <1>6, <1>7, LoopKeeps, Zenon
<1> QED BY <1>0, <1>5, <1>8 DEF X

-----------------------------------------------------------------------------
\* What every step must do: keep the invariant, and not revive an end.

Final(P, Q) ==
    \A k \in PipeId : P[k].used /\ Q[k].used =>
       /\ P[k].writers = 0 => Q[k].writers = 0 /\ Q[k].count <= P[k].count
       /\ P[k].readers = 0 => Q[k].readers = 0

StepOK(S, R) == Good(R) /\ Final(S.pipes, R.pipes)

LEMMA CountTypes ==
    ASSUME NEW P \in Pipes, NEW k \in PipeId
    PROVE  P[k].readers \in Nat /\ P[k].writers \in Nat /\ P[k].count \in Nat /\ P[k] \in PipeRecord
BY PipeAssumption DEF Pipes, PipeRecord

LEMMA ShrinkThenGrow ==
    ASSUME NEW P \in Pipes, NEW Q \in Pipes, NEW R \in Pipes, Shrinks(P, Q), Grows(Q, R)
    PROVE  Final(P, R)
<1> SUFFICES ASSUME NEW k \in PipeId, P[k].used, R[k].used
             PROVE  /\ P[k].writers = 0 => R[k].writers = 0 /\ R[k].count <= P[k].count
                    /\ P[k].readers = 0 => R[k].readers = 0
  BY DEF Final
<1>1. Q[k].used /\ R[k].count = Q[k].count
      /\ (Q[k].readers = 0 => R[k].readers = 0) /\ (Q[k].writers = 0 => R[k].writers = 0)
  BY DEF Grows
<1>2. Q[k].count = P[k].count /\ Q[k].readers <= P[k].readers /\ Q[k].writers <= P[k].writers
  BY <1>1 DEF Shrinks
<1>3. /\ P[k].readers \in Nat /\ P[k].writers \in Nat /\ P[k].count \in Nat
      /\ Q[k].readers \in Nat /\ Q[k].writers \in Nat
  BY CountTypes
<1> QED BY <1>1, <1>2, <1>3

LEMMA SameRelations ==
    ASSUME NEW P \in Pipes
    PROVE  Shrinks(P, P) /\ Grows(P, P) /\ Final(P, P)
BY CountTypes DEF Shrinks, Grows, Final

LEMMA GrowsReady ==
    ASSUME NEW P \in Pipes, NEW Q \in Pipes, Grows(P, Q), NEW k \in PipeId
    PROVE  SameReady(P[k], Q[k])
<1>1. /\ Q[k].used = P[k].used /\ Q[k].count = P[k].count
      /\ Q[k].readers >= P[k].readers /\ Q[k].writers >= P[k].writers
  BY DEF Grows
<1>2. /\ Q[k].readers \in Nat /\ P[k].readers \in Nat
      /\ Q[k].writers \in Nat /\ P[k].writers \in Nat
  BY CountTypes
<1> QED BY <1>1, <1>2 DEF SameReady, pipe_has_readers, pipe_has_writers

LEMMA BecomesIs ==
    ASSUME NEW R \in States, Becomes(R)
    PROVE  Now' = R
BY DEF Becomes, Now, States

\* One task's record changes.
LEMMA SetTask ==
    ASSUME NEW S \in States, Counted(S.pipes, S.fds), TRUE \notin BadBuffer => Asleep(S),
           NEW p \in Proc, NEW r \in TaskRecord,
           \A q \in Proc, fd \in Fd : q # p /\ S.task[q].state = "UNUSED" => S.fds[q][fd] = Closed,
           r.state = "UNUSED" => \A fd \in Fd : S.fds[p][fd] = Closed,
           TRUE \notin BadBuffer /\ r.state = "WAITING" => WaitsRight([S EXCEPT !.task[p] = r], p)
    PROVE  /\ Good([S EXCEPT !.task[p] = r])
           /\ [S EXCEPT !.task[p] = r].pipes = S.pipes
<1> DEFINE R == [S EXCEPT !.task[p] = r]
           T == [S.task EXCEPT ![p] = r]
<1>1. S.pipes \in Pipes /\ S.fds \in Tables /\ S.task \in [Proc -> TaskRecord]
  BY DEF States
<1>2. R = [S EXCEPT !.task = T]
  BY DEF States
<1>3. T \in [Proc -> TaskRecord] /\ T[p] = r /\ \A q \in Proc : q # p => T[q] = S.task[q]
  BY <1>1
<1> HIDE DEF R, T
<1>4. R \in States /\ R.pipes = S.pipes /\ R.fds = S.fds /\ R.task = T
  BY <1>2, <1>3, Zenon DEF States
<1>5. Tidy(R)
  BY <1>3, <1>4, Zenon DEF Tidy
<1>6. ASSUME TRUE \notin BadBuffer PROVE Asleep(R)
  <2> SUFFICES ASSUME NEW q \in Proc, R.task[q].state = "WAITING" PROVE WaitsRight(R, q)
    BY DEF Asleep
  <2>1. CASE q = p
    BY <1>3, <1>4, <1>6, <2>1, Zenon DEF R
  <2>2. CASE q # p
    <3>1. R.task[q] = S.task[q]
      BY <1>3, <1>4, <2>2, Zenon
    <3>2. WaitsRight(S, q)
      BY <1>6, <3>1, Zenon DEF Asleep
    <3> QED BY <1>4, <3>1, <3>2, Zenon DEF WaitsRight
  <2> QED BY <2>1, <2>2, Zenon
<1> QED BY <1>4, <1>5, <1>6, Zenon DEF Good, R

-----------------------------------------------------------------------------
\* The steps.

LEMMA NowFacts ==
    ASSUME Good(Now)
    PROVE  /\ Now \in States /\ Counted(Now.pipes, Now.fds) /\ Tidy(Now)
           /\ TRUE \notin BadBuffer => Asleep(Now)
           /\ Now.pipes = pipes /\ Now.fds = fds /\ Now.task = task
           /\ pipes \in Pipes /\ fds \in Tables /\ task \in [Proc -> TaskRecord]
BY Zenon DEF Good, Now, States

\* The steps that change one task's record only.
LEMMA TaskStep ==
    ASSUME Good(Now), NEW p \in Proc, NEW r \in TaskRecord, r.state # "UNUSED",
           TRUE \notin BadBuffer /\ r.state = "WAITING" => WaitsRight([Now EXCEPT !.task[p] = r], p),
           Becomes([Now EXCEPT !.task[p] = r])
    PROVE  StepOK(Now, Now')
<1> DEFINE R == [Now EXCEPT !.task[p] = r]
<1>1. /\ Now \in States /\ Counted(Now.pipes, Now.fds) /\ (TRUE \notin BadBuffer => Asleep(Now))
      /\ \A q \in Proc, fd \in Fd :
            q # p /\ Now.task[q].state = "UNUSED" => Now.fds[q][fd] = Closed
  BY NowFacts, Zenon DEF Tidy
<1>2. Good(R) /\ R.pipes = Now.pipes
  BY <1>1, SetTask, Zenon
<1>3. Now' = R
  BY <1>2, BecomesIs, Zenon DEF Good
<1> HIDE DEF R
<1> QED BY <1>2, <1>3, NowFacts, SameRelations DEF StepOK

LEMMA InterruptStep ==
    ASSUME Good(Now), NEW p \in Proc, NEW restart \in BOOLEAN, Interrupt(p, restart)
    PROVE  StepOK(Now, Now')
<1> DEFINE r == [state |-> "RUNNABLE", obj |-> 0,
                 call |-> IF restart THEN task[p].call ELSE NoCall]
<1>1. task[p] \in TaskRecord
  BY NowFacts
<1>2. r \in TaskRecord /\ r.state = "RUNNABLE"
  BY <1>1, Zenon DEF TaskRecord
<1>3. Becomes([Now EXCEPT !.task[p] = r])
  BY DEF Interrupt
<1> HIDE DEF r
<1> QED BY <1>2, <1>3, TaskStep, Zenon

LEMMA StopStep ==
    ASSUME Good(Now), NEW p \in Proc, Stop(p)
    PROVE  StepOK(Now, Now')
<1> DEFINE r == [task[p] EXCEPT !.state = "STOPPED", !.obj = 0]
<1>1. task[p] \in TaskRecord /\ task \in [Proc -> TaskRecord]
  BY NowFacts
<1>2. r \in TaskRecord /\ r.state = "STOPPED"
  BY <1>1, Zenon DEF TaskRecord
<1>3. [Now EXCEPT !.task[p].state = "STOPPED", !.task[p].obj = 0] = [Now EXCEPT !.task[p] = r]
  BY <1>1, Zenon DEF Now, TaskRecord
<1>4. Becomes([Now EXCEPT !.task[p] = r])
  BY <1>3, Zenon DEF Stop
<1> HIDE DEF r
<1> QED BY <1>2, <1>4, TaskStep, Zenon

LEMMA ContinueStep ==
    ASSUME Good(Now), NEW p \in Proc, Continue(p)
    PROVE  StepOK(Now, Now')
<1> DEFINE r == [task[p] EXCEPT !.state = "RUNNABLE"]
<1>1. task[p] \in TaskRecord /\ task \in [Proc -> TaskRecord]
  BY NowFacts
<1>2. r \in TaskRecord /\ r.state = "RUNNABLE"
  BY <1>1, Zenon DEF TaskRecord
<1>3. [Now EXCEPT !.task[p].state = "RUNNABLE"] = [Now EXCEPT !.task[p] = r]
  BY <1>1 DEF Now, TaskRecord
<1>4. Becomes([Now EXCEPT !.task[p] = r])
  BY <1>3, Zenon DEF Continue
<1> HIDE DEF r
<1> QED BY <1>2, <1>4, TaskStep, Zenon

LEMMA CloseStep ==
    ASSUME Good(Now), NEW p \in Proc, NEW fd \in Fd, CloseCall(p, fd)
    PROVE  StepOK(Now, Now')
<1> DEFINE R == task_fd_close(Now, p, fd)
<1>1. Closes(Now, R, p, fd)
  BY NowFacts, CloseOK, Zenon
<1>2. Becomes(R) /\ task[p].state = "RUNNABLE"
  BY DEF CloseCall, Idle, Runs
<1> HIDE DEF R
<1>3. /\ R \in States /\ R.fds = Put(fds, p, fd, Closed) /\ R.pipes \in Pipes
      /\ Counted(R.pipes, R.fds) /\ Shrinks(pipes, R.pipes)
  BY <1>1, NowFacts, Zenon DEF Closes, States
<1>4. Tidy(R)
  <2>1. \A q \in Proc, v \in Fd : q # p => R.fds[q][v] = fds[q][v]
    BY <1>3, NowFacts, PutIs
  <2>2. \A q \in Proc : R.task[q].state = "UNUSED" => q # p /\ task[q].state = "UNUSED"
    BY <1>1, <1>2, NowFacts, Zenon DEF Closes
  <2> QED BY <2>1, <2>2, NowFacts DEF Tidy
<1>5. TRUE \notin BadBuffer => Asleep(R)
  BY <1>1, NowFacts, Zenon DEF Closes
<1>6. Final(pipes, R.pipes)
  BY <1>3, NowFacts, SameRelations, ShrinkThenGrow, Zenon
<1>7. Now' = R
  BY <1>2, <1>3, BecomesIs
<1> QED BY <1>3, <1>4, <1>5, <1>6, <1>7, NowFacts, Zenon DEF StepOK, Good

LEMMA ExitStep ==
    ASSUME Good(Now), NEW p \in Proc, Exit(p)
    PROVE  StepOK(Now, Now')
<1> DEFINE S == CloseAll(Now, p)
           R == [S EXCEPT !.task[p] = Dead]
<1>1. Closing(Now, S, p, MAX_FDS)
  BY NowFacts, CloseAllOK, Zenon
<1>2. Becomes(R)
  BY DEF Exit
<1> HIDE DEF S
<1>3. /\ S \in States /\ Counted(S.pipes, S.fds) /\ Shrinks(pipes, S.pipes) /\ S.pipes \in Pipes
      /\ TRUE \notin BadBuffer => Asleep(S)
  BY <1>1, NowFacts, Zenon DEF Closing, States
<1>4. Dead \in TaskRecord /\ Dead.state = "UNUSED"
  BY DEF Dead, TaskRecord
<1>5. \A fd \in Fd : S.fds[p][fd] = Closed
  <2>1. \A fd \in Fd : fd < MAX_FDS
    BY TasksAssumption DEF Fd
  <2> QED BY <1>1, <2>1, Zenon DEF Closing
<1>6. \A q \in Proc, fd \in Fd : q # p /\ S.task[q].state = "UNUSED" => S.fds[q][fd] = Closed
  BY <1>1, NowFacts DEF Closing, Tidy
<1>7. Good(R) /\ R.pipes = S.pipes
  BY <1>3, <1>4, <1>5, <1>6, SetTask, Zenon
<1>8. Now' = R
  BY <1>2, <1>7, BecomesIs, Zenon DEF Good
<1> HIDE DEF R
<1>9. Final(pipes, S.pipes)
  BY <1>3, NowFacts, SameRelations, ShrinkThenGrow
<1> QED BY <1>7, <1>8, <1>9, NowFacts, Zenon DEF StepOK

LEMMA Dup2Step ==
    ASSUME Good(Now), NEW p \in Proc, NEW old \in Fd, NEW new \in Fd, Dup2(p, old, new)
    PROVE  StepOK(Now, Now')
<1> DEFINE S == IF fds[p][new] = Closed THEN Now ELSE task_fd_close(Now, p, new)
           f == S.fds[p][old]
           Q == task_fd_ref(S.pipes, f)
           G == Put(S.fds, p, new, f)
           R == [S EXCEPT !.fds[p][new] = f, !.pipes = Q]
<1>1. task[p].state = "RUNNABLE" /\ old # new /\ Becomes(R)
  BY DEF Dup2, Idle, Runs
<1>2. /\ S \in States /\ Counted(S.pipes, S.fds) /\ Shrinks(pipes, S.pipes)
      /\ TRUE \notin BadBuffer => Asleep(S)
      /\ S.fds[p][new] = Closed
      /\ \A q \in Proc, v \in Fd : q # p => S.fds[q][v] = fds[q][v]
      /\ S.task[p].state = "RUNNABLE"
      /\ \A q \in Proc : S.task[q].state = "UNUSED" => task[q].state = "UNUSED"
  <2>1. CASE fds[p][new] = Closed
    <3>1. S = Now
      BY <2>1
    <3> QED BY <1>1, <2>1, <3>1, NowFacts, SameRelations, Zenon
  <2>2. CASE fds[p][new] # Closed
    <3>1. S = task_fd_close(Now, p, new)
      BY <2>2
    <3> HIDE DEF S
    <3>2. Closes(Now, S, p, new)
      BY <3>1, NowFacts, CloseOK, Zenon
    <3>3. S.fds = Put(fds, p, new, Closed)
      BY <3>2, NowFacts, Zenon DEF Closes
    <3>4. /\ S.fds[p][new] = Closed
          /\ \A q \in Proc, v \in Fd : q # p => S.fds[q][v] = fds[q][v]
      BY <3>3, NowFacts, PutIs
    <3> QED BY <1>1, <3>2, <3>4, NowFacts, Zenon DEF Closes
  <2> QED BY <2>1, <2>2, Zenon
<1> HIDE DEF S
<1>3. S.pipes \in Pipes /\ S.fds \in Tables /\ S.task \in [Proc -> TaskRecord]
      /\ f \in Ends \cup {Closed, Console}
  BY <1>2 DEF States, Tables
<1>4. Q \in Pipes /\ Counted(Q, G) /\ Grows(S.pipes, Q)
  BY <1>2, <1>3, NotEnds, AddEnd, Zenon
<1>5. /\ G \in Tables
      /\ \A u \in Proc, v \in Fd : ~(u = p /\ v = new) => G[u][v] = S.fds[u][v]
  BY <1>3, PutIs
<1>6. R \in States /\ R.pipes = Q /\ R.fds = G /\ R.task = S.task
  <2>1. R = [S EXCEPT !.pipes = Q, !.fds = G]
    BY <1>2, Zenon DEF States, Put
  <2> HIDE DEF R, Q, G
  <2> QED BY <1>2, <1>4, <1>5, <2>1, Zenon DEF States
<1> HIDE DEF R, Q, G, f
<1>7. Tidy(R)
  <2>1. ASSUME NEW q \in Proc, NEW v \in Fd, R.task[q].state = "UNUSED"
        PROVE  R.fds[q][v] = Closed
    <3>1. q # p /\ task[q].state = "UNUSED"
      BY <1>2, <1>6, <2>1, Zenon
    <3>2. R.fds[q][v] = fds[q][v]
      BY <1>2, <1>5, <1>6, <3>1
    <3> QED BY <3>1, <3>2, NowFacts DEF Tidy
  <2> QED BY <2>1 DEF Tidy
<1>8. ASSUME TRUE \notin BadBuffer PROVE Asleep(R)
  <2>1. ASSUME NEW q \in Proc, R.task[q].state = "WAITING"
        PROVE  /\ R.task[q] = S.task[q]
               /\ R.fds[q][S.task[q].call.fd] = S.fds[q][S.task[q].call.fd]
               /\ SameReady(S.pipes[S.task[q].obj], R.pipes[S.task[q].obj])
    <3>1. R.task[q] = S.task[q] /\ q # p
      BY <1>2, <1>6, <2>1, Zenon
    <3>2. WaitsRight(S, q)
      BY <1>2, <1>8, <2>1, <3>1, Zenon DEF Asleep
    <3>3. S.task[q].call \in Calls /\ S.task[q].obj \in PipeId
      BY <3>2, Zenon DEF WaitsRight
    <3>4. S.task[q].call.fd \in Fd
      BY <3>3 DEF Calls
    <3>5. R.fds[q][S.task[q].call.fd] = S.fds[q][S.task[q].call.fd]
      BY <1>5, <1>6, <3>1, <3>4, Zenon
    <3> DEFINE k == S.task[q].obj
    <3>6. SameReady(S.pipes[k], Q[k])
      BY <1>3, <1>4, <3>3, GrowsReady
    <3> QED BY <1>6, <3>1, <3>5, <3>6, Zenon
  <2> QED BY <1>2, <1>8, <2>1, AsleepKept, Zenon
<1>9. Final(pipes, R.pipes)
  BY <1>2, <1>3, <1>4, <1>6, NowFacts, ShrinkThenGrow
<1>10. Now' = R
  BY <1>1, <1>6, BecomesIs, Zenon DEF R, Q, f
<1> QED BY <1>4, <1>6, <1>7, <1>8, <1>9, <1>10, NowFacts, Zenon DEF StepOK, Good

LEMMA ForkStep ==
    ASSUME Good(Now), NEW p \in Proc, NEW q \in Proc, Fork(p, q)
    PROVE  StepOK(Now, Now')
<1> DEFINE P == RefAll(pipes, fds[p])
           G == [fds EXCEPT ![q] = fds[p]]
           S == [pipes |-> P, fds |-> G, task |-> task]
           R == [S EXCEPT !.task[q] = Fresh]
<1>1. /\ task[p].state = "RUNNABLE" /\ task[q].state = "UNUSED" /\ p # q
      /\ Becomes([pipes |-> P, fds |-> G, task |-> [task EXCEPT ![q] = Fresh]])
  BY DEF Fork, Idle, Runs
<1>2. \A fd \in Fd : fds[q][fd] = Closed
  BY <1>1, NowFacts, Zenon DEF Tidy
<1>3. Copying(pipes, fds, P, p, q, MAX_FDS) /\ Copied(fds, p, q, MAX_FDS) = G
  BY <1>1, <1>2, NowFacts, RefAllOK, CopiedIs
<1>4. P \in Pipes /\ Counted(P, G) /\ Grows(pipes, P)
  BY <1>3 DEF Copying
<1>5. G \in Tables /\ \A u \in Proc : u # q => G[u] = fds[u]
  BY NowFacts DEF Tables
<1> HIDE DEF P, G
<1>6. S \in States /\ S.pipes = P /\ S.fds = G /\ S.task = task
  BY <1>4, <1>5, NowFacts DEF States
<1>7. R = [pipes |-> P, fds |-> G, task |-> [task EXCEPT ![q] = Fresh]]
  OBVIOUS
<1> HIDE DEF S
<1>8. Fresh \in TaskRecord /\ Fresh.state = "RUNNABLE"
  BY DEF Fresh, TaskRecord
<1>9. \A u \in Proc, fd \in Fd : u # q /\ S.task[u].state = "UNUSED" => S.fds[u][fd] = Closed
  BY <1>5, <1>6, NowFacts DEF Tidy
<1>10. ASSUME TRUE \notin BadBuffer PROVE Asleep(S)
  <2>1. Asleep(Now)
    BY <1>10, NowFacts, Zenon
  <2>2. ASSUME NEW u \in Proc, S.task[u].state = "WAITING"
        PROVE  /\ S.task[u] = Now.task[u]
               /\ S.fds[u][Now.task[u].call.fd] = Now.fds[u][Now.task[u].call.fd]
               /\ SameReady(Now.pipes[Now.task[u].obj], S.pipes[Now.task[u].obj])
    <3>1. S.task[u] = Now.task[u] /\ u # q /\ S.fds[u] = Now.fds[u]
      BY <1>1, <1>5, <1>6, <2>2, NowFacts, Zenon
    <3>2. WaitsRight(Now, u)
      BY <2>1, <2>2, <3>1, Zenon DEF Asleep
    <3>3. Now.task[u].obj \in PipeId
      BY <3>2, Zenon DEF WaitsRight
    <3>4. SameReady(pipes[Now.task[u].obj], P[Now.task[u].obj])
      BY <1>4, <3>3, NowFacts, GrowsReady, Zenon
    <3> QED BY <1>6, <3>1, <3>4, NowFacts
  <2> QED BY <2>1, <2>2, AsleepKept, Zenon
<1>11. Good(R) /\ R.pipes = P
  BY <1>4, <1>6, <1>8, <1>9, <1>10, SetTask, Zenon
<1>12. Now' = R
  BY <1>1, <1>7, <1>11, BecomesIs, Zenon DEF Good
<1> HIDE DEF R
<1>13. Final(pipes, P)
  BY <1>4, NowFacts, SameRelations, ShrinkThenGrow, Zenon
<1> QED BY <1>11, <1>12, <1>13, NowFacts, Zenon DEF StepOK

-----------------------------------------------------------------------------
\* Reading and writing the ring changes its contents only.
SameEnds(p, r) ==
    /\ r \in PipeRecord
    /\ r.used = p.used /\ r.readers = p.readers /\ r.writers = p.writers

LEMMA AdvanceType ==
    ASSUME NEW pos \in Positions, NEW n \in 0 .. PIPE_CAPACITY
    PROVE  Advance(pos, n) \in Positions
<1> USE PipeAssumption DEF Positions
<1>1. CASE pos + n < PIPE_CAPACITY
  BY <1>1 DEF Advance
<1>2. CASE pos + n >= PIPE_CAPACITY
  <2>1. pos + n = 1 * PIPE_CAPACITY + (pos + n - PIPE_CAPACITY)
    OBVIOUS
  <2>2. pos + n - PIPE_CAPACITY \in 0 .. PIPE_CAPACITY - 1
    BY <1>2
  <2>3. (pos + n) % PIPE_CAPACITY = pos + n - PIPE_CAPACITY
    BY <2>1, <2>2
  <2> QED BY <1>2, <2>2, <2>3, Zenon DEF Advance
<1> QED BY <1>1, <1>2

\* How much a call moves: nothing only when the ring is empty or full.
LEMMA ReadCountIs ==
    ASSUME NEW p \in PipeRecord, p.used, NEW len \in Nat \ {0}
    PROVE  /\ ReadCount(p, len) \in Nat
           /\ ReadCount(p, len) = 0 => p.count = 0
<1>1. p.count \in Nat
  BY PipeAssumption DEF PipeRecord
<1> QED BY <1>1 DEF ReadCount, Lesser

LEMMA WriteCountIs ==
    ASSUME NEW p \in PipeRecord, p.used, NEW len \in Nat \ {0}
    PROVE  /\ WriteCount(p, len) \in Nat
           /\ WriteCount(p, len) <= PIPE_CAPACITY - p.count
           /\ WriteCount(p, len) = 0 => p.count = PIPE_CAPACITY
<1>1. p.count \in 0 .. PIPE_CAPACITY
  BY DEF PipeRecord
<1> QED BY <1>1, PipeAssumption DEF WriteCount, Lesser

LEMMA ReadRing ==
    ASSUME NEW p \in PipeRecord, NEW len \in Nat
    PROVE  SameEnds(p, pipe_read(p, len)) /\ pipe_read(p, len).count <= p.count
<1> DEFINE n == ReadCount(p, len)
           pos == Advance(p.rpos, n)
           c == p.count - n
<1>1. p.count \in 0 .. PIPE_CAPACITY /\ p.rpos \in Positions
  BY DEF PipeRecord
<1>2. n \in 0 .. PIPE_CAPACITY /\ n <= p.count
  BY <1>1, PipeAssumption DEF ReadCount, Lesser
<1>3. pos \in Positions /\ c \in 0 .. PIPE_CAPACITY /\ c <= p.count
  BY <1>1, <1>2, AdvanceType, PipeAssumption
<1>4. pipe_read(p, len) = [p EXCEPT !.rpos = pos, !.count = c]
  BY DEF pipe_read
<1> HIDE DEF n, pos, c
<1> QED BY <1>3, <1>4, Zenon DEF SameEnds, PipeRecord

LEMMA WriteRing ==
    ASSUME NEW p \in PipeRecord, NEW n \in Nat, n <= PIPE_CAPACITY - p.count
    PROVE  SameEnds(p, pipe_write(p, [i \in 1 .. n |-> Zero]))
<1> DEFINE src == [i \in 1 .. n |-> Zero]
           m == WriteCount(p, Len(src))
           data == [k \in Positions |-> IF Ahead(p.wpos, k) < m
                                        THEN src[Ahead(p.wpos, k) + 1] ELSE p.data[k]]
           pos == Advance(p.wpos, m)
           c == p.count + m
<1>1. /\ p.count \in 0 .. PIPE_CAPACITY /\ p.wpos \in Positions
      /\ p.data \in [Positions -> Byte] /\ PIPE_CAPACITY \in Nat \ {0} /\ Zero \in Byte
  BY PipeAssumption, Zenon DEF PipeRecord
<1>2. Len(src) = n
  OBVIOUS
<1>3. m \in 0 .. PIPE_CAPACITY /\ m <= n /\ c \in 0 .. PIPE_CAPACITY
  <2> HIDE DEF src
  <2> QED BY <1>1, <1>2 DEF WriteCount, Lesser
<1>4. data \in [Positions -> Byte]
  <2> SUFFICES ASSUME NEW k \in Positions, Ahead(p.wpos, k) < m
               PROVE  src[Ahead(p.wpos, k) + 1] \in Byte
    BY <1>1
  <2>1. Ahead(p.wpos, k) \in Nat
    BY <1>1 DEF Ahead, Positions
  <2>2. Ahead(p.wpos, k) + 1 \in 1 .. n
    BY <1>3, <2>1
  <2> QED BY <1>1, <2>2, Zenon
<1>5. pos \in Positions
  BY <1>1, <1>3, AdvanceType, Zenon
<1>6. pipe_write(p, src) = [p EXCEPT !.data = data, !.wpos = pos, !.count = c]
  BY DEF pipe_write
<1> HIDE DEF src, m, data, pos, c
<1>7. SameEnds(p, pipe_write(p, src))
  BY <1>3, <1>4, <1>5, <1>6, Zenon DEF SameEnds, PipeRecord
<1> QED BY <1>7, Zenon DEF src

\* The call returns.
LEMMA DoneStep ==
    ASSUME NEW S, Good(S), NEW p \in Proc, S.task[p].state = "RUNNABLE", Becomes(Done(S, p))
    PROVE  Good(Now') /\ Now'.pipes = S.pipes
<1> DEFINE r == [S.task[p] EXCEPT !.call = NoCall]
           R == [S EXCEPT !.task[p] = r]
<1>1. /\ S \in States /\ Counted(S.pipes, S.fds) /\ (TRUE \notin BadBuffer => Asleep(S))
      /\ S.task \in [Proc -> TaskRecord]
  BY Zenon DEF Good, States
<1>2. r \in TaskRecord /\ r.state = "RUNNABLE"
  BY <1>1 DEF TaskRecord
<1>3. Done(S, p) = R
  BY <1>1 DEF Done, States, TaskRecord
<1> HIDE DEF r
<1>4. \A q \in Proc, fd \in Fd : q # p /\ S.task[q].state = "UNUSED" => S.fds[q][fd] = Closed
  BY Zenon DEF Good, Tidy
<1>5. Good(R) /\ R.pipes = S.pipes
  BY <1>1, <1>2, <1>4, SetTask, Zenon
<1>6. Now' = R
  BY <1>3, <1>5, BecomesIs, Zenon DEF Good
<1> QED BY <1>5, <1>6, Zenon

\* The ring of pipe k changes and its sleepers are woken, except after a
\* bad buffer.
LEMMA RingStep ==
    ASSUME Good(Now), NEW p \in Proc, task[p].state = "RUNNABLE", NEW k \in PipeId,
           NEW ring, SameEnds(pipes[k], ring),
           pipes[k].writers = 0 => ring.count <= pipes[k].count,
           NEW M, Becomes(Done(M, p)),
           \/ M = task_wake_pipe([Now EXCEPT !.pipes[k] = ring], k)
           \/ TRUE \in BadBuffer /\ M = [Now EXCEPT !.pipes[k] = ring]
    PROVE  StepOK(Now, Now')
<1> DEFINE P == [pipes EXCEPT ![k] = ring]
           S == [Now EXCEPT !.pipes[k] = ring]
<1>1. P \in Pipes /\ P[k] = ring /\ \A j \in PipeId : j # k => P[j] = pipes[j]
  BY NowFacts DEF SameEnds, Pipes
<1>2. S = [Now EXCEPT !.pipes = P]
  BY NowFacts, Zenon DEF States
<1> HIDE DEF P
<1>3. S \in States /\ S.pipes = P /\ S.fds = fds /\ S.task = task
  BY <1>1, <1>2, NowFacts, Zenon DEF States
<1> HIDE DEF S
<1>4. Counted(P, fds)
  <2>1. Counted(pipes, fds)
    BY NowFacts, Zenon
  <2>2. \A j \in PipeId : /\ P[j].used = pipes[j].used /\ P[j].readers = pipes[j].readers
                          /\ P[j].writers = pipes[j].writers
    BY <1>1, Zenon DEF SameEnds
  <2> QED BY <2>1, <2>2, Zenon DEF Counted
<1>5. Final(pipes, P)
  <2>1. Final(pipes, pipes)
    BY NowFacts, SameRelations
  <2> QED BY <1>1, <2>1 DEF Final, SameEnds
<1>6. \/ Woken(S, M, k)
      \/ TRUE \in BadBuffer /\ M = S
  BY <1>3, WakeIs, Zenon DEF S
<1>7. /\ M \in States /\ M.pipes = P /\ M.fds = fds /\ M.task[p].state = "RUNNABLE"
      /\ \A q \in Proc : M.task[q].state = "UNUSED" <=> task[q].state = "UNUSED"
  BY <1>3, <1>6, Zenon DEF Woken
<1>8. Tidy(M)
  BY <1>7, NowFacts, Zenon DEF Tidy
<1>9. ASSUME TRUE \notin BadBuffer PROVE Asleep(M)
  <2>1. Asleep(Now) /\ Woken(S, M, k)
    BY <1>6, <1>9, NowFacts, Zenon
  <2>2. ASSUME NEW q \in Proc, M.task[q].state = "WAITING"
        PROVE  /\ M.task[q] = Now.task[q]
               /\ M.fds[q][Now.task[q].call.fd] = Now.fds[q][Now.task[q].call.fd]
               /\ SameReady(Now.pipes[Now.task[q].obj], M.pipes[Now.task[q].obj])
    <3>1. M.task[q] = Now.task[q] /\ Now.task[q].obj # k
      BY <1>3, <2>1, <2>2, NowFacts DEF Woken
    <3>2. WaitsRight(Now, q)
      BY <2>1, <2>2, <3>1, Zenon DEF Asleep
    <3>3. Now.task[q].obj \in PipeId
      BY <3>2, Zenon DEF WaitsRight
    <3>4. M.pipes[Now.task[q].obj] = Now.pipes[Now.task[q].obj]
      BY <1>1, <1>7, <3>1, <3>3, NowFacts, Zenon
    <3> QED BY <1>7, <3>1, <3>4, NowFacts, Zenon DEF SameReady
  <2> QED BY <2>1, <2>2, AsleepKept, Zenon
<1>10. Good(M)
  BY <1>4, <1>7, <1>8, <1>9, Zenon DEF Good
<1>11. Good(Now') /\ Now'.pipes = P
  BY <1>7, <1>10, DoneStep, Zenon
<1> QED BY <1>5, <1>11, NowFacts, Zenon DEF StepOK

\* The end a call is made on.
LEMMA CallEnd ==
    ASSUME Good(Now), NEW p \in Proc, NEW call \in Calls,
           NEW kind \in {"PIPE_R", "PIPE_W"}, fds[p][call.fd].kind = kind
    PROVE  LET k == fds[p][call.fd].pipe
           IN /\ k \in PipeId /\ fds[p][call.fd] = End(kind, k)
              /\ pipes[k] \in PipeRecord /\ pipes[k].used
              /\ kind = "PIPE_R" => pipes[k].readers > 0
              /\ kind = "PIPE_W" => pipes[k].writers > 0
              /\ call.fd \in Fd /\ call.len \in Nat \ {0} /\ call.bad \in BadBuffer
<1>1. call.fd \in Fd /\ call.len \in Nat \ {0} /\ call.bad \in BadBuffer
  BY TasksAssumption, Zenon DEF Calls
<1> DEFINE f == fds[p][call.fd]
<1>2. f \in Ends \cup {Closed, Console}
  BY <1>1, NowFacts, Zenon DEF Tables
<1>3. f \in Ends
  BY <1>2 DEF Closed, Console
<1>4. f = End(kind, f.pipe)
  BY <1>3, EndIs, Zenon
<1>5. /\ f.pipe \in PipeId /\ pipes[f.pipe].used
      /\ f.kind = "PIPE_R" => pipes[f.pipe].readers > 0
      /\ f.kind = "PIPE_W" => pipes[f.pipe].writers > 0
  BY <1>1, <1>3, NowFacts, OpenEnd
<1>6. pipes[f.pipe] \in PipeRecord
  BY <1>5, NowFacts, CountTypes, Zenon
<1> QED BY <1>1, <1>4, <1>5, <1>6

\* A call that blocks would block again.
LEMMA BlockStep ==
    ASSUME Good(Now), NEW p \in Proc, NEW call \in Calls, NEW k \in PipeId,
           \/ /\ fds[p][call.fd] = End("PIPE_R", k)
              /\ pipes[k].count = 0 /\ pipe_has_writers(pipes[k])
           \/ /\ fds[p][call.fd] = End("PIPE_W", k)
              /\ pipes[k].count = PIPE_CAPACITY /\ pipe_has_readers(pipes[k]),
           Block(p, k, call)
    PROVE  StepOK(Now, Now')
<1> DEFINE r == [state |-> "WAITING", obj |-> k, call |-> call]
           R == [Now EXCEPT !.task[p] = r]
<1>1. r \in TaskRecord /\ r.state = "WAITING" /\ r.obj = k /\ r.call = call
  BY DEF TaskRecord
<1>2. Becomes(R)
  BY DEF Block
<1>3. R.task[p] = r /\ R.pipes = pipes /\ R.fds = fds
  BY NowFacts DEF Now
<1> HIDE DEF r
<1>4. WaitsRight(R, p)
  BY <1>1, <1>3, Zenon DEF WaitsRight
<1> QED BY <1>1, <1>2, <1>4, TaskStep, Zenon

LEMMA ReadStep ==
    ASSUME Good(Now), NEW p \in Proc, task[p].state = "RUNNABLE", NEW call \in Calls,
           fds[p][call.fd].kind = "PIPE_R", sys_read(p, call)
    PROVE  StepOK(Now, Now')
<1> DEFINE k == fds[p][call.fd].pipe
           n == ReadCount(pipes[k], call.len)
           m == ReadCount(pipes[k], Lesser(call.len, CHUNK))
           full == [Now EXCEPT !.pipes[k] = pipe_read(@, n)]
           part == [Now EXCEPT !.pipes[k] = pipe_read(@, m)]
<1>1. /\ k \in PipeId /\ fds[p][call.fd] = End("PIPE_R", k)
      /\ pipes[k] \in PipeRecord /\ pipes[k].used
      /\ call.len \in Nat \ {0} /\ call.bad \in BadBuffer
  BY CallEnd
<1>2. Lesser(call.len, CHUNK) \in Nat \ {0}
  <2>1. CHUNK \in Nat \ {0}
    BY TasksAssumption
  <2> QED BY <1>1, <2>1, Zenon DEF Lesser
<1>3. /\ n \in Nat /\ m \in Nat /\ (n = 0 => pipes[k].count = 0)
  BY <1>1, <1>2, ReadCountIs, Zenon
<1>4. \/ Becomes(Done(task_wake_pipe(full, k), p))
      \/ call.bad /\ Becomes(Done(part, p))
      \/ Becomes(Done(Now, p))
      \/ n = 0 /\ pipe_has_writers(pipes[k]) /\ Block(p, k, call)
  <2>1. (CASE n > 0 /\ ~call.bad -> Becomes(Done(task_wake_pipe(full, k), p))
          [] n > 0 /\ call.bad -> Becomes(Done(part, p))
          [] n = 0 /\ (~pipe_has_writers(pipes[k]) \/ call.nonblock) -> Becomes(Done(Now, p))
          [] OTHER -> Block(p, k, call))
    BY Zenon DEF sys_read
  <2> HIDE DEF full, part, k, n, m
  <2> QED BY <1>3, <2>1
<1>e. /\ full = [Now EXCEPT !.pipes[k] = pipe_read(pipes[k], n)]
      /\ part = [Now EXCEPT !.pipes[k] = pipe_read(pipes[k], m)]
  <2> HIDE DEF k, n, m
  <2> QED BY DEF Now
<1> HIDE DEF k, n, m, full, part
<1>5. CASE Becomes(Done(task_wake_pipe(full, k), p))
  <2>1. /\ SameEnds(pipes[k], pipe_read(pipes[k], n))
        /\ pipe_read(pipes[k], n).count <= pipes[k].count
    BY <1>1, <1>3, ReadRing, Zenon
  <2> QED BY <1>1, <1>e, <1>5, <2>1, RingStep, Zenon
<1>6. CASE call.bad /\ Becomes(Done(part, p))
  <2>1. /\ SameEnds(pipes[k], pipe_read(pipes[k], m))
        /\ pipe_read(pipes[k], m).count <= pipes[k].count
    BY <1>1, <1>3, ReadRing
  <2>2. TRUE \in BadBuffer
    <3>1. call.bad = TRUE
      BY <1>1, <1>6, TasksAssumption
    <3> QED BY <1>1, <3>1, Zenon
  <2> QED BY <1>1, <1>e, <1>6, <2>1, <2>2, RingStep, Zenon
<1>7. CASE Becomes(Done(Now, p))
  <2>1. Good(Now') /\ Now'.pipes = Now.pipes
    BY <1>7, NowFacts, DoneStep
  <2> QED BY <2>1, NowFacts, SameRelations DEF StepOK
<1>8. CASE n = 0 /\ pipe_has_writers(pipes[k]) /\ Block(p, k, call)
  BY <1>1, <1>3, <1>8, BlockStep
<1> QED BY <1>4, <1>5, <1>6, <1>7, <1>8, ZenonT(40)

LEMMA WriteStep ==
    ASSUME Good(Now), NEW p \in Proc, task[p].state = "RUNNABLE", NEW call \in Calls,
           fds[p][call.fd].kind = "PIPE_W", sys_write(p, call)
    PROVE  StepOK(Now, Now')
<1> DEFINE k == fds[p][call.fd].pipe
           n == WriteCount(pipes[k], call.len)
           ring == pipe_write(pipes[k], [i \in 1 .. n |-> Zero])
           full == [Now EXCEPT !.pipes[k] = pipe_write(@, [i \in 1 .. n |-> Zero])]
<1>1. /\ k \in PipeId /\ fds[p][call.fd] = End("PIPE_W", k)
      /\ pipes[k] \in PipeRecord /\ pipes[k].used /\ pipes[k].writers > 0
      /\ call.len \in Nat \ {0}
  BY CallEnd, Zenon
<1>2. pipes[k].writers # 0
  <2> HIDE DEF k
  <2>1. pipes[k].writers \in Nat
    BY <1>1, Zenon DEF PipeRecord
  <2> QED BY <1>1, <2>1
<1>3. /\ n \in Nat /\ n <= PIPE_CAPACITY - pipes[k].count
      /\ n = 0 => pipes[k].count = PIPE_CAPACITY
  BY <1>1, WriteCountIs, Zenon
<1>4. \/ Becomes(Done(task_wake_pipe(full, k), p))
      \/ Becomes(Done(Now, p))
      \/ n = 0 /\ pipe_has_readers(pipes[k]) /\ Block(p, k, call)
  <2>1. (CASE call.bad \/ ~pipe_has_readers(pipes[k]) -> Becomes(Done(Now, p))
          [] ~call.bad /\ pipe_has_readers(pipes[k]) /\ n > 0 ->
               Becomes(Done(task_wake_pipe(full, k), p))
          [] ~call.bad /\ pipe_has_readers(pipes[k]) /\ n = 0 /\ call.nonblock ->
               Becomes(Done(Now, p))
          [] OTHER -> Block(p, k, call))
    BY Zenon DEF sys_write
  <2> HIDE DEF full, k, n
  <2> QED BY <1>3, <2>1
<1>e. full = [Now EXCEPT !.pipes[k] = ring]
  <2> HIDE DEF k, n
  <2> QED BY DEF Now
<1>5. CASE Becomes(Done(task_wake_pipe(full, k), p))
  <2>1. SameEnds(pipes[k], ring) /\ pipes[k].writers # 0
    BY <1>1, <1>2, <1>3, WriteRing, Zenon
  <2> HIDE DEF ring, k, full
  <2> QED BY <1>1, <1>e, <1>5, <2>1, RingStep, Zenon
<1>6. CASE Becomes(Done(Now, p))
  <2>1. Good(Now') /\ Now'.pipes = Now.pipes
    BY <1>6, NowFacts, DoneStep, Zenon
  <2> QED BY <2>1, NowFacts, SameRelations, Zenon DEF StepOK
<1>7. CASE n = 0 /\ pipe_has_readers(pipes[k]) /\ Block(p, k, call)
  <2> HIDE DEF k, n
  <2> QED BY <1>1, <1>3, <1>7, BlockStep
<1> QED BY <1>4, <1>5, <1>6, <1>7, Zenon

LEMMA TransferStep ==
    ASSUME Good(Now), NEW p \in Proc, task[p].state = "RUNNABLE", NEW call \in Calls,
           Transfer(p, call)
    PROVE  StepOK(Now, Now')
BY ReadStep, WriteStep, Zenon DEF Transfer

-----------------------------------------------------------------------------
\* sys_pipe.  Nobody sleeps on a free pipe, so what becomes of it disturbs
\* no sleeper.
LEMMA FreshPipeOK ==
    ASSUME Good(Now), NEW p \in Proc, task[p].state = "RUNNABLE", NEW k \in FreePipes,
           NEW S \in States, Counted(S.pipes, S.fds), S.task = task,
           \A j \in PipeId : j # k => S.pipes[j] = pipes[j],
           \A q \in Proc : q # p => S.fds[q] = fds[q]
    PROVE  Good(S) /\ \A R \in Pipes : Shrinks(S.pipes, R) => Final(pipes, R)
<1>1. k \in PipeId /\ ~pipes[k].used
  BY DEF FreePipes
<1>2. Tidy(S)
  <2>1. ASSUME NEW q \in Proc, NEW fd \in Fd, task[q].state = "UNUSED"
        PROVE  S.fds[q][fd] = Closed
    <3>1. q # p
      BY <2>1, Zenon
    <3> QED BY <2>1, <3>1, NowFacts DEF Tidy
  <2> QED BY <2>1, Zenon DEF Tidy
<1>3. ASSUME TRUE \notin BadBuffer PROVE Asleep(S)
  <2>1. Asleep(Now)
    BY <1>3, NowFacts, Zenon
  <2>2. ASSUME NEW q \in Proc, S.task[q].state = "WAITING"
        PROVE  /\ S.task[q] = Now.task[q]
               /\ S.fds[q][Now.task[q].call.fd] = Now.fds[q][Now.task[q].call.fd]
               /\ SameReady(Now.pipes[Now.task[q].obj], S.pipes[Now.task[q].obj])
    <3>1. S.task[q] = Now.task[q] /\ q # p /\ S.fds[q] = Now.fds[q]
      BY <2>2, NowFacts, Zenon
    <3>2. WaitsRight(Now, q)
      BY <2>1, <2>2, <3>1, Zenon DEF Asleep
    <3>3. Now.task[q].obj \in PipeId /\ Now.pipes[Now.task[q].obj].used
      BY <3>2, Zenon DEF WaitsRight, pipe_has_readers, pipe_has_writers
    <3>4. S.pipes[Now.task[q].obj] = Now.pipes[Now.task[q].obj]
      BY <1>1, <3>3, NowFacts
    <3> QED BY <3>1, <3>4, Zenon DEF SameReady
  <2> QED BY <2>1, <2>2, AsleepKept, Zenon
<1>4. ASSUME NEW R \in Pipes, Shrinks(S.pipes, R) PROVE Final(pipes, R)
  <2>1. Final(S.pipes, R)
    BY <1>4, SameRelations, ShrinkThenGrow, Zenon DEF States
  <2>2. \A j \in PipeId : pipes[j].used => S.pipes[j] = pipes[j]
    BY <1>1, Zenon
  <2> QED BY <2>1, <2>2, Zenon DEF Final
<1> QED BY <1>2, <1>3, <1>4, Zenon DEF Good

\* Both ends of the new pipe get a descriptor.
LEMMA OpenedOK ==
    ASSUME Good(Now), NEW p \in Proc, NEW k \in FreePipes,
           NEW r \in Fd, NEW w \in Fd, r # w, fds[p][r] = Closed, fds[p][w] = Closed
    PROVE  LET F == Put(Put(fds, p, r, End("PIPE_R", k)), p, w, End("PIPE_W", k))
           IN /\ F \in Tables /\ (\A q \in Proc : q # p => F[q] = fds[q])
              /\ Counted([pipes EXCEPT ![k] = NewPipe], F)
<1> DEFINE E == Put(fds, p, r, End("PIPE_R", k))
           F == Put(E, p, w, End("PIPE_W", k))
           P == [pipes EXCEPT ![k] = NewPipe]
<1>1. /\ k \in PipeId /\ pipes[k].readers = 0 /\ pipes[k].writers = 0
      /\ Counted(pipes, fds) /\ pipes \in Pipes /\ fds \in Tables
  BY NowFacts DEF FreePipes, Counted
<1>2. End("PIPE_R", k) \in Ends /\ End("PIPE_W", k) \in Ends
  BY <1>1, EndType
<1>3. /\ E \in Tables /\ E[p][w] = Closed
      /\ \A u \in Proc, v \in Fd : u # p => E[u][v] = fds[u][v]
  BY <1>1, <1>2, PutIs
<1>4. /\ \A kind, j : Count(E, kind, j)
                        = Moved(Count(fds, kind, j), Closed, End("PIPE_R", k), End(kind, j))
  BY <1>1, <1>2, PutCount
<1> HIDE DEF E
<1>5. \A kind, j : Count(F, kind, j)
                     = Moved(Count(E, kind, j), Closed, End("PIPE_W", k), End(kind, j))
  BY <1>2, <1>3, PutCount
<1>6. F \in Tables /\ \A u \in Proc, v \in Fd : u # p => F[u][v] = fds[u][v]
  BY <1>2, <1>3, PutIs
<1> HIDE DEF F
<1>7. \A q \in Proc : q # p => F[q] = fds[q]
  BY <1>1, <1>6 DEF Tables
<1>8. P[k] = NewPipe /\ \A j \in PipeId : j # k => P[j] = pipes[j]
  BY <1>1, Zenon DEF Pipes
<1> HIDE DEF P
<1>9. ASSUME NEW kind \in {"PIPE_R", "PIPE_W"}, NEW j \in PipeId
      PROVE  Count(F, kind, j) = IF j = k THEN Count(fds, kind, j) + 1 ELSE Count(fds, kind, j)
  <2>1. End(kind, j) # Closed
    BY DEF End, Closed
  <2>2. /\ End("PIPE_R", k) = End(kind, j) <=> kind = "PIPE_R" /\ j = k
        /\ End("PIPE_W", k) = End(kind, j) <=> kind = "PIPE_W" /\ j = k
    BY DEF End
  <2>3. Count(E, kind, j) = Moved(Count(fds, kind, j), Closed, End("PIPE_R", k), End(kind, j))
    BY <1>4
  <2>4. Count(F, kind, j) = Moved(Count(E, kind, j), Closed, End("PIPE_W", k), End(kind, j))
    BY <1>5, Zenon
  <2> QED BY <2>1, <2>2, <2>3, <2>4 DEF Moved
<1>10. Counted(P, F)
  <2>1. ASSUME NEW j \in PipeId, j # k
        PROVE  /\ P[j].readers = Count(F, "PIPE_R", j)
               /\ P[j].writers = Count(F, "PIPE_W", j)
               /\ P[j].used <=> (P[j].readers # 0 \/ P[j].writers # 0)
    BY <1>1, <1>8, <1>9, <2>1 DEF Counted
  <2>2. /\ P[k].readers = Count(F, "PIPE_R", k) /\ P[k].writers = Count(F, "PIPE_W", k)
    BY <1>1, <1>8, <1>9, FreePipeType DEF Counted
  <2>3. P[k].used <=> (P[k].readers # 0 \/ P[k].writers # 0)
    BY <1>8, FreePipeType
  <2> QED BY <2>1, <2>2, <2>3, Zenon DEF Counted
<1> QED BY <1>6, <1>7, <1>10 DEF E, F, P

\* The two least free descriptors, when there are two.
LEMMA TwoFree ==
    ASSUME NEW p \in Proc, ~(Cardinality(FreeFds(p)) < 2)
    PROVE  LET free == FreeFds(p)
               r == Min(free)
               w == Min(free \ {r})
           IN r \in Fd /\ w \in Fd /\ r # w /\ fds[p][r] = Closed /\ fds[p][w] = Closed
<1> DEFINE free == FreeFds(p)
           r == Min(free)
           w == Min(free \ {r})
<1>1. free \subseteq Fd /\ Fd \subseteq Nat /\ \A fd \in free : fds[p][fd] = Closed
  BY TasksAssumption DEF FreeFds, Fd
<1> HIDE DEF free
<1>2. free # {}
  <2>1. Cardinality({}) < 2
    BY FS_EmptySet
  <2> QED BY <2>1 DEF free
<1>3. r \in free
  <2>1. free \in SUBSET Nat
    BY <1>1, Zenon
  <2> QED BY <1>2, <2>1, MinIn
<1> HIDE DEF r
<1>4. free \ {r} # {}
  <2>1. Cardinality({r}) < 2
    BY FS_Singleton
  <2>2. free # {r}
    BY <2>1, Zenon DEF free
  <2> QED BY <1>3, <2>2
<1>5. w \in free \ {r}
  <2>1. free \ {r} \in SUBSET Nat
    BY <1>1, Zenon
  <2> QED BY <1>4, <2>1, MinIn, Zenon
<1> QED BY <1>1, <1>3, <1>5, Zenon DEF r, free

\* Two descriptors of a task are closed one after the other.
LEMMA CloseTwo ==
    ASSUME NEW S, Good(S), NEW p \in Proc, S.task[p].state = "RUNNABLE",
           NEW r \in Fd, NEW w \in Fd
    PROVE  LET R == task_fd_close(task_fd_close(S, p, r), p, w)
           IN Good(R) /\ R.pipes \in Pipes /\ Shrinks(S.pipes, R.pipes)
<1> DEFINE M == task_fd_close(S, p, r)
           R == task_fd_close(M, p, w)
<1>1. /\ S \in States /\ Counted(S.pipes, S.fds) /\ Tidy(S) /\ S.pipes \in Pipes
      /\ S.fds \in Tables /\ (TRUE \notin BadBuffer => Asleep(S))
  BY Zenon DEF Good, States
<1>2. Closes(S, M, p, r)
  BY <1>1, CloseOK, Zenon
<1> HIDE DEF M
<1>3. /\ M \in States /\ Counted(M.pipes, M.fds) /\ M.pipes \in Pipes /\ M.fds \in Tables
      /\ M.fds = Put(S.fds, p, r, Closed)
  BY <1>2, Zenon DEF Closes, States
<1>4. Closes(M, R, p, w)
  BY <1>3, CloseOK, Zenon
<1> HIDE DEF R
<1>5. /\ R \in States /\ Counted(R.pipes, R.fds) /\ R.pipes \in Pipes
      /\ R.fds = Put(M.fds, p, w, Closed) /\ (TRUE \notin BadBuffer => Asleep(R))
  BY <1>1, <1>2, <1>4, Zenon DEF Closes, States
<1>6. Shrinks(S.pipes, R.pipes)
  <2>1. Shrinks(S.pipes, M.pipes) /\ Shrinks(M.pipes, R.pipes)
    BY <1>2, <1>4 DEF Closes
  <2> QED BY <1>1, <1>3, <1>5, <2>1, ShrinksTrans, Zenon
<1>7. Tidy(R)
  <2>1. \A q \in Proc, v \in Fd : q # p => M.fds[q][v] = S.fds[q][v]
    BY <1>1, <1>3, PutIs
  <2>2. \A q \in Proc, v \in Fd : q # p => R.fds[q][v] = M.fds[q][v]
    BY <1>3, <1>5, PutIs
  <2>3. \A q \in Proc : R.task[q].state = "UNUSED" => q # p /\ S.task[q].state = "UNUSED"
    BY <1>2, <1>4, Zenon DEF Closes
  <2> QED BY <1>1, <2>1, <2>2, <2>3 DEF Tidy
<1> QED BY <1>5, <1>6, <1>7, Zenon DEF Good, R, M

LEMMA PipeStep ==
    ASSUME Good(Now), NEW p \in Proc, NEW bad \in BOOLEAN, PipeCall(p, bad)
    PROVE  StepOK(Now, Now')
<1> DEFINE k == Min(FreePipes)
           born == [Now EXCEPT !.pipes[k] = NewPipe]
           free == FreeFds(p)
           r == Min(free)
           w == Min(free \ {r})
           open == [born EXCEPT !.fds[p][r] = [kind |-> "PIPE_R", pipe |-> k],
                                !.fds[p][w] = [kind |-> "PIPE_W", pipe |-> k]]
           shut == [born EXCEPT !.pipes[k] = pipe_close_write(pipe_close_read(@))]
<1>1. /\ task[p].state = "RUNNABLE" /\ FreePipes # {}
      /\ IF Cardinality(free) < 2 THEN Becomes(shut)
         ELSE Becomes(IF bad THEN task_fd_close(task_fd_close(open, p, r), p, w) ELSE open)
  BY Zenon DEF PipeCall, Idle, Runs
<1>2. k \in FreePipes /\ k \in PipeId
  <2>1. FreePipes \in SUBSET Nat
    BY TasksAssumption, Zenon DEF FreePipes
  <2>2. k \in FreePipes
    BY <1>1, <2>1, MinIn, Zenon
  <2> QED BY <2>2, Zenon DEF FreePipes
<1> HIDE DEF k
<1>3. CASE Cardinality(free) < 2
  <2> DEFINE x == pipe_close_write(pipe_close_read(NewPipe))
             P == [pipes EXCEPT ![k] = x]
  <2>1. x \in PipeRecord /\ x.readers = 0 /\ x.writers = 0 /\ ~x.used
    <3> DEFINE y == pipe_close_read(NewPipe)
    <3>1. y \in PipeRecord /\ y.readers = 0 /\ y.writers = 1 /\ y.used
      BY FreePipeType, ClosePipe
    <3> HIDE DEF y
    <3>2. pipe_close_write(y) \in PipeRecord /\ pipe_close_write(y).readers = 0
          /\ pipe_close_write(y).writers = 0 /\ ~pipe_close_write(y).used
      BY <3>1, ClosePipe
    <3> QED BY <3>2, Zenon DEF y
  <2> HIDE DEF x
  <2>2. P \in Pipes /\ P[k] = x /\ \A j \in PipeId : j # k => P[j] = pipes[j]
    BY <1>2, <2>1, NowFacts DEF Pipes
  <2>3. shut = [Now EXCEPT !.pipes = P]
    BY <1>2, NowFacts, Zenon DEF Now, Pipes, x
  <2> HIDE DEF P, shut
  <2>4. shut \in States /\ shut.pipes = P /\ shut.fds = fds /\ shut.task = task
    BY <2>2, <2>3, NowFacts, Zenon DEF States
  <2>5. Counted(P, fds)
    <3>1. Counted(pipes, fds) /\ ~pipes[k].used
      BY <1>2, NowFacts, Zenon DEF FreePipes
    <3>2. pipes[k].readers = 0 /\ pipes[k].writers = 0
      BY <1>2, <3>1, Zenon DEF Counted
    <3> QED BY <1>2, <2>1, <2>2, <3>1, <3>2, Zenon DEF Counted
  <2>6. Good(shut) /\ \A R \in Pipes : Shrinks(shut.pipes, R) => Final(pipes, R)
    BY <1>1, <1>2, <2>2, <2>4, <2>5, FreshPipeOK
  <2>7. Now' = shut
    BY <1>1, <1>3, <2>4, BecomesIs, Zenon
  <2> QED BY <2>2, <2>4, <2>6, <2>7, NowFacts, SameRelations DEF StepOK
<1>4. CASE ~(Cardinality(free) < 2)
  <2> DEFINE P == [pipes EXCEPT ![k] = NewPipe]
             F == Put(Put(fds, p, r, End("PIPE_R", k)), p, w, End("PIPE_W", k))
  <2>1. r \in Fd /\ w \in Fd /\ r # w /\ fds[p][r] = Closed /\ fds[p][w] = Closed
    BY <1>4, TwoFree, Zenon
  <2> HIDE DEF r, w
  <2>2. F \in Tables /\ (\A q \in Proc : q # p => F[q] = fds[q]) /\ Counted(P, F)
    BY <1>2, <2>1, OpenedOK, Zenon
  <2>3. P \in Pipes /\ \A j \in PipeId : j # k => P[j] = pipes[j]
    BY <1>2, FreePipeType, NowFacts, Zenon DEF Pipes
  <2>4. open = [pipes |-> P, fds |-> F, task |-> task]
    <3>1. born = [pipes |-> P, fds |-> fds, task |-> task]
      BY DEF Now
    <3> HIDE DEF P, born
    <3> DEFINE e == [kind |-> "PIPE_R", pipe |-> k]
               f == [kind |-> "PIPE_W", pipe |-> k]
               E == [fds EXCEPT ![p][r] = e]
    <3>2. F = [E EXCEPT ![p][w] = f]
      BY Zenon DEF Put, End
    <3> HIDE DEF e, f, F
    <3>3. [born EXCEPT !.fds[p][r] = e] = [pipes |-> P, fds |-> E, task |-> task]
      BY <3>1
    <3>4. open = [[born EXCEPT !.fds[p][r] = e] EXCEPT !.fds[p][w] = f]
      BY DEF e, f
    <3> HIDE DEF E, open
    <3> QED BY <3>2, <3>3, <3>4, Zenon
  <2> HIDE DEF P, F, open
  <2>5. open \in States /\ open.pipes = P /\ open.fds = F /\ open.task = task
    BY <2>2, <2>3, <2>4, NowFacts DEF States
  <2>6. Good(open) /\ \A R \in Pipes : Shrinks(P, R) => Final(pipes, R)
    BY <1>1, <1>2, <2>2, <2>3, <2>5, FreshPipeOK
  <2>7. CASE ~bad
    <3>1. Now' = open
      BY <1>1, <1>4, <2>5, <2>7, BecomesIs
    <3>2. Final(pipes, P)
      BY <2>3, <2>6, SameRelations, Zenon
    <3> QED BY <2>5, <2>6, <3>1, <3>2, NowFacts DEF StepOK
  <2>8. CASE bad
    <3> DEFINE R == task_fd_close(task_fd_close(open, p, r), p, w)
    <3>1. Good(R) /\ R.pipes \in Pipes /\ Shrinks(P, R.pipes)
      BY <1>1, <2>1, <2>5, <2>6, CloseTwo
    <3>2. Becomes(R)
      BY <1>1, <1>4, <2>8, Zenon
    <3> HIDE DEF R
    <3>3. Now' = R
      BY <3>1, <3>2, BecomesIs, Zenon DEF Good
    <3> QED BY <2>6, <3>1, <3>3, NowFacts, Zenon DEF StepOK
  <2> QED BY <2>7, <2>8, Zenon
<1> QED BY <1>3, <1>4, Zenon

-----------------------------------------------------------------------------
IInv == Good(Now)

LEMMA InitIInv ==
    ASSUME Init
    PROVE  IInv
<1>1. PICK p \in Proc :
        /\ task = [q \in Proc |-> IF q = p THEN Fresh ELSE Dead]
        /\ fds = [q \in Proc |-> [fd \in Fd |->
                    IF q = p /\ fd < FirstFd THEN Console ELSE Closed]]
  BY DEF Init
<1>2. pipes \in Pipes /\ \A k \in PipeId : pipes[k] = FreePipe
  BY FreePipeType DEF Init, Pipes
<1>3. fds \in Tables
  BY <1>1 DEF Tables
<1>4. task \in [Proc -> TaskRecord] /\ \A q \in Proc : task[q].state # "WAITING"
  BY <1>1 DEF TaskRecord, Fresh, Dead
<1>5. Counted(pipes, fds)
  <2>1. ASSUME NEW kind \in {"PIPE_R", "PIPE_W"}, NEW k \in PipeId
        PROVE  Count(fds, kind, k) = 0
    <3>1. End(kind, k) # Closed /\ End(kind, k) # Console
      BY DEF End, Closed, Console
    <3>2. Named(fds, kind, k) = {}
      BY <1>1, <3>1, Zenon DEF Named
    <3> QED BY <3>2, FS_EmptySet, Zenon DEF Count
  <2> QED BY <1>2, <2>1, FreePipeType, Zenon DEF Counted
<1>6. Tidy(Now)
  <2>1. ASSUME NEW q \in Proc, NEW fd \in Fd, task[q].state = "UNUSED"
        PROVE  fds[q][fd] = Closed
    <3>1. q # p
      BY <1>1, <2>1, Zenon DEF Fresh
    <3> QED BY <1>1, <3>1, Zenon
  <2> QED BY <2>1, Zenon DEF Tidy, Now
<1>7. Asleep(Now)
  BY <1>4, Zenon DEF Asleep, Now
<1> QED BY <1>2, <1>3, <1>4, <1>5, <1>6, <1>7, Zenon DEF IInv, Good, States, Now

LEMMA StepIInv ==
    ASSUME IInv, [Next]_vars
    PROVE  IInv' /\ Final(pipes, pipes')
<1>1. Good(Now)
  BY DEF IInv
<1>2. StepOK(Now, Now') => IInv' /\ Final(pipes, pipes')
  BY DEF StepOK, IInv, Now
<1>3. ASSUME NEW p \in Proc, NEW bad \in BadBuffer, PipeCall(p, bad)
      PROVE  StepOK(Now, Now')
  BY <1>1, <1>3, PipeStep, TasksAssumption, Zenon
<1>4. ASSUME NEW p \in Proc, NEW fd \in Fd, CloseCall(p, fd)
      PROVE  StepOK(Now, Now')
  BY <1>1, <1>4, CloseStep, Zenon
<1>5. ASSUME NEW p \in Proc, NEW old \in Fd, NEW new \in Fd, Dup2(p, old, new)
      PROVE  StepOK(Now, Now')
  BY <1>1, <1>5, Dup2Step, Zenon
<1>6. ASSUME NEW p \in Proc, NEW q \in Proc, Fork(p, q)
      PROVE  StepOK(Now, Now')
  BY <1>1, <1>6, ForkStep, Zenon
<1>7. ASSUME NEW p \in Proc, Exit(p)
      PROVE  StepOK(Now, Now')
  BY <1>1, <1>7, ExitStep, Zenon
<1>8. ASSUME NEW p \in Proc, NEW call \in Calls, Begin(p, call)
      PROVE  StepOK(Now, Now')
  BY <1>1, <1>8, TransferStep DEF Begin, Idle, Runs
<1>9. ASSUME NEW p \in Proc, Retry(p)
      PROVE  StepOK(Now, Now')
  <2>1. task[p].call \in Calls
    BY <1>1, <1>9, NowFacts DEF Retry, Owes, TaskRecord
  <2> QED BY <1>1, <1>9, <2>1, TransferStep DEF Retry, Owes, Runs
<1>10. ASSUME NEW p \in Proc, NEW restart \in BOOLEAN, Interrupt(p, restart)
       PROVE  StepOK(Now, Now')
  BY <1>1, <1>10, InterruptStep, Zenon
<1>11. ASSUME NEW p \in Proc, Stop(p)
       PROVE  StepOK(Now, Now')
  BY <1>1, <1>11, StopStep
<1>12. ASSUME NEW p \in Proc, Continue(p)
       PROVE  StepOK(Now, Now')
  BY <1>1, <1>12, ContinueStep
<1>13. CASE UNCHANGED vars
  <2>1. pipes' = pipes /\ Now' = Now
    BY <1>13, Zenon DEF vars, Now
  <2> QED BY <1>1, <2>1, NowFacts, SameRelations, Zenon DEF IInv
<1>14. Next => StepOK(Now, Now')
  BY <1>3, <1>4, <1>5, <1>6, <1>7, <1>8, <1>9, <1>10, <1>11, <1>12, Zenon DEF Next
<1> QED BY <1>2, <1>13, <1>14, Zenon

\* The invariant in the terms of the properties.
LEMMA GoodMeans ==
    ASSUME IInv
    PROVE  /\ CountsAreDescriptors
           /\ TRUE \notin BadBuffer => NoLostWakeup
<1>1. Good(Now)
  BY DEF IInv
<1>2. CountsAreDescriptors
  <2>1. ASSUME NEW k \in PipeId, NEW kind
        PROVE  /\ Holders(kind, k) = Named(fds, kind, k)
               /\ Cardinality(Holders(kind, k)) = Count(fds, kind, k)
               /\ Count(fds, kind, k) = 0 <=> Holders(kind, k) = {}
    <3>1. Holders(kind, k) = Named(fds, kind, k)
      BY DEF Holders, Named, End
    <3> QED BY <3>1, NamedFinite, FS_EmptySet, Zenon DEF Count
  <2>2. Counted(pipes, fds)
    BY <1>1, NowFacts, Zenon
  <2>3. ASSUME NEW k \in PipeId
        PROVE  /\ pipes[k].readers = Cardinality(Holders("PIPE_R", k))
               /\ pipes[k].writers = Cardinality(Holders("PIPE_W", k))
               /\ pipes[k].used <=> Holders("PIPE_R", k) \cup Holders("PIPE_W", k) # {}
    BY <2>1, <2>2, Zenon DEF Counted
  <2> QED BY <2>3 DEF CountsAreDescriptors
<1>3. ASSUME TRUE \notin BadBuffer PROVE NoLostWakeup
  <2>1. TypeOK
    BY <1>1, NowFacts, Zenon DEF TypeOK, Pipes, Tables, TaskRecord
  <2>2. ASSUME NEW p \in Proc, task[p].state = "WAITING"
        PROVE  LET f == fds[p][task[p].call.fd]
                   pipe == pipes[task[p].obj]
               IN \/ /\ f = [kind |-> "PIPE_R", pipe |-> task[p].obj] /\ ~PollIn(f)
                     /\ pipe.count = 0 /\ pipe_has_writers(pipe)
                  \/ /\ f = [kind |-> "PIPE_W", pipe |-> task[p].obj] /\ ~PollOut(f)
                     /\ pipe.count = PIPE_CAPACITY /\ pipe_has_readers(pipe)
    <3> DEFINE f == fds[p][task[p].call.fd]
               k == task[p].obj
    <3>1. Asleep(Now) /\ Now.pipes = pipes /\ Now.fds = fds /\ Now.task = task
      BY <1>1, <1>3, NowFacts, Zenon
    <3>2. WaitsRight(Now, p)
      BY <2>2, <3>1, Zenon DEF Asleep
    <3>3. k \in PipeId /\ \/ f = End("PIPE_R", k) /\ pipes[k].count = 0
                             /\ pipe_has_writers(pipes[k])
                          \/ f = End("PIPE_W", k) /\ pipes[k].count = PIPE_CAPACITY
                             /\ pipe_has_readers(pipes[k])
      BY <3>1, <3>2, Zenon DEF WaitsRight
    <3> HIDE DEF f, k
    <3>4. CASE f = End("PIPE_R", k) /\ pipes[k].count = 0 /\ pipe_has_writers(pipes[k])
      <4>1. f.pipe = k
        BY <3>3, <3>4, EndType, Zenon
      <4>2. ~PollIn(f)
        BY <3>4, <4>1 DEF PollIn
      <4> QED BY <3>4, <4>2, Zenon DEF f, k, End
    <3>5. CASE f = End("PIPE_W", k) /\ pipes[k].count = PIPE_CAPACITY
               /\ pipe_has_readers(pipes[k])
      <4>1. f.pipe = k
        BY <3>3, <3>5, EndType, Zenon
      <4>2. WriteCount(pipes[k], PIPE_CAPACITY) = 0
        BY <3>5, PipeAssumption DEF WriteCount, Lesser
      <4>3. ~PollOut(f)
        BY <3>5, <4>1, <4>2 DEF PollOut
      <4> QED BY <3>5, <4>3, Zenon DEF f, k, End
    <3> QED BY <3>3, <3>4, <3>5, Zenon
  <2> QED BY <2>1, <2>2, Zenon DEF NoLostWakeup
<1> QED BY <1>2, <1>3, Zenon

\* The reader and writer counts of every pipe are the descriptors that name
\* its ends, in every reachable state (task_fd_ref, task_fd_drop).
THEOREM CountsAlwaysDescriptors == Spec => []CountsAreDescriptors
<1>1. Init => IInv
  BY InitIInv
<1>2. IInv /\ [Next]_vars => IInv'
  BY StepIInv, Zenon
<1>3. IInv => CountsAreDescriptors
  BY GoodMeans, Zenon
<1> QED BY <1>1, <1>2, <1>3, PTL DEF Spec

\* As long as no call passes a bad buffer, no task ever sleeps on a pipe that
\* is ready for it (task_wake_pipe is called wherever it has to be).
THEOREM WakeupsNeverLost ==
    ASSUME TRUE \notin BadBuffer
    PROVE  Spec => []NoLostWakeup
<1>1. Init => IInv
  BY InitIInv
<1>2. IInv /\ [Next]_vars => IInv'
  BY StepIInv, Zenon
<1>3. IInv => NoLostWakeup
  BY GoodMeans
<1> QED BY <1>1, <1>2, <1>3, PTL DEF Spec

\* An end whose last descriptor is closed stays closed until the pipe is
\* released, and its ring gains no byte (pipe_ref_read, pipe_ref_write).
THEOREM HangupsAreFinal == Spec => HangupIsFinal
<1>1. Init => IInv
  BY InitIInv
<1>2. IInv /\ [Next]_vars => IInv'
  BY StepIInv
<1>3. IInv /\ [Next]_vars =>
        [\A k \in PipeId : pipes[k].used /\ pipes'[k].used =>
            /\ pipes[k].writers = 0 => pipes'[k].writers = 0 /\ pipes'[k].count <= pipes[k].count
            /\ pipes[k].readers = 0 => pipes'[k].readers = 0]_vars
  BY StepIInv DEF Final
<1> QED BY <1>1, <1>2, <1>3, PTL DEF Spec, HangupIsFinal
=============================================================================

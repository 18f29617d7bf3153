---------------------------- MODULE ProcessProofs ----------------------------
(***************************************************************************)
(* Proofs about processes and signals, for every number of task slots and  *)
(* every repertoire of calls: the parent of a child is alive to wait for   *)
(* it, nobody sleeps in wait over an event, the pending signals are sound, *)
(* SIGCHLD is not lost and a running handler keeps its saved frame.        *)
(***************************************************************************)
EXTENDS Process, FiniteSetTheorems, LoopLemmas

-----------------------------------------------------------------------------
\* Queues: sequences of signals, each at most once.

Distinct(q) == \A i, j \in 1 .. Len(q) : q[i] = q[j] => i = j

Held(q) == {q[i] : i \in 1 .. Len(q)}

Queue(q) == q \in Seq(Signals) /\ Distinct(q)

\* k holds the first n signals of q except those of S.
Sifted(q, S, k, n) ==
    /\ Queue(k)
    /\ \A x : x \in Held(k) <=> (x \notin S /\ \E i \in 1 .. n : q[i] = x)

LEMMA EmptyQueue == Queue(<<>>) /\ Held(<<>>) = {} /\ Len(<<>>) = 0
  BY DEF Queue, Distinct, Held

LEMMA AppendIs ==
    ASSUME NEW k, Queue(k), NEW e \in Signals, e \notin Held(k)
    PROVE  /\ Queue(Append(k, e))
           /\ Held(Append(k, e)) = Held(k) \union {e}
<1> DEFINE a == Append(k, e)
<1>1. /\ k \in Seq(Signals) /\ a \in Seq(Signals) /\ Len(a) = Len(k) + 1
      /\ \A i \in 1 .. Len(k) : a[i] = k[i]
      /\ a[Len(k) + 1] = e /\ Len(k) \in Nat
  BY DEF Queue
<1>2. \A i \in 1 .. Len(k) : k[i] # e
  BY Zenon DEF Held
<1>3. \A i, j \in 1 .. Len(k) : k[i] = k[j] => i = j
  BY Zenon DEF Queue, Distinct
<1> HIDE DEF a
<1>4. \A i, j \in 1 .. Len(k) + 1 : a[i] = a[j] => i = j
  BY <1>1, <1>2, <1>3
<1>5. Queue(a)
  BY <1>1, <1>4 DEF Queue, Distinct
<1>6. \A i : i \in 1 .. Len(k) + 1 <=> (i \in 1 .. Len(k) \/ i = Len(k) + 1)
  BY <1>1
<1>7. Held(a) = Held(k) \union {e}
  BY <1>1, <1>6, Zenon DEF Held
<1> QED BY <1>5, <1>7 DEF a

LEMMA SiftedStep ==
    ASSUME NEW q, Queue(q), NEW S, NEW n \in 0 .. Len(q) - 1, NEW k, Sifted(q, S, k, n)
    PROVE  Sifted(q, S, IF q[n + 1] \in S THEN k ELSE Append(k, q[n + 1]), n + 1)
<1> DEFINE e == q[n + 1]
<1>1. /\ q \in Seq(Signals) /\ Len(q) \in Nat /\ n + 1 \in 1 .. Len(q) /\ e \in Signals
      /\ 1 .. n \subseteq 1 .. Len(q) /\ \A i \in 1 .. n : i # n + 1
      /\ \A i : i \in 1 .. n + 1 <=> (i \in 1 .. n \/ i = n + 1)
  BY DEF Queue
<1>2. \A i \in 1 .. n : q[i] # e
  BY <1>1, Zenon DEF Queue, Distinct
<1>3. \A x : (\E i \in 1 .. n + 1 : q[i] = x) <=> (x = e \/ \E i \in 1 .. n : q[i] = x)
  BY <1>1, Zenon
<1>4. Queue(k) /\ e \notin Held(k)
  BY <1>2, Zenon DEF Sifted
<1> HIDE DEF e
<1>5. CASE e \notin S
  <2>1. Queue(Append(k, e)) /\ Held(Append(k, e)) = Held(k) \union {e}
    BY <1>1, <1>4, AppendIs, Zenon
  <2>2. \A x : x \in Held(Append(k, e)) <=> (x \notin S /\ \E i \in 1 .. n + 1 : q[i] = x)
    BY <1>3, <1>5, <2>1, Zenon DEF Sifted
  <2>3. Sifted(q, S, Append(k, e), n + 1)
    BY <2>1, <2>2, Zenon DEF Sifted
  <2> QED BY <1>5, <2>3, Zenon DEF e
<1>6. CASE e \in S
  BY <1>3, <1>6, Zenon DEF Sifted, e
<1> QED BY <1>5, <1>6, Zenon

\* The loop of task_signal_clear_pending.
LEMMA WithoutIs ==
    ASSUME NEW q, Queue(q), NEW S
    PROVE  Queue(Without(q, S)) /\ Held(Without(q, S)) = Held(q) \ S
<1> DEFINE N == Len(q)
           F(k, n) == IF q[n] \in S THEN k ELSE Append(k, q[n])
           X == [n \in 0 .. N |-> {k \in Seq(Signals) : Sifted(q, S, k, n)}]
           D == [n \in 0 .. N - 1 |-> [k \in X[n] |-> F(k, n + 1)]]
           kept == CHOOSE g : g = [n \in 0 .. N |->
                                     IF n = 0 THEN <<>>
                                     ELSE IF q[n] \in S THEN g[n - 1] ELSE Append(g[n - 1], q[n])]
<1>0. /\ N \in Nat /\ q \in Seq(Signals)
      /\ \A n \in 0 .. N - 1 : n + 1 \in 0 .. N /\ n \in 0 .. N /\ n + 1 \in 1 .. N
  BY DEF Queue
<1>1. <<>> \in X[0]
  <2>1. <<>> \in Seq(Signals)
    OBVIOUS
  <2>3. ~\E i \in 1 .. 0 : TRUE
    OBVIOUS
  <2>4. Sifted(q, S, <<>>, 0)
    BY <2>3, EmptyQueue, Zenon DEF Sifted
  <2> QED BY <1>0, <2>1, <2>4
<1>2. ASSUME NEW n \in 0 .. N - 1, NEW k \in X[n]
      PROVE  F(k, n + 1) \in X[n + 1]
  <2>1. Sifted(q, S, k, n)
    BY <1>0, Zenon
  <2>2. Sifted(q, S, F(k, n + 1), n + 1)
    BY <2>1, SiftedStep
  <2>3. F(k, n + 1) \in Seq(Signals)
    BY <2>2, Zenon DEF Sifted, Queue
  <2> QED BY <1>0, <2>2, <2>3, Zenon
<1>3. \E g : g = [n \in 0 .. N |-> IF n = 0 THEN <<>> ELSE F(g[n - 1], n)]
  <2> HIDE DEF X, F
  <2>1. \A n \in 0 .. N - 1 : \A k \in X[n] : D[n][k] = F(k, n + 1) /\ D[n][k] \in X[n + 1]
    BY <1>0, <1>2, Zenon
  <2> HIDE DEF D, N
  <2>2. PICK g : Run(g, X, D, <<>>, N)
    BY <1>0, <1>1, <2>1, LoopRuns, Zenon
  <2>3. ASSUME NEW n \in 0 .. N, n # 0
        PROVE  D[n - 1][g[n - 1]] = F(g[n - 1], n)
    <3>1. n - 1 \in 0 .. N - 1 /\ n - 1 \in 0 .. N /\ (n - 1) + 1 = n
      BY <1>0, <2>3
    <3>2. D[n - 1][g[n - 1]] = F(g[n - 1], (n - 1) + 1)
      BY <2>1, <2>2, <3>1, Zenon DEF Run
    <3> QED BY <3>1, <3>2, Zenon
  <2>4. g = [n \in 0 .. N |-> IF n = 0 THEN <<>> ELSE F(g[n - 1], n)]
    BY <2>2, <2>3, Zenon DEF Run
  <2> QED BY <2>4, Zenon
<1>4. kept = [n \in 0 .. N |-> IF n = 0 THEN <<>> ELSE F(kept[n - 1], n)]
  BY <1>3, Zenon
<1>5. Without(q, S) = kept[N]
  BY DEF Without
<1> HIDE DEF kept, X, D, F, N
<1>6. kept[0] \in X[0]
  BY <1>0, <1>1, <1>4
<1>7. ASSUME NEW n \in 0 .. N - 1, kept[n] \in X[n]
      PROVE  kept[n + 1] \in X[n + 1]
  <2>1. kept[n + 1] = F(kept[n], n + 1)
    BY <1>0, <1>4
  <2> QED BY <1>0, <1>2, <1>7, <2>1, Zenon
<1>8. kept[N] \in X[N]
  BY <1>0, <1>6, <1>7, LoopKeeps, Zenon
<1>9. Sifted(q, S, kept[N], N)
  BY <1>0, <1>8 DEF X
<1> QED BY <1>5, <1>9, Zenon DEF Sifted, Held, N

LEMMA CountIs ==
    ASSUME NEW q, Queue(q)
    PROVE  Cardinality(Held(q)) = Len(q)
<1>1. /\ q \in Seq(Signals) /\ Len(q) \in Nat
      /\ q \in [1 .. Len(q) -> Held(q)]
  BY DEF Queue, Held
<1>2. q \in Bijection(1 .. Len(q), Held(q))
  BY <1>1, Zenon DEF Bijection, Injection, Surjection, Held, Queue, Distinct, IsInjective
<1>3. ExistsBijection(1 .. Len(q), Held(q))
  BY <1>2, Zenon DEF ExistsBijection
<1> QED BY <1>1, <1>3, FS_CountingElements, Zenon

\* The least element of a set of numbers.
LEMMA LeastIs ==
    ASSUME NEW S, S \subseteq Nat, S # {}
    PROVE  Least(S) \in S /\ \A y \in S : Least(S) <= y
<1>1. PICK x \in S : \A y \in S : x <= y
  <2> DEFINE V == {n \in Nat : \A y \in S : y > n}
  <2> SUFFICES ASSUME \A x \in S : \E y \in S : ~(x <= y) PROVE FALSE
    OBVIOUS
  <2>1. 0 \in V
    OBVIOUS
  <2>2. \A n \in Nat : n \in V => n + 1 \in V
    OBVIOUS
  <2>3. \A n \in Nat : n \in V
    <3> HIDE DEF V
    <3> QED BY <2>1, <2>2, NatSetInduction
  <2>4. PICK y \in S : TRUE
    BY Zenon
  <2> QED BY <2>3, <2>4
<1> QED BY <1>1, Zenon DEF Least

-----------------------------------------------------------------------------
\* The task_t of one slot.

States == {"UNUSED", "RUNNABLE", "RUNNING", "WAITING", "STOPPED", "ZOMBIE"}

Call == [op : {"none", "wait", "sleep"}, pid : Int, opts : SUBSET Options, left : Nat]

TaskRecord ==
    [state : States, pid : Nat, ppid : Int, pgid : Int,
     wait_kind : {"NONE", "CHILD", "SLEEP"}, wait_pid : Int, wake : Nat, tf : Call,
     pending : SUBSET Signals, queue : Seq(Signals), mask : SUBSET Signals,
     act : [Signals -> Action],
     active : BOOLEAN, saved_tf : Call, saved_mask : SUBSET Signals,
     stop_report : BOOLEAN, cont_report : BOOLEAN]

\* QueueMatchesMask, with the saved mask, which comes back, and with the queue's
\* signals distinct in the place of their count.
SignalsOK(t) ==
    /\ Queue(t.queue)
    /\ t.pending = Held(t.queue)
    /\ ~({SIGSTOP, SIGCONT} \subseteq t.pending)
    /\ SIGKILL \notin t.pending
    /\ t.mask \intersect Unblockable = {}
    /\ t.saved_mask \intersect Unblockable = {}

\* A task names what it waits for exactly while it waits.
CallOK(t) ==
    /\ (t.wait_kind # "NONE") = (t.state = "WAITING")
    /\ t.state = "WAITING" => t.tf.op # "none"

Local(t) == t \in TaskRecord /\ SignalsOK(t) /\ CallOK(t)

\* u differs from t in nothing but the pending signals.
OnlySignals(t, u) ==
    /\ u.state = t.state /\ u.pid = t.pid /\ u.ppid = t.ppid /\ u.pgid = t.pgid
    /\ u.wait_kind = t.wait_kind /\ u.wait_pid = t.wait_pid /\ u.wake = t.wake /\ u.tf = t.tf
    /\ u.mask = t.mask /\ u.act = t.act /\ u.active = t.active /\ u.saved_tf = t.saved_tf
    /\ u.saved_mask = t.saved_mask /\ u.stop_report = t.stop_report
    /\ u.cont_report = t.cont_report

LEMMA SignalsDiffer ==
    SIGKILL # SIGTERM /\ SIGKILL # SIGCHLD /\ SIGKILL # SIGCONT /\ SIGKILL # SIGSTOP
    /\ SIGTERM # SIGCHLD /\ SIGTERM # SIGCONT /\ SIGTERM # SIGSTOP /\ SIGCHLD # SIGCONT
    /\ SIGCHLD # SIGSTOP /\ SIGCONT # SIGSTOP
    /\ {SIGKILL, SIGTERM, SIGCHLD, SIGCONT, SIGSTOP} \subseteq Signals /\ 0 \notin Signals
    /\ Signals \subseteq Nat
  BY DEF SIGKILL, SIGTERM, SIGCHLD, SIGCONT, SIGSTOP, Signals

\* A record with another pending set and queue.
Requeue(t, p, q) == [t EXCEPT !.pending = p, !.queue = q]

LEMMA Requeued ==
    ASSUME NEW t, t \in TaskRecord, NEW p, p \subseteq Signals, NEW q, q \in Seq(Signals)
    PROVE  /\ Requeue(t, p, q) \in TaskRecord /\ OnlySignals(t, Requeue(t, p, q))
           /\ Requeue(t, p, q).pending = p /\ Requeue(t, p, q).queue = q
  BY Zenon DEF TaskRecord, OnlySignals, Requeue

LEMMA OnlySignalsTwice ==
    ASSUME NEW t, NEW u, NEW w, OnlySignals(t, u), OnlySignals(u, w)
    PROVE  OnlySignals(t, w)
  BY Zenon DEF OnlySignals

LEMMA OnlySignalsCallOK ==
    ASSUME NEW t, NEW u, OnlySignals(t, u), CallOK(t)
    PROVE  CallOK(u)
  BY Zenon DEF OnlySignals, CallOK

LEMMA HeldIsSignals ==
    ASSUME NEW q, Queue(q)
    PROVE  q \in Seq(Signals) /\ Held(q) \subseteq Signals
  BY DEF Queue, Held

LEMMA ClearedIs ==
    ASSUME NEW t, Local(t), NEW S
    PROVE  LET u == Cleared(t, S)
           IN Local(u) /\ OnlySignals(t, u) /\ u.pending = t.pending \ S
<1> DEFINE p == t.pending \ S
           q == Without(t.queue, S)
           u == Cleared(t, S)
<1>1. Queue(q) /\ Held(q) = p
  BY WithoutIs, Zenon DEF Local, SignalsOK
<1>2. p \subseteq Signals /\ q \in Seq(Signals) /\ t \in TaskRecord
  BY <1>1, HeldIsSignals, Zenon DEF Local
<1>3. u = Requeue(t, p, q)
  BY Zenon DEF Cleared, Requeue
<1> HIDE DEF u, q
<1>4. u \in TaskRecord /\ OnlySignals(t, u) /\ u.pending = p /\ u.queue = q
  BY <1>2, <1>3, Requeued
<1>5. SignalsOK(u)
  BY <1>1, <1>4, Zenon DEF SignalsOK, OnlySignals, Local
<1>6. CallOK(u)
  BY <1>4, OnlySignalsCallOK, Zenon DEF Local
<1> QED BY <1>4, <1>5, <1>6, Zenon DEF Local, u

\* task_signal_enqueue, for any signal that is ever queued.
LEMMA EnqueueIs ==
    ASSUME NEW t, Local(t), NEW sig \in Signals \ {SIGKILL}
    PROVE  LET u == task_signal_enqueue(t, sig)
           IN /\ Local(u) /\ OnlySignals(t, u)
              /\ u.pending = (t.pending \ Opposite(sig)) \union {sig}
<1> DEFINE u == Cleared(t, Opposite(sig))
           p == u.pending \union {sig}
           q == Append(u.queue, sig)
           w == Requeue(u, p, q)
<1>1. /\ Local(u) /\ OnlySignals(t, u) /\ u.pending = t.pending \ Opposite(sig)
  BY ClearedIs, Zenon
<1>2. task_signal_enqueue(t, sig) = IF sig \in u.pending THEN u ELSE w
  BY Zenon DEF task_signal_enqueue, Requeue
<1> HIDE DEF u
<1>3. CASE sig \in u.pending
  BY <1>1, <1>2, <1>3, Zenon
<1>4. CASE sig \notin u.pending
  <2>1. Queue(u.queue) /\ Held(u.queue) = u.pending
    BY <1>1, Zenon DEF Local, SignalsOK
  <2>2. Queue(q) /\ Held(q) = p
    BY <1>4, <2>1, AppendIs, Zenon
  <2>3. p \subseteq Signals /\ q \in Seq(Signals) /\ u \in TaskRecord
    BY <1>1, <2>2, HeldIsSignals, Zenon DEF Local
  <2> HIDE DEF p, q
  <2>4. w \in TaskRecord /\ OnlySignals(u, w) /\ w.pending = p /\ w.queue = q
    BY <2>3, Requeued
  <2> HIDE DEF w
  <2>5. ~({SIGSTOP, SIGCONT} \subseteq w.pending)
    <3>1. sig = SIGSTOP => Opposite(sig) = {SIGCONT}
      BY SignalsDiffer DEF Opposite
    <3>2. sig = SIGCONT => Opposite(sig) = {SIGSTOP}
      BY DEF Opposite
    <3>3. ~({SIGSTOP, SIGCONT} \subseteq u.pending)
      BY <1>1, Zenon DEF Local, SignalsOK
    <3> QED BY <1>1, <2>4, <3>1, <3>2, <3>3, SignalsDiffer, Zenon DEF p
  <2>6. SIGKILL \notin w.pending
    BY <1>1, <2>4, Zenon DEF Local, SignalsOK, p
  <2>7. w.mask = u.mask /\ w.saved_mask = u.saved_mask
    BY <2>4, Zenon DEF OnlySignals
  <2>8. SignalsOK(w)
    BY <1>1, <2>2, <2>4, <2>5, <2>6, <2>7, Zenon DEF SignalsOK, Local
  <2>9. CallOK(w) /\ OnlySignals(t, w)
    BY <1>1, <2>4, OnlySignalsCallOK, OnlySignalsTwice, Zenon DEF Local
  <2> QED BY <1>1, <1>2, <1>4, <2>4, <2>8, <2>9, Zenon DEF Local, p
<1> QED BY <1>3, <1>4

LEMMA PickIs ==
    ASSUME NEW t, Local(t)
    PROVE  PickSignal(t) # 0 => PickSignal(t) \in t.pending
<1> DEFINE ready == {i \in 1 .. Len(t.queue) :
                       t.queue[i] \in t.pending /\ ~task_signal_blocked(t, t.queue[i])}
           rest == {s \in t.pending : ~task_signal_blocked(t, s)}
<1>1. PickSignal(t) = CASE ready # {} -> t.queue[Least(ready)]
                        [] ready = {} /\ rest # {} -> Least(rest)
                        [] OTHER -> 0
  BY Zenon DEF PickSignal
<1>2. ready \subseteq Nat /\ rest \subseteq Nat
  <2>1. 1 .. Len(t.queue) \subseteq Nat
    BY DEF Local, SignalsOK, Queue
  <2>2. t.pending \subseteq Signals
    BY HeldIsSignals, Zenon DEF Local, SignalsOK
  <2> QED BY <2>1, <2>2, SignalsDiffer, Zenon
<1>3. ready # {} => Least(ready) \in ready
  BY <1>2, LeastIs, Zenon
<1>4. rest # {} => Least(rest) \in rest
  BY <1>2, LeastIs, Zenon
<1>5. ready # {} => t.queue[Least(ready)] \in t.pending
  BY <1>3, Zenon
<1>6. rest # {} => Least(rest) \in t.pending
  BY <1>4, Zenon
<1> HIDE DEF ready, rest
<1> QED BY <1>1, <1>5, <1>6

-----------------------------------------------------------------------------
\* Tables of tasks.

Tab(T) == T \in [Slots -> TaskRecord] /\ \A i \in Slots : Local(T[i])

Put(T, v, u) == [T EXCEPT ![v] = u]

InUse(t) == t.state # "UNUSED"

Alive(t) == t.state # "UNUSED" /\ t.state # "ZOMBIE"

\* A SIGSTOP is pending only while the task is stopped.
Halted(t) == SIGSTOP \in t.pending => t.state = "STOPPED"

EventOf(t) == IF t.state = "ZOMBIE" THEN "EXIT"
              ELSE IF t.state = "STOPPED" /\ t.stop_report THEN "STOP"
              ELSE IF t.cont_report THEN "CONT" ELSE "NONE"

\* t is blocked in a wait for any child or for one pid, and c is such a child.
Waits(t) == t.state = "WAITING" /\ t.wait_kind = "CHILD" /\ (t.wait_pid = -1 \/ t.wait_pid > 0)

Awaits(t, c) == c.ppid = t.pid /\ (t.wait_pid = -1 \/ c.pid = t.wait_pid)

\* c has no event that the options of t ask for.
Silent(t, c) == /\ EventOf(c) # "EXIT"
                /\ EventOf(c) = "STOP" => "UNTRACED" \notin t.tf.opts
                /\ EventOf(c) = "CONT" => "CONTINUED" \notin t.tf.opts

\* A task is not its own parent, and init has none.
Distinguished(t) == t.pid >= 1 /\ t.ppid # t.pid /\ (t.pid = InitPid => t.ppid <= 0)

\* The pids up to b name tasks, each at most one.
Named(T, b) ==
    /\ b \in Nat \ {0}
    /\ \A i \in Slots : T[i].pid \in 0 .. b /\ T[i].ppid \in -1 .. b
    /\ \A i \in Slots : InUse(T[i]) => Distinguished(T[i])
    /\ \A i, j \in Slots : InUse(T[i]) /\ InUse(T[j]) /\ T[i].pid = T[j].pid => i = j

Family(T) ==
    \A c \in Slots : InUse(T[c]) /\ T[c].ppid > 0 =>
       \E p \in Slots : Alive(T[p]) /\ T[p].pid = T[c].ppid

Waiters(T) ==
    \A p \in Slots : Waits(T[p]) =>
       /\ \E c \in Slots : InUse(T[c]) /\ Awaits(T[p], T[c])
       /\ \A c \in Slots : InUse(T[c]) /\ Awaits(T[p], T[c]) => Silent(T[p], T[c])

\* The inductive invariant of the task table.
TableOK(T, b) ==
    Tab(T) /\ (\A i \in Slots : Halted(T[i])) /\ Named(T, b) /\ Family(T) /\ Waiters(T)

IsPut(T, v, u, U) == Tab(U) /\ U[v] = u /\ \A i \in Slots : i # v => U[i] = T[i]

LEMMA PutIs ==
    ASSUME NEW T, Tab(T), NEW v \in Slots, NEW u, Local(u)
    PROVE  IsPut(T, v, u, Put(T, v, u))
<1>1. u \in TaskRecord /\ T \in [Slots -> TaskRecord]
  BY Zenon DEF Local, Tab
<1>2. /\ Put(T, v, u) \in [Slots -> TaskRecord] /\ Put(T, v, u)[v] = u
      /\ \A i \in Slots : i # v => Put(T, v, u)[i] = T[i]
  BY <1>1, Zenon DEF Put
<1> QED BY <1>2, Zenon DEF Tab, IsPut

LEMMA SetsAre ==
    ASSUME NEW T
    PROVE  /\ \A i : i \in Used(T) <=> i \in Slots /\ InUse(T[i])
           /\ \A i : i \in Live(T) <=> i \in Slots /\ Alive(T[i])
           /\ \A i : Event(T, i) = EventOf(T[i])
  BY Zenon DEF Used, Live, InUse, Alive, Event, EventOf

LEMMA MatchIs ==
    ASSUME NEW T, NEW p, NEW c, Waits(T[p])
    PROVE  task_wait_matches_filter(T, p, c, T[p].wait_pid) <=> Awaits(T[p], T[c])
<1>1. T[p].wait_pid = -1 \/ T[p].wait_pid > 0
  BY Zenon DEF Waits
<1> QED BY <1>1 DEF task_wait_matches_filter, Awaits

-----------------------------------------------------------------------------
\* Steps that change no family and no event, and at most wake tasks.

Nudged(t, u) ==
    /\ u.pid = t.pid /\ u.ppid = t.ppid
    /\ u.stop_report = t.stop_report /\ u.cont_report = t.cont_report
    /\ SIGSTOP \in u.pending => SIGSTOP \in t.pending
    /\ \/ /\ u.state = t.state
          /\ t.state = "WAITING" =>
               u.wait_kind = t.wait_kind /\ u.wait_pid = t.wait_pid /\ u.tf.opts = t.tf.opts
       \/ t.state \in {"WAITING", "RUNNING", "RUNNABLE"} /\ u.state \in {"RUNNING", "RUNNABLE"}

\* Steps that start no task and keep SIGCHLD and the saved frame.
Tame(t, u) ==
    /\ u.state = "RUNNING" => t.state = "RUNNING"
    /\ Alive(u) => Alive(t) /\ (SIGCHLD \in t.pending => SIGCHLD \in u.pending)
    /\ u.active => t.active /\ u.saved_tf = t.saved_tf /\ u.saved_mask = t.saved_mask

Soft(t, u) == Nudged(t, u) /\ Tame(t, u)

LEMMA Strings ==
    /\ "UNUSED" # "WAITING" /\ "UNUSED" # "RUNNING" /\ "UNUSED" # "RUNNABLE"
    /\ "UNUSED" # "STOPPED" /\ "UNUSED" # "ZOMBIE"
    /\ "ZOMBIE" # "WAITING" /\ "ZOMBIE" # "RUNNING" /\ "ZOMBIE" # "RUNNABLE"
    /\ "ZOMBIE" # "STOPPED" /\ "STOPPED" # "WAITING" /\ "STOPPED" # "RUNNING"
    /\ "STOPPED" # "RUNNABLE" /\ "WAITING" # "RUNNING" /\ "WAITING" # "RUNNABLE"
    /\ "RUNNING" # "RUNNABLE" /\ "NONE" # "CHILD" /\ "NONE" # "SLEEP" /\ "CHILD" # "SLEEP"
    /\ "EXIT" # "STOP" /\ "EXIT" # "CONT" /\ "EXIT" # "NONE" /\ "STOP" # "CONT"
    /\ "STOP" # "NONE" /\ "CONT" # "NONE"
    /\ "none" # "wait" /\ "none" # "sleep" /\ "wait" # "sleep"
  OBVIOUS

LEMMA SoftTwice ==
    /\ \A t : Nudged(t, t) /\ Tame(t, t) /\ Soft(t, t)
    /\ \A t, u, w : Nudged(t, u) /\ Nudged(u, w) => Nudged(t, w)
    /\ \A t, u, w : Tame(t, u) /\ Tame(u, w) => Tame(t, w)
    /\ \A t, u, w : Soft(t, u) /\ Soft(u, w) => Soft(t, w)
<1>1. \A t : Nudged(t, t) /\ Tame(t, t)
  BY Zenon DEF Nudged, Tame
<1>2. ASSUME NEW t, NEW u, NEW w, Nudged(t, u), Nudged(u, w) PROVE Nudged(t, w)
  <2>1. CASE u.state = t.state
    BY <1>2, <2>1, Strings, Zenon DEF Nudged
  <2>2. CASE t.state \in {"WAITING", "RUNNING", "RUNNABLE"} /\ u.state \in {"RUNNING", "RUNNABLE"}
    BY <1>2, <2>2, Strings, Zenon DEF Nudged
  <2> QED BY <1>2, <2>1, <2>2, Zenon DEF Nudged
<1>3. ASSUME NEW t, NEW u, NEW w, Tame(t, u), Tame(u, w) PROVE Tame(t, w)
  BY <1>3, Zenon DEF Tame
<1> QED BY <1>1, <1>2, <1>3, Zenon DEF Soft

\* What a nudge leaves alone.
LEMMA NudgedIs ==
    ASSUME NEW t, NEW u, Nudged(t, u)
    PROVE  /\ InUse(u) <=> InUse(t)
           /\ Alive(u) <=> Alive(t)
           /\ EventOf(u) = EventOf(t)
           /\ Halted(t) => Halted(u)
           /\ Waits(u) => Waits(t) /\ u.wait_pid = t.wait_pid /\ u.tf.opts = t.tf.opts
<1>1. CASE u.state = t.state
  BY <1>1, Zenon DEF Nudged, InUse, Alive, EventOf, Halted, Waits
<1>2. CASE t.state \in {"WAITING", "RUNNING", "RUNNABLE"} /\ u.state \in {"RUNNING", "RUNNABLE"}
  BY <1>2, Strings, Zenon DEF Nudged, InUse, Alive, EventOf, Halted, Waits
<1> QED BY <1>1, <1>2, Zenon DEF Nudged

SameKin(T, U) ==
    \A i \in Slots : /\ U[i].pid = T[i].pid /\ U[i].ppid = T[i].ppid
                     /\ InUse(U[i]) <=> InUse(T[i])
                     /\ Alive(U[i]) <=> Alive(T[i])

LEMMA KinKeeps ==
    ASSUME NEW T, NEW U, NEW b, SameKin(T, U), Named(T, b), Family(T)
    PROVE  Named(U, b) /\ Family(U)
<1>1. Named(U, b)
  <2>1. \A i \in Slots : U[i].pid \in 0 .. b /\ U[i].ppid \in -1 .. b
    BY Zenon DEF SameKin, Named
  <2>2. \A i \in Slots : InUse(U[i]) => Distinguished(U[i])
    BY Zenon DEF SameKin, Named, Distinguished
  <2>3. \A i, j \in Slots : InUse(U[i]) /\ InUse(U[j]) /\ U[i].pid = U[j].pid => i = j
    BY Zenon DEF SameKin, Named
  <2>4. b \in Nat \ {0}
    BY DEF Named
  <2> QED BY <2>1, <2>2, <2>3, <2>4, Zenon DEF Named
<1>2. Family(U)
  BY ZenonT(40) DEF SameKin, Family
<1> QED BY <1>1, <1>2

\* Who waits in U waited in T, for none of the children V.
Watched(T, U, V) ==
    \A p \in Slots : Waits(U[p]) =>
       /\ Waits(T[p]) /\ U[p].wait_pid = T[p].wait_pid /\ U[p].tf.opts = T[p].tf.opts
       /\ \A c \in Slots : c \in V => ~Awaits(U[p], U[c])

LEMMA WaitersKeep ==
    ASSUME NEW T, NEW U, NEW V, SameKin(T, U), Watched(T, U, V), Waiters(T),
           \A i \in Slots : i \notin V => EventOf(U[i]) = EventOf(T[i])
    PROVE  Waiters(U)
<1> SUFFICES ASSUME NEW p \in Slots, Waits(U[p])
             PROVE  /\ \E c \in Slots : InUse(U[c]) /\ Awaits(U[p], U[c])
                    /\ \A c \in Slots : InUse(U[c]) /\ Awaits(U[p], U[c]) => Silent(U[p], U[c])
  BY Zenon DEF Waiters
<1>1. /\ Waits(T[p]) /\ U[p].wait_pid = T[p].wait_pid /\ U[p].tf.opts = T[p].tf.opts
      /\ \A c \in Slots : c \in V => ~Awaits(U[p], U[c])
  BY Zenon DEF Watched
<1>2. \A c \in Slots : Awaits(U[p], U[c]) <=> Awaits(T[p], T[c])
  BY <1>1, Zenon DEF SameKin, Awaits
<1>3. \E c \in Slots : InUse(U[c]) /\ Awaits(U[p], U[c])
  BY <1>1, <1>2, Zenon DEF Waiters, SameKin
<1>4. ASSUME NEW c \in Slots, InUse(U[c]), Awaits(U[p], U[c]) PROVE Silent(U[p], U[c])
  <2>1. EventOf(U[c]) = EventOf(T[c])
    BY <1>1, <1>4, Zenon
  <2>2. Silent(T[p], T[c])
    BY <1>1, <1>2, <1>4, Zenon DEF Waiters, SameKin
  <2> QED BY <1>1, <2>1, <2>2, Zenon DEF Silent
<1> QED BY <1>3, <1>4, Zenon

LEMMA NudgesOK ==
    ASSUME NEW T, NEW U, NEW b, TableOK(T, b), Tab(U), \A i \in Slots : Nudged(T[i], U[i])
    PROVE  TableOK(U, b)
<1>1. \A i \in Slots : /\ InUse(U[i]) <=> InUse(T[i])
                       /\ Alive(U[i]) <=> Alive(T[i])
                       /\ EventOf(U[i]) = EventOf(T[i])
                       /\ Halted(T[i]) => Halted(U[i])
                       /\ Waits(U[i]) => /\ Waits(T[i]) /\ U[i].wait_pid = T[i].wait_pid
                                         /\ U[i].tf.opts = T[i].tf.opts
  BY NudgedIs, Zenon
<1>2. SameKin(T, U)
  BY <1>1, Zenon DEF SameKin, Nudged
<1>3. Watched(T, U, {})
  BY <1>1, Zenon DEF Watched
<1>4. Named(U, b) /\ Family(U)
  BY <1>2, KinKeeps, Zenon DEF TableOK
<1>5. Waiters(U)
  BY <1>1, <1>2, <1>3, WaitersKeep, Zenon DEF TableOK
<1> QED BY <1>1, <1>4, <1>5, Zenon DEF TableOK

LEMMA NudgeOK ==
    ASSUME NEW T, NEW b, TableOK(T, b), NEW v \in Slots, NEW u, Local(u), Nudged(T[v], u)
    PROVE  TableOK(Put(T, v, u), b)
<1> DEFINE U == Put(T, v, u)
<1>1. IsPut(T, v, u, U)
  BY PutIs, Zenon DEF TableOK
<1> HIDE DEF U
<1>2. \A i \in Slots : Nudged(T[i], U[i])
  BY <1>1, SoftTwice, Zenon DEF IsPut
<1>3. TableOK(U, b)
  BY <1>1, <1>2, NudgesOK, Zenon DEF IsPut
<1> QED BY <1>3 DEF U

-----------------------------------------------------------------------------
\* Notification and waking.

LEMMA EnqueueSoft ==
    ASSUME NEW t, Local(t), NEW sig \in Signals, sig # SIGKILL, sig # SIGSTOP
    PROVE  LET u == task_signal_enqueue(t, sig)
           IN Local(u) /\ OnlySignals(t, u) /\ Soft(t, u) /\ (sig = SIGCONT => SIGSTOP \notin u.pending)
<1> DEFINE u == task_signal_enqueue(t, sig)
<1>1. /\ Local(u) /\ OnlySignals(t, u)
      /\ u.pending = (t.pending \ Opposite(sig)) \union {sig}
  BY EnqueueIs, Zenon
<1> HIDE DEF u
<1>2. SIGCHLD \notin Opposite(sig)
  BY SignalsDiffer DEF Opposite
<1>3. sig = SIGCONT => SIGSTOP \in Opposite(sig)
  BY DEF Opposite
<1>4. SIGSTOP \in u.pending => SIGSTOP \in t.pending
  BY <1>1, Zenon
<1>5. SIGCHLD \in t.pending => SIGCHLD \in u.pending
  BY <1>1, <1>2, Zenon
<1>6. sig = SIGCONT => SIGSTOP \notin u.pending
  BY <1>1, <1>3, Zenon
<1>7. Soft(t, u)
  BY <1>1, <1>4, <1>5, Zenon DEF OnlySignals, Soft, Nudged, Tame, Alive
<1> QED BY <1>1, <1>6, <1>7, Zenon DEF u

\* U is T after pending signals were added.
Rung(T, U) == Tab(U) /\ \A i \in Slots : OnlySignals(T[i], U[i]) /\ Soft(T[i], U[i])

LEMMA RungSame ==
    ASSUME NEW T, Tab(T)
    PROVE  Rung(T, T)
  BY SoftTwice, Zenon DEF Rung, OnlySignals

LEMMA PutRung ==
    ASSUME NEW T, Tab(T), NEW v \in Slots, NEW u, Local(u), OnlySignals(T[v], u), Soft(T[v], u)
    PROVE  Rung(T, Put(T, v, u))
<1> DEFINE U == Put(T, v, u)
<1>1. IsPut(T, v, u, U)
  BY PutIs, Zenon
<1> HIDE DEF U
<1>2. Rung(T, U)
  BY <1>1, RungSame, Zenon DEF IsPut, Rung
<1> QED BY <1>2 DEF U

LEMMA NotifyIs ==
    ASSUME NEW T, Tab(T), NEW c, NEW ev
    PROVE  Rung(T, task_notify_sigchld(T, c, ev))
<1> DEFINE p == task_parent_of(T, c)
           u == task_signal_enqueue(T[p], SIGCHLD)
           U == task_notify_sigchld(T, c, ev)
<1>1. \/ U = T
      \/ p \in Live(T) /\ U = Put(T, p, u)
  BY Zenon DEF task_notify_sigchld, Put
<1> HIDE DEF U, p
<1>2. ASSUME U = T PROVE Rung(T, U)
  BY <1>2, RungSame, Zenon
<1>3. ASSUME p \in Live(T) /\ U = Put(T, p, u) PROVE Rung(T, U)
  <2>1. p \in Slots /\ Local(T[p])
    BY <1>3, SetsAre, Zenon DEF Tab
  <2>2. Local(u) /\ OnlySignals(T[p], u) /\ Soft(T[p], u)
    BY <2>1, EnqueueSoft, SignalsDiffer, Zenon
  <2> HIDE DEF u
  <2> QED BY <1>3, <2>1, <2>2, PutRung, Zenon
<1> QED BY <1>1, <1>2, <1>3 DEF U

\* The fields of a woken task.
LEMMA WokenIs ==
    ASSUME NEW t, Local(t), t.state = "WAITING"
    PROVE  Local(Woken(t)) /\ Soft(t, Woken(t)) /\ ~Waits(Woken(t))
<1> DEFINE u == Woken(t)
<1>1. /\ u \in TaskRecord
      /\ u.state = "RUNNABLE" /\ u.wait_kind = "NONE" /\ u.pid = t.pid /\ u.ppid = t.ppid
      /\ u.stop_report = t.stop_report /\ u.cont_report = t.cont_report
      /\ u.pending = t.pending /\ u.queue = t.queue /\ u.mask = t.mask
      /\ u.saved_mask = t.saved_mask /\ u.saved_tf = t.saved_tf /\ u.active = t.active
  <2>1. t \in TaskRecord
    BY Zenon DEF Local
  <2> DEFINE x == [t EXCEPT !.state = "RUNNABLE", !.wait_pid = -1]
  <2>2. x \in TaskRecord
    <3>1. "RUNNABLE" \in States /\ -1 \in Int
      BY DEF States
    <3> QED BY <2>1, <3>1, Zenon DEF TaskRecord
  <2>3. u = [x EXCEPT !.wait_kind = "NONE", !.wake = 0]
    BY Zenon DEF Woken
  <2>4. u \in TaskRecord
    <3> HIDE DEF x, u
    <3> QED BY <2>2, <2>3, Zenon DEF TaskRecord
  <2> QED BY <2>1, <2>4 DEF TaskRecord, Woken
<1> HIDE DEF u
<1>2. SignalsOK(u)
  BY <1>1, Zenon DEF Local, SignalsOK
<1>3. CallOK(u)
  BY <1>1, Strings, Zenon DEF CallOK
<1>4. Soft(t, u)
  BY <1>1, Strings, Zenon DEF Soft, Nudged, Tame, Alive
<1>5. ~Waits(u)
  BY <1>1, Strings, Zenon DEF Waits
<1> QED BY <1>1, <1>2, <1>3, <1>4, <1>5, Zenon DEF Local, u

\* U is T after the waiters of the children cs were woken.
IsWoken(T, cs, U) ==
    /\ Tab(U) /\ \A i \in Slots : Soft(T[i], U[i])
    /\ \A p \in Slots : Waits(U[p]) =>
          U[p] = T[p] /\ \A c \in Slots : c \in cs => ~Awaits(U[p], U[c])

LEMMA WakeIs ==
    ASSUME NEW T, Tab(T), NEW cs
    PROVE  IsWoken(T, cs, WakeWaitersOf(T, cs))
<1> DEFINE Due(i) == /\ T[i].state = "WAITING" /\ T[i].wait_kind = "CHILD"
                     /\ \E c \in cs : task_wait_matches_filter(T, i, c, T[i].wait_pid)
           U == WakeWaitersOf(T, cs)
<1>1. U = [i \in Slots |-> IF Due(i) THEN Woken(T[i]) ELSE T[i]]
  BY Zenon DEF WakeWaitersOf
<1>2. \A i \in Slots : U[i] = IF Due(i) THEN Woken(T[i]) ELSE T[i]
  BY <1>1, Zenon
<1>3. ASSUME NEW i \in Slots
      PROVE  Local(U[i]) /\ Soft(T[i], U[i]) /\ (Due(i) => ~Waits(U[i])) /\ (~Due(i) => U[i] = T[i])
  <2>1. Local(T[i])
    BY Zenon DEF Tab
  <2>2. CASE Due(i)
    BY <1>2, <2>1, <2>2, WokenIs, Zenon
  <2>3. CASE ~Due(i)
    BY <1>2, <2>1, <2>3, SoftTwice, Zenon
  <2> QED BY <2>2, <2>3, Zenon
<1>4. Tab(U)
  <2>1. \A i \in Slots : U[i] \in TaskRecord
    BY <1>3, Zenon DEF Local
  <2>2. U \in [Slots -> TaskRecord]
    BY <1>1, <1>2, <2>1, Zenon
  <2> QED BY <1>3, <2>2, Zenon DEF Tab
<1> HIDE DEF U
<1>5. ASSUME NEW p \in Slots, Waits(U[p])
      PROVE  U[p] = T[p] /\ \A c \in Slots : c \in cs => ~Awaits(U[p], U[c])
  <2>1. ~Due(p) /\ U[p] = T[p]
    BY <1>3, <1>5, Zenon
  <2>2. \A c \in cs : ~Awaits(T[p], T[c])
    BY <1>5, <2>1, MatchIs, Zenon DEF Waits
  <2>3. \A c \in Slots : U[c].pid = T[c].pid /\ U[c].ppid = T[c].ppid
    BY <1>3, Zenon DEF Soft, Nudged
  <2> QED BY <2>1, <2>2, <2>3, Zenon DEF Awaits
<1>6. IsWoken(T, cs, U)
  BY <1>3, <1>4, <1>5, Zenon DEF IsWoken
<1> QED BY <1>6 DEF U

LEMMA SignalWakeIs ==
    ASSUME NEW t, Local(t), NEW r \in BOOLEAN
    PROVE  Local(task_signal_wake_waiter(t, r)) /\ Soft(t, task_signal_wake_waiter(t, r))
<1> DEFINE w == Woken(t)
           f == IF r /\ t.wait_kind # "SLEEP" THEN t.tf ELSE NoCall
           u == [w EXCEPT !.tf = f]
<1>1. task_signal_wake_waiter(t, r) = IF t.state # "WAITING" THEN t ELSE u
  BY Zenon DEF task_signal_wake_waiter
<1>2. CASE t.state # "WAITING"
  BY <1>1, <1>2, SoftTwice, Zenon
<1>3. CASE t.state = "WAITING"
  <2>1. Local(w) /\ Soft(t, w) /\ w.state = "RUNNABLE"
    <3>1. w.state = "RUNNABLE"
      BY DEF Local, TaskRecord, Woken
    <3> QED BY <1>3, <3>1, WokenIs, Zenon
  <2>2. f \in Call
    BY DEF Call, NoCall, Local, TaskRecord
  <2> HIDE DEF f, w
  <2>3. /\ u \in TaskRecord
        /\ u.state = w.state /\ u.wait_kind = w.wait_kind /\ u.wait_pid = w.wait_pid
        /\ u.pid = w.pid /\ u.ppid = w.ppid
        /\ u.stop_report = w.stop_report /\ u.cont_report = w.cont_report
        /\ u.pending = w.pending /\ u.queue = w.queue /\ u.mask = w.mask
        /\ u.saved_mask = w.saved_mask /\ u.saved_tf = w.saved_tf /\ u.active = w.active
    BY <2>1, <2>2, Zenon DEF Local, TaskRecord
  <2> HIDE DEF u
  <2>4. SignalsOK(u) /\ CallOK(u)
    BY <2>1, <2>3, Strings, Zenon DEF Local, SignalsOK, CallOK
  <2>5. Soft(w, u)
    BY <2>1, <2>3, Strings, Zenon DEF Soft, Nudged, Tame, Alive
  <2>6. Local(u) /\ Soft(t, u)
    BY <2>1, <2>3, <2>4, <2>5, SoftTwice, Zenon DEF Local
  <2> QED BY <1>1, <1>3, <2>6, Zenon DEF u, f, w
<1> QED BY <1>2, <1>3

-----------------------------------------------------------------------------
\* The pid look-ups.

LEMMA ByPidIs ==
    ASSUME NEW T, NEW b, Named(T, b), NEW pid
    PROVE  LET i == task_by_pid(T, pid)
           IN /\ i = 0 \/ (i \in Slots /\ InUse(T[i]) /\ T[i].pid = pid)
              /\ \A j \in Slots : InUse(T[j]) /\ T[j].pid = pid => i = j
<1> DEFINE i == task_by_pid(T, pid)
<1>1. CASE \E j \in Used(T) : T[j].pid = pid
  <2>1. i \in Used(T) /\ T[i].pid = pid
    BY <1>1, Zenon DEF task_by_pid
  <2> HIDE DEF i
  <2>2. i \in Slots /\ InUse(T[i]) /\ T[i].pid = pid
    BY <2>1, SetsAre, Zenon
  <2>3. \A j \in Slots : InUse(T[j]) /\ T[j].pid = pid => i = j
    BY <2>2, Zenon DEF Named
  <2> QED BY <2>2, <2>3 DEF i
<1>2. CASE ~ \E j \in Used(T) : T[j].pid = pid
  BY <1>2, SetsAre, Zenon DEF task_by_pid
<1> QED BY <1>1, <1>2

LEMMA ParentIs ==
    ASSUME NEW T, NEW b, Named(T, b), Family(T), NEW c \in Slots, InUse(T[c])
    PROVE  LET p == task_parent_of(T, c)
           IN /\ T[c].ppid > 0 => p \in Slots /\ Alive(T[p]) /\ T[p].pid = T[c].ppid
              /\ T[c].ppid <= 0 => p = 0
<1> DEFINE p == task_parent_of(T, c)
<1>1. CASE T[c].ppid > 0
  <2>1. T[c].ppid \in Int
    BY DEF Named
  <2>2. p = task_by_pid(T, T[c].ppid)
    BY <1>1, <2>1 DEF task_parent_of
  <2>3. PICK q \in Slots : Alive(T[q]) /\ T[q].pid = T[c].ppid
    BY <1>1, Zenon DEF Family
  <2>4. p = q
    <3>1. \A j \in Slots : InUse(T[j]) /\ T[j].pid = T[c].ppid => task_by_pid(T, T[c].ppid) = j
      BY ByPidIs, Zenon
    <3>2. InUse(T[q])
      BY <2>3, Zenon DEF Alive, InUse
    <3> QED BY <2>2, <2>3, <3>1, <3>2, Zenon
  <2>5. ~(T[c].ppid <= 0)
    BY <1>1, <2>1
  <2> QED BY <1>1, <2>3, <2>4, <2>5, Zenon
<1>2. CASE ~(T[c].ppid > 0)
  BY <1>2, Zenon DEF task_parent_of
<1> QED BY <1>1, <1>2

LEMMA NoSlotZero == 0 \notin Slots
  BY DEF Slots

LEMMA InitIs ==
    ASSUME NEW T, NEW b, Named(T, b)
    PROVE  LET i == task_find_live_init(T)
           IN /\ i = 0 \/ (i \in Slots /\ Alive(T[i]) /\ T[i].pid = InitPid)
              /\ \A j \in Slots : Alive(T[j]) /\ T[j].pid = InitPid => i = j
<1> DEFINE k == task_by_pid(T, InitPid)
           i == task_find_live_init(T)
<1>1. i = IF k \in Live(T) THEN k ELSE 0
  BY Zenon DEF task_find_live_init
<1>2. /\ k = 0 \/ (k \in Slots /\ InUse(T[k]) /\ T[k].pid = InitPid)
      /\ \A j \in Slots : InUse(T[j]) /\ T[j].pid = InitPid => k = j
  BY ByPidIs, Zenon
<1> HIDE DEF k, i
<1>3. k \in Live(T) <=> k \in Slots /\ Alive(T[k])
  BY SetsAre, Zenon
<1>4. /\ i = 0 \/ (i \in Slots /\ Alive(T[i]) /\ T[i].pid = InitPid)
      /\ \A j \in Slots : Alive(T[j]) /\ T[j].pid = InitPid => i = j
  <2>1. CASE k \in Live(T)
    BY <1>1, <1>2, <1>3, <2>1, NoSlotZero, Zenon DEF Alive, InUse
  <2>2. CASE k \notin Live(T)
    BY <1>1, <1>2, <1>3, <2>2, Zenon DEF Alive, InUse
  <2> QED BY <2>1, <2>2
<1> QED BY <1>4 DEF i

-----------------------------------------------------------------------------
\* Stop, continue and reap.

\* What holds in the middle of a stop of slot v: TableOK but for a SIGSTOP that
\* is pending in v.
Midway(T, b, v) ==
    /\ Tab(T) /\ Named(T, b) /\ Family(T) /\ Waiters(T)
    /\ \A i \in Slots : i # v => Halted(T[i])

Tamed(T, U) == \A i \in Slots : Tame(T[i], U[i])

LEMMA TamedTwice ==
    /\ \A T : Tamed(T, T)
    /\ \A T, U, W : Tamed(T, U) /\ Tamed(U, W) => Tamed(T, W)
  BY SoftTwice, Zenon DEF Tamed

\* Slot v gets state x, with an event of which its parent hears.
LEMMA EventOK ==
    ASSUME NEW T, NEW b, NEW v \in Slots, Midway(T, b, v), Alive(T[v]),
           NEW x, Local(x), x.pid = T[v].pid, x.ppid = T[v].ppid, Alive(x),
           x.state # "WAITING", Halted(x), Tame(T[v], x), NEW ev
    PROVE  LET U == task_wake_waiters(task_notify_sigchld(Put(T, v, x), v, ev), v)
           IN TableOK(U, b) /\ Tamed(T, U) /\ Soft(x, U[v])
<1> DEFINE S == Put(T, v, x)
           N == task_notify_sigchld(S, v, ev)
           U == WakeWaitersOf(N, {v})
<1>1. IsPut(T, v, x, S)
  BY PutIs, Zenon DEF Midway
<1>2. Rung(S, N)
  BY <1>1, NotifyIs, Zenon DEF IsPut
<1>3. IsWoken(N, {v}, U)
  BY <1>2, WakeIs, Zenon DEF Rung
<1>4. task_wake_waiters(N, v) = U
  BY Zenon DEF task_wake_waiters
<1> HIDE DEF S, N, U
<1>5. \A i \in Slots : Soft(S[i], U[i])
  BY <1>2, <1>3, SoftTwice, Zenon DEF Rung, IsWoken
<1>6. \A i \in Slots : i # v => Soft(T[i], U[i])
  BY <1>1, <1>5, Zenon DEF IsPut
<1>7. Soft(x, U[v])
  BY <1>1, <1>5, Zenon DEF IsPut
<1>8. Tamed(T, U)
  BY <1>6, <1>7, SoftTwice, Zenon DEF Tamed, Soft
<1>9. SameKin(T, U)
  <2>1. ASSUME NEW i \in Slots, i # v
        PROVE  /\ U[i].pid = T[i].pid /\ U[i].ppid = T[i].ppid
               /\ InUse(U[i]) <=> InUse(T[i])
               /\ Alive(U[i]) <=> Alive(T[i])
    BY <1>6, <2>1, NudgedIs, Zenon DEF Soft, Nudged
  <2>2. /\ U[v].pid = T[v].pid /\ U[v].ppid = T[v].ppid
        /\ InUse(U[v]) /\ InUse(T[v]) /\ Alive(U[v]) /\ Alive(T[v])
    BY <1>7, NudgedIs, Zenon DEF Soft, Nudged, Alive, InUse
  <2> QED BY <2>1, <2>2, Zenon DEF SameKin
<1>10. Named(U, b) /\ Family(U)
  BY <1>9, KinKeeps, Zenon DEF Midway
<1>11. \A i \in Slots : Halted(U[i])
  BY <1>6, <1>7, NudgedIs, Zenon DEF Midway, Soft
<1>12. Watched(T, U, {v})
  <2> SUFFICES ASSUME NEW p \in Slots, Waits(U[p])
               PROVE  /\ Waits(T[p]) /\ U[p].wait_pid = T[p].wait_pid
                      /\ U[p].tf.opts = T[p].tf.opts
                      /\ \A c \in Slots : c \in {v} => ~Awaits(U[p], U[c])
    BY Zenon DEF Watched
  <2>1. p # v
    BY <1>7, NudgedIs, Zenon DEF Soft, Waits
  <2>2. Waits(T[p]) /\ U[p].wait_pid = T[p].wait_pid /\ U[p].tf.opts = T[p].tf.opts
    BY <1>6, <2>1, NudgedIs, Zenon DEF Soft
  <2> QED BY <1>3, <2>2, Zenon DEF IsWoken
<1>13. \A i \in Slots : i \notin {v} => EventOf(U[i]) = EventOf(T[i])
  BY <1>6, NudgedIs, Zenon DEF Soft
<1>14. Waiters(U)
  BY <1>9, <1>12, <1>13, WaitersKeep, Zenon DEF Midway
<1>15. TableOK(U, b)
  BY <1>3, <1>10, <1>11, <1>14, Zenon DEF TableOK, IsWoken
<1> QED BY <1>4, <1>7, <1>8, <1>15, Zenon DEF N, S

LEMMA StatesAre ==
    /\ "UNUSED" \in States /\ "RUNNABLE" \in States /\ "RUNNING" \in States
    /\ "WAITING" \in States /\ "STOPPED" \in States /\ "ZOMBIE" \in States
    /\ -1 \in Int /\ 0 \in Nat /\ 0 \in Int
  BY DEF States

\* The record of a task that stops.
Stopped(t) == [t EXCEPT !.state = "STOPPED", !.wait_pid = -1, !.wait_kind = "NONE",
                        !.wake = 0, !.cont_report = FALSE, !.stop_report = TRUE]

LEMMA StoppedIs ==
    ASSUME NEW t, Local(t), Alive(t)
    PROVE  LET u == Stopped(t)
           IN /\ Local(u) /\ u.pid = t.pid /\ u.ppid = t.ppid /\ u.state = "STOPPED"
              /\ Tame(t, u)
<1> DEFINE x == [t EXCEPT !.state = "STOPPED", !.wait_pid = -1]
           y == [x EXCEPT !.wait_kind = "NONE", !.wake = 0]
           u == [y EXCEPT !.cont_report = FALSE, !.stop_report = TRUE]
<1>1. u = Stopped(t)
  BY Zenon DEF Stopped
<1>2. x \in TaskRecord
  BY StatesAre, Zenon DEF Local, TaskRecord
<1>3. y \in TaskRecord
  <2> HIDE DEF x
  <2> QED BY <1>2, StatesAre, Zenon DEF TaskRecord
<1>4. u \in TaskRecord
  <2> HIDE DEF y
  <2> QED BY <1>3, Zenon DEF TaskRecord
<1>5. /\ u.state = "STOPPED" /\ u.wait_kind = "NONE" /\ u.pid = t.pid /\ u.ppid = t.ppid
      /\ u.pending = t.pending /\ u.queue = t.queue /\ u.mask = t.mask
      /\ u.saved_mask = t.saved_mask /\ u.saved_tf = t.saved_tf /\ u.active = t.active
  BY DEF Local, TaskRecord
<1> HIDE DEF u
<1>6. SignalsOK(u) /\ CallOK(u)
  BY <1>5, Strings, Zenon DEF Local, SignalsOK, CallOK
<1>7. Tame(t, u)
  BY <1>5, Strings, Zenon DEF Tame
<1> QED BY <1>1, <1>4, <1>5, <1>6, <1>7, Zenon DEF Local

LEMMA StopOK ==
    ASSUME NEW T, NEW b, NEW v \in Slots, Midway(T, b, v), Alive(T[v])
    PROVE  LET U == StopTask(T, v)
           IN TableOK(U, b) /\ Tamed(T, U) /\ U[v].state = "STOPPED"
<1> DEFINE x == Stopped(T[v])
           W == task_wake_waiters(task_notify_sigchld(Put(T, v, x), v, "STOP"), v)
<1>1. StopTask(T, v) = IF T[v].state = "STOPPED" THEN T ELSE W
  BY Zenon DEF StopTask, Put, Stopped
<1>2. CASE T[v].state = "STOPPED"
  <2>1. TableOK(T, b)
    BY <1>2, Zenon DEF Midway, TableOK, Halted
  <2>2. StopTask(T, v) = T
    BY <1>1, <1>2, Zenon
  <2> QED BY <1>2, <2>1, <2>2, TamedTwice, Zenon
<1>3. CASE T[v].state # "STOPPED"
  <2>1. /\ Local(x) /\ x.pid = T[v].pid /\ x.ppid = T[v].ppid /\ x.state = "STOPPED"
        /\ Tame(T[v], x)
    BY StoppedIs, Zenon DEF Midway, Tab
  <2> HIDE DEF x
  <2>2. Alive(x) /\ x.state # "WAITING" /\ Halted(x)
    BY <2>1, Strings, Zenon DEF Alive, Halted
  <2>3. TableOK(W, b) /\ Tamed(T, W) /\ Soft(x, W[v])
    BY <2>1, <2>2, EventOK, Zenon
  <2>4. W[v].state = "STOPPED"
    BY <2>1, <2>3, Strings, Zenon DEF Soft, Nudged
  <2> QED BY <1>1, <1>3, <2>3, <2>4, Zenon
<1> QED BY <1>2, <1>3

LEMMA ContOK ==
    ASSUME NEW T, NEW b, NEW v \in Slots, TableOK(T, b), SIGSTOP \notin T[v].pending
    PROVE  LET U == ContTask(T, v)
           IN /\ TableOK(U, b) /\ Tamed(T, U)
              /\ (T[v].state = "RUNNABLE" => U = T) /\ U[v].state # "STOPPED"
<1> DEFINE x == [T[v] EXCEPT !.state = "RUNNABLE", !.cont_report = TRUE, !.stop_report = FALSE]
           W == task_wake_waiters(task_notify_sigchld(Put(T, v, x), v, "CONT"), v)
<1>1. ContTask(T, v) = IF T[v].state # "STOPPED" THEN T ELSE W
  BY Zenon DEF ContTask, Put
<1>2. CASE T[v].state # "STOPPED"
  BY <1>1, <1>2, TamedTwice, Zenon
<1>3. CASE T[v].state = "STOPPED"
  <2>1. Local(T[v])
    BY Zenon DEF TableOK, Tab
  <2>2. x \in TaskRecord
    BY <2>1, StatesAre, Zenon DEF Local, TaskRecord
  <2>3. /\ x.state = "RUNNABLE" /\ x.wait_kind = T[v].wait_kind
        /\ x.pid = T[v].pid /\ x.ppid = T[v].ppid
        /\ x.pending = T[v].pending /\ x.queue = T[v].queue /\ x.mask = T[v].mask
        /\ x.saved_mask = T[v].saved_mask /\ x.saved_tf = T[v].saved_tf
        /\ x.active = T[v].active
    BY <2>1 DEF Local, TaskRecord
  <2> HIDE DEF x
  <2>4. SignalsOK(x) /\ CallOK(x)
    BY <1>3, <2>1, <2>3, Strings, Zenon DEF Local, SignalsOK, CallOK
  <2>5. Tame(T[v], x) /\ Alive(x) /\ Alive(T[v]) /\ x.state # "WAITING" /\ Halted(x)
    BY <1>3, <2>3, Strings, Zenon DEF Tame, Alive, Halted
  <2>6. Midway(T, b, v) /\ Local(x)
    BY <2>2, <2>4, Zenon DEF Midway, TableOK, Local
  <2>7. TableOK(W, b) /\ Tamed(T, W) /\ Soft(x, W[v])
    BY <2>3, <2>5, <2>6, EventOK, Zenon
  <2>8. W[v].state # "STOPPED"
    BY <2>3, <2>7, Strings, Zenon DEF Soft, Nudged
  <2> QED BY <1>1, <1>3, <2>7, <2>8, Strings, Zenon
<1> QED BY <1>2, <1>3

LEMMA UnusedIs ==
    /\ Local(Unused) /\ ~InUse(Unused) /\ ~Alive(Unused) /\ ~Waits(Unused)
    /\ Unused.state = "UNUSED" /\ Unused.pid = 0 /\ Unused.ppid = 0 /\ Unused.pending = {}
    /\ ~Unused.active
    /\ Halted(Unused)
<1>1. Unused \in TaskRecord
  <2>1. << >> \in Seq(Signals)
    OBVIOUS
  <2>2. [s \in Signals |-> DefaultAction] \in [Signals -> Action]
    <3>1. DefaultAction \in Action
      BY DEF DefaultAction, Action, Handlers
    <3> QED BY <3>1
  <2>3. NoCall \in Call
    BY DEF NoCall, Call
  <2> QED BY <2>1, <2>2, <2>3, StatesAre DEF Unused, TaskRecord
<1>2. SignalsOK(Unused)
  BY EmptyQueue DEF SignalsOK, Unused
<1>3. CallOK(Unused)
  BY DEF CallOK, Unused
<1>4. /\ Unused.state = "UNUSED" /\ Unused.pid = 0 /\ Unused.ppid = 0 /\ Unused.pending = {}
      /\ ~Unused.active
  BY DEF Unused
<1> QED BY <1>1, <1>2, <1>3, <1>4, Strings, Zenon DEF Local, InUse, Alive, Waits, Halted

\* U is T with some zombies reaped.
IsReap(T, U) ==
    /\ U \in [Slots -> TaskRecord]
    /\ \A i \in Slots : U[i] = T[i] \/ (T[i].state = "ZOMBIE" /\ U[i] = Unused)

LEMMA ReapOK ==
    ASSUME NEW T, NEW b, NEW U, TableOK(T, b), IsReap(T, U)
    PROVE  TableOK(U, b) /\ Tamed(T, U)
<1>1. Tab(U)
  BY UnusedIs, Zenon DEF TableOK, Tab, IsReap
<1>2. \A i \in Slots : Halted(U[i])
  BY UnusedIs, Zenon DEF TableOK, IsReap
<1>3. \A i \in Slots : InUse(U[i]) => U[i] = T[i]
  BY UnusedIs, Zenon DEF IsReap
<1>4. \A i \in Slots : Alive(T[i]) => U[i] = T[i]
  BY Zenon DEF IsReap, Alive
<1>5. \A i \in Slots : Alive(U[i]) \/ Waits(U[i]) => U[i] = T[i]
  BY UnusedIs, Zenon DEF IsReap
<1>6. Named(U, b)
  <2>1. b \in Nat \ {0}
    BY Zenon DEF TableOK, Named
  <2>2. 0 \in 0 .. b /\ 0 \in -1 .. b
    BY <2>1
  <2>3. \A i \in Slots : U[i].pid \in 0 .. b /\ U[i].ppid \in -1 .. b
    BY <2>2, UnusedIs, Zenon DEF TableOK, Named, IsReap
  <2>4. \A i \in Slots : InUse(U[i]) => Distinguished(U[i])
    BY <1>3, Zenon DEF TableOK, Named
  <2>5. \A i, j \in Slots : InUse(U[i]) /\ InUse(U[j]) /\ U[i].pid = U[j].pid => i = j
    BY <1>3, Zenon DEF TableOK, Named
  <2> QED BY <2>1, <2>3, <2>4, <2>5, Zenon DEF Named
<1>7. Family(U)
  BY <1>3, <1>4, Zenon DEF TableOK, Family
<1>8. Waiters(U)
  <2> SUFFICES ASSUME NEW p \in Slots, Waits(U[p])
               PROVE  /\ \E c \in Slots : InUse(U[c]) /\ Awaits(U[p], U[c])
                      /\ \A c \in Slots : InUse(U[c]) /\ Awaits(U[p], U[c]) =>
                            Silent(U[p], U[c])
    BY Zenon DEF Waiters
  <2>1. U[p] = T[p]
    BY <1>5, Zenon
  <2>2. PICK c \in Slots : InUse(T[c]) /\ Awaits(T[p], T[c]) /\ Silent(T[p], T[c])
    BY <2>1, Zenon DEF TableOK, Waiters
  <2>3. T[c].state # "ZOMBIE"
    BY <2>2, Zenon DEF Silent, EventOf
  <2>4. U[c] = T[c]
    BY <2>3, Zenon DEF IsReap
  <2>5. \A d \in Slots : InUse(U[d]) /\ Awaits(U[p], U[d]) => Silent(U[p], U[d])
    BY <1>3, <2>1, Zenon DEF TableOK, Waiters
  <2> QED BY <2>1, <2>2, <2>4, <2>5, Zenon
<1>9. Tamed(T, U)
  <2>1. \A i \in Slots : Tame(T[i], T[i])
    BY SoftTwice, Zenon
  <2>2. \A t : Tame(t, Unused)
    BY UnusedIs, Strings, Zenon DEF Tame
  <2> QED BY <2>1, <2>2, Zenon DEF Tamed, IsReap
<1> QED BY <1>1, <1>2, <1>6, <1>7, <1>8, <1>9, Zenon DEF TableOK

-----------------------------------------------------------------------------
\* The exit of a task.

\* u is t, perhaps woken or signalled, with parent m.
Kept(t, u, m) ==
    /\ u.pid = t.pid /\ u.ppid = m
    /\ InUse(u) <=> InUse(t)
    /\ Alive(u) <=> Alive(t)
    /\ EventOf(u) = EventOf(t)
    /\ Halted(t) => Halted(u)
    /\ Waits(u) => Waits(t) /\ u.wait_pid = t.wait_pid /\ u.tf.opts = t.tf.opts
    /\ Tame(t, u)

LEMMA SoftKept ==
    ASSUME NEW t, NEW u, Soft(t, u)
    PROVE  Kept(t, u, t.ppid)
  BY NudgedIs, Zenon DEF Soft, Kept, Nudged

LEMMA KeptTwice ==
    ASSUME NEW t, NEW u, NEW w, NEW m, NEW n, Kept(t, u, m), Kept(u, w, n)
    PROVE  Kept(t, w, n)
<1>1. Tame(t, w)
  BY SoftTwice, Zenon DEF Kept
<1> QED BY <1>1, Zenon DEF Kept

Adopted(t, m) == [t EXCEPT !.ppid = m]

LEMMA AdoptedIs ==
    ASSUME NEW t, Local(t), NEW m \in Int
    PROVE  Local(Adopted(t, m)) /\ Kept(t, Adopted(t, m), m)
<1> DEFINE u == Adopted(t, m)
<1>1. /\ u \in TaskRecord /\ u.ppid = m
      /\ u.state = t.state /\ u.pid = t.pid
      /\ u.wait_kind = t.wait_kind /\ u.wait_pid = t.wait_pid /\ u.tf = t.tf
      /\ u.stop_report = t.stop_report /\ u.cont_report = t.cont_report
      /\ u.pending = t.pending /\ u.queue = t.queue /\ u.mask = t.mask
      /\ u.saved_mask = t.saved_mask /\ u.saved_tf = t.saved_tf /\ u.active = t.active
  BY DEF Local, TaskRecord, Adopted
<1> HIDE DEF u
<1>2. SignalsOK(u) /\ CallOK(u)
  BY <1>1, Zenon DEF Local, SignalsOK, CallOK
<1>3. Tame(t, u) /\ EventOf(u) = EventOf(t)
  BY <1>1, Zenon DEF Tame, Alive, EventOf
<1>4. Kept(t, u, m)
  BY <1>1, <1>3, Zenon DEF Kept, InUse, Alive, Halted, Waits
<1> QED BY <1>1, <1>2, <1>4, Zenon DEF Local, u

Kid(t, old) == InUse(t) /\ t.ppid = old

Gone(t, u) == t.state = "ZOMBIE" /\ u.state = "UNUSED" /\ u.pid = 0 /\ u.ppid = 0
              /\ Halted(u) /\ Tame(t, u)

LEMMA UnusedGone ==
    ASSUME NEW t, t.state = "ZOMBIE"
    PROVE  Gone(t, Unused)
  BY UnusedIs, Strings, Zenon DEF Gone, Tame

\* R is N after the children of pid old got the parent m: each was reaped or kept,
\* and no waiter is left for one of them that has an event.
Adopts(N, old, m, R) ==
    /\ Tab(R)
    /\ \A i \in Slots : \/ Kid(N[i], old) /\ Gone(N[i], R[i])
                        \/ Kid(N[i], old) /\ Kept(N[i], R[i], m)
                        \/ ~Kid(N[i], old) /\ Kept(N[i], R[i], N[i].ppid)
    /\ \A p, c \in Slots :
          Waits(R[p]) /\ InUse(R[c]) /\ Kid(N[c], old) /\ Awaits(R[p], R[c]) =>
             EventOf(R[c]) = "NONE"

\* The first pass of the loop.
Adoption(N, kids, m) == [i \in Slots |-> IF i \in kids THEN [N[i] EXCEPT !.ppid = m] ELSE N[i]]

LEMMA AdoptionIs ==
    ASSUME NEW N, Tab(N), NEW kids, NEW m \in Int
    PROVE  LET A == Adoption(N, kids, m)
           IN /\ Tab(A)
              /\ \A i \in Slots : i \in kids => Kept(N[i], A[i], m)
              /\ \A i \in Slots : i \notin kids => A[i] = N[i] /\ Kept(N[i], A[i], N[i].ppid)
<1> DEFINE A == Adoption(N, kids, m)
<1>1. /\ \A i \in Slots : A[i] = IF i \in kids THEN Adopted(N[i], m) ELSE N[i]
      /\ A = [i \in Slots |-> A[i]]
  BY Zenon DEF Adoption, Adopted
<1> HIDE DEF A
<1>2. \A i \in Slots : i \in kids => Local(A[i]) /\ Kept(N[i], A[i], m)
  BY <1>1, AdoptedIs, Zenon DEF Tab
<1>3. \A i \in Slots : i \notin kids => A[i] = N[i] /\ Local(A[i]) /\ Kept(N[i], A[i], N[i].ppid)
  BY <1>1, SoftTwice, SoftKept, Zenon DEF Tab
<1>4. \A i \in Slots : Local(A[i]) /\ A[i] \in TaskRecord
  BY <1>2, <1>3, Zenon DEF Local
<1>5. A \in [Slots -> TaskRecord]
  BY <1>1, <1>4, Zenon
<1> QED BY <1>2, <1>3, <1>4, <1>5, Zenon DEF Tab, A

LEMMA ReparentIs ==
    ASSUME NEW N, NEW b, Tab(N), Named(N, b), NEW old, old >= 1, old \in Int
    PROVE  \E m \in {-1, InitPid} :
              /\ m = InitPid => \E k \in Slots : Alive(N[k]) /\ N[k].pid = InitPid
              /\ Adopts(N, old, m, task_reparent_children(N, old))
<1> DEFINE init == task_find_live_init(N)
           kids == {i \in Used(N) : N[i].ppid = old}
           m == IF init = 0 THEN -1 ELSE InitPid
           A == Adoption(N, kids, m)
           reaped == {i \in kids : N[i].state = "ZOMBIE" /\ task_sigchld_auto_reap(N, init)}
           told == Reported(N, kids \ reaped)
           signalled == \E c \in told : \/ Event(N, c) = "EXIT"
                                        \/ "SA_NOCLDSTOP" \notin N[init].act[SIGCHLD].flags
           rung == task_signal_enqueue(N[init], SIGCHLD)
           B == IF signalled THEN Put(A, init, rung) ELSE A
           W == WakeWaitersOf(B, told)
           R == task_reparent_children(N, old)
<1>1. R = IF init = 0 THEN A ELSE [i \in Slots |-> IF i \in reaped THEN Unused ELSE W[i]]
  BY Zenon DEF task_reparent_children, Adoption, Put
<1>2. /\ init = 0 \/ (init \in Slots /\ Alive(N[init]) /\ N[init].pid = InitPid)
      /\ m \in Int /\ m \in {-1, InitPid}
  <2>1. init = 0 \/ (init \in Slots /\ Alive(N[init]) /\ N[init].pid = InitPid)
    BY InitIs, Zenon
  <2> HIDE DEF init
  <2> QED BY <2>1 DEF InitPid
<1>3. \A i : i \in kids <=> i \in Slots /\ Kid(N[i], old)
  BY SetsAre, Zenon DEF Kid
<1> HIDE DEF kids
<1>4. /\ Tab(A)
      /\ \A i \in Slots : i \in kids => Kept(N[i], A[i], m)
      /\ \A i \in Slots : i \notin kids => A[i] = N[i] /\ Kept(N[i], A[i], N[i].ppid)
  BY <1>2, AdoptionIs, ZenonT(40)
<1> HIDE DEF A, R
<1>5. CASE init = 0
  <2>1. R = A /\ m = -1
    BY <1>1, <1>5, Zenon
  <2>2. ASSUME NEW p \in Slots, NEW c \in Slots, Kid(N[c], old)
        PROVE  ~Awaits(R[p], R[c])
    <3>1. R[c].ppid = -1
      BY <1>3, <1>4, <2>1, <2>2, Zenon DEF Kept
    <3>2. R[p].pid \in Nat
      BY <1>4, <2>1 DEF Tab, TaskRecord
    <3> QED BY <3>1, <3>2 DEF Awaits
  <2>3. Adopts(N, old, m, R)
    BY <1>3, <1>4, <2>1, <2>2, Zenon DEF Adopts
  <2>4. m # InitPid
    BY <2>1 DEF InitPid
  <2> QED BY <1>2, <2>3, <2>4, Zenon DEF R
<1>6. CASE init # 0
  <2>1. init \in Slots /\ Alive(N[init]) /\ N[init].pid = InitPid /\ m = InitPid
    BY <1>2, <1>6, Zenon
  <2>2. init \notin kids
    <3>1. N[init].ppid <= 0
      BY <2>1, Zenon DEF Named, Distinguished, Alive, InUse
    <3>2. N[init].ppid # old
      BY <3>1
    <3> QED BY <1>3, <3>2, Zenon DEF Kid
  <2>3. A[init] = N[init] /\ Local(N[init])
    BY <1>4, <2>1, <2>2, Zenon DEF Tab
  <2>4. Local(rung) /\ OnlySignals(A[init], rung) /\ Soft(A[init], rung)
    BY <2>3, EnqueueSoft, SignalsDiffer, Zenon
  <2> HIDE DEF rung, init, m
  <2>5. Rung(A, B)
    <3>1. Rung(A, Put(A, init, rung)) /\ Rung(A, A)
      BY <1>4, <2>1, <2>4, PutRung, RungSame, Zenon
    <3> QED BY <3>1, Zenon
  <2> HIDE DEF B
  <2>6. IsWoken(B, told, W)
    BY <2>5, WakeIs, Zenon DEF Rung
  <2>7. R = [i \in Slots |-> IF i \in reaped THEN Unused ELSE W[i]]
    BY <1>1, <1>6, Zenon
  <2>8. \A i \in Slots : R[i] = IF i \in reaped THEN Unused ELSE W[i]
    BY <2>7, Zenon
  <2>9. \A i : i \in reaped => i \in kids /\ N[i].state = "ZOMBIE"
    OBVIOUS
  <2>10. \A i : i \in told <=> i \in kids /\ i \notin reaped /\ EventOf(N[i]) # "NONE"
    BY SetsAre, Zenon DEF Reported
  <2> HIDE DEF W, reaped, told
  <2>11. \A i \in Slots : Soft(A[i], W[i])
    BY <2>5, <2>6, SoftTwice, Zenon DEF Rung, IsWoken
  <2>12. \A i \in Slots : Kept(A[i], W[i], A[i].ppid)
    BY <2>11, SoftKept, Zenon
  <2>13. \A i \in Slots : i \in kids => Kept(N[i], W[i], m)
    <3> SUFFICES ASSUME NEW i \in Slots, i \in kids PROVE Kept(N[i], W[i], m)
      OBVIOUS
    <3>1. Kept(N[i], A[i], m) /\ A[i].ppid = m
      BY <1>4, Zenon DEF Kept
    <3> QED BY <2>12, <3>1, KeptTwice, Zenon
  <2>14. \A i \in Slots : i \notin kids => Kept(N[i], W[i], N[i].ppid)
    BY <1>4, <2>12, Zenon
  <2>15. Tab(R)
    <3>1. \A i \in Slots : Local(R[i])
      BY <2>6, <2>8, UnusedIs, Zenon DEF IsWoken, Tab
    <3>2. \A i \in Slots : R[i] \in TaskRecord
      BY <3>1, Zenon DEF Local
    <3>3. R = [i \in Slots |-> R[i]]
      BY <2>7, Zenon
    <3>4. R \in [Slots -> TaskRecord]
      BY <3>2, <3>3, Zenon
    <3> QED BY <3>1, <3>4, Zenon DEF Tab
  <2>16. \A i \in Slots : \/ Kid(N[i], old) /\ Gone(N[i], R[i])
                          \/ Kid(N[i], old) /\ Kept(N[i], R[i], m)
                          \/ ~Kid(N[i], old) /\ Kept(N[i], R[i], N[i].ppid)
    BY <1>3, <2>8, <2>9, <2>13, <2>14, UnusedGone, Zenon
  <2>17. ASSUME NEW p \in Slots, NEW c \in Slots,
                Waits(R[p]), InUse(R[c]), Kid(N[c], old), Awaits(R[p], R[c])
         PROVE  EventOf(R[c]) = "NONE"
    <3>1. R[p] = W[p] /\ R[c] = W[c] /\ c \notin reaped /\ c \in kids
      BY <1>3, <2>8, <2>17, UnusedIs, Zenon
    <3>2. c \notin told
      BY <2>6, <2>17, <3>1, Zenon DEF IsWoken
    <3>3. EventOf(N[c]) = "NONE"
      BY <2>10, <3>1, <3>2, Zenon
    <3> QED BY <2>13, <3>1, <3>3, Zenon DEF Kept
  <2>18. Adopts(N, old, m, R)
    BY <2>15, <2>16, <2>17, Zenon DEF Adopts
  <2> QED BY <1>2, <2>1, <2>18, Zenon DEF R
<1> QED BY <1>5, <1>6

\* The record of a task that has exited.
Dead(t) ==
    [t EXCEPT !.state = "ZOMBIE", !.wait_pid = -1, !.wait_kind = "NONE",
              !.wake = 0, !.pending = {}, !.queue = << >>, !.mask = {},
              !.active = FALSE, !.saved_mask = {},
              !.stop_report = FALSE, !.cont_report = FALSE]

LEMMA DeadIs ==
    ASSUME NEW t, Local(t)
    PROVE  LET z == Dead(t)
           IN /\ Local(z) /\ z.pid = t.pid /\ z.ppid = t.ppid /\ z.state = "ZOMBIE"
              /\ Tame(t, z) /\ Halted(z)
<1> DEFINE a == [t EXCEPT !.state = "ZOMBIE", !.wait_pid = -1]
           c == [a EXCEPT !.wait_kind = "NONE", !.wake = 0]
           d == [c EXCEPT !.pending = {}, !.queue = << >>]
           e == [d EXCEPT !.mask = {}, !.active = FALSE]
           f == [e EXCEPT !.saved_mask = {}, !.stop_report = FALSE]
           z == [f EXCEPT !.cont_report = FALSE]
<1>1. z = Dead(t)
  BY Zenon DEF Dead
<1>2. a \in TaskRecord /\ a.state = "ZOMBIE" /\ a.pid = t.pid /\ a.ppid = t.ppid
  BY StatesAre, Zenon DEF Local, TaskRecord
<1> HIDE DEF a
<1>3. /\ c \in TaskRecord /\ c.state = "ZOMBIE" /\ c.pid = t.pid /\ c.ppid = t.ppid
      /\ c.wait_kind = "NONE"
  BY <1>2, StatesAre, Zenon DEF TaskRecord
<1> HIDE DEF c
<1>4. /\ d \in TaskRecord /\ d.state = "ZOMBIE" /\ d.pid = t.pid /\ d.ppid = t.ppid
      /\ d.wait_kind = "NONE" /\ d.pending = {} /\ d.queue = << >>
  <2>1. << >> \in Seq(Signals)
    OBVIOUS
  <2> QED BY <1>3, <2>1, Zenon DEF TaskRecord
<1> HIDE DEF d
<1>5. /\ e \in TaskRecord /\ e.state = "ZOMBIE" /\ e.pid = t.pid /\ e.ppid = t.ppid
      /\ e.wait_kind = "NONE" /\ e.pending = {} /\ e.queue = << >> /\ e.mask = {}
      /\ e.active = FALSE
  BY <1>4, Zenon DEF TaskRecord
<1> HIDE DEF e
<1>6. /\ f \in TaskRecord /\ f.state = "ZOMBIE" /\ f.pid = t.pid /\ f.ppid = t.ppid
      /\ f.wait_kind = "NONE" /\ f.pending = {} /\ f.queue = << >> /\ f.mask = {}
      /\ f.active = FALSE /\ f.saved_mask = {}
  BY <1>5, Zenon DEF TaskRecord
<1> HIDE DEF f
<1>7. /\ z \in TaskRecord /\ z.state = "ZOMBIE" /\ z.pid = t.pid /\ z.ppid = t.ppid
      /\ z.wait_kind = "NONE" /\ z.pending = {} /\ z.queue = << >> /\ z.mask = {}
      /\ z.active = FALSE /\ z.saved_mask = {}
  BY <1>6, Zenon DEF TaskRecord
<1> HIDE DEF z
<1>8. SignalsOK(z)
  BY <1>7, EmptyQueue DEF SignalsOK
<1>9. CallOK(z) /\ Tame(t, z) /\ Halted(z)
  BY <1>7, Strings, Zenon DEF CallOK, Tame, Alive, Halted
<1> QED BY <1>1, <1>7, <1>8, <1>9, Zenon DEF Local, a, c, d, e, f, z

\* U is S, where slot v has just become a zombie, after the children of pid old got
\* the parent m and the waiters were woken.
Handover(S, v, old, m, U) ==
    /\ Tab(U)
    /\ \A i \in Slots : \/ Kid(S[i], old) /\ Gone(S[i], U[i])
                        \/ Kid(S[i], old) /\ Kept(S[i], U[i], m)
                        \/ ~Kid(S[i], old) /\ Kept(S[i], U[i], S[i].ppid)
    /\ \A p, c \in Slots :
          Waits(U[p]) /\ InUse(U[c]) /\ Awaits(U[p], U[c]) =>
             c # v /\ (Kid(S[c], old) => EventOf(U[c]) = "NONE")

LEMMA HandoverIs ==
    ASSUME NEW S, NEW N, NEW R, NEW U, NEW v \in Slots, NEW old, NEW m,
           Rung(S, N), Adopts(N, old, m, R), IsWoken(R, {v}, U)
    PROVE  Handover(S, v, old, m, U)
<1>1. \A i \in Slots : Kept(S[i], N[i], S[i].ppid) /\ N[i].ppid = S[i].ppid
  BY SoftKept, Zenon DEF Rung, Kept
<1>2. \A i \in Slots : Kept(R[i], U[i], R[i].ppid)
  BY SoftKept, Zenon DEF IsWoken
<1>3. \A i \in Slots : Kid(N[i], old) <=> Kid(S[i], old)
  BY <1>1, Zenon DEF Kid, Kept
<1>4. ASSUME NEW i \in Slots
      PROVE  \/ Kid(S[i], old) /\ Gone(S[i], U[i])
             \/ Kid(S[i], old) /\ Kept(S[i], U[i], m)
             \/ ~Kid(S[i], old) /\ Kept(S[i], U[i], S[i].ppid)
  <2>1. CASE Kid(N[i], old) /\ Gone(N[i], R[i])
    <3>1. S[i].state = "ZOMBIE"
      BY <2>1, Zenon DEF Rung, OnlySignals, Gone
    <3>2. U[i].state = "UNUSED" /\ U[i].pid = 0 /\ U[i].ppid = 0 /\ Halted(U[i])
      <4>1. ~InUse(U[i]) /\ U[i].pid = 0 /\ U[i].ppid = 0 /\ Halted(U[i])
        BY <1>2, <2>1, Zenon DEF Gone, Kept, InUse
      <4> QED BY <4>1, Zenon DEF InUse
    <3>3. Tame(S[i], U[i])
      BY <1>1, <1>2, <2>1, SoftTwice, Zenon DEF Gone, Kept
    <3> QED BY <1>3, <2>1, <3>1, <3>2, <3>3, Zenon DEF Gone
  <2>2. CASE Kid(N[i], old) /\ Kept(N[i], R[i], m)
    <3>1. Kept(S[i], R[i], m)
      BY <1>1, <2>2, KeptTwice, Zenon
    <3>2. Kept(R[i], U[i], m)
      BY <1>2, <2>2, Zenon DEF Kept
    <3>3. Kept(S[i], U[i], m)
      BY <3>1, <3>2, KeptTwice, Zenon
    <3> QED BY <1>3, <2>2, <3>3, Zenon
  <2>3. CASE ~Kid(N[i], old) /\ Kept(N[i], R[i], N[i].ppid)
    <3>1. Kept(N[i], R[i], S[i].ppid)
      BY <1>1, <2>3, Zenon
    <3>2. Kept(S[i], R[i], S[i].ppid)
      BY <1>1, <3>1, KeptTwice, Zenon
    <3>3. Kept(R[i], U[i], S[i].ppid)
      BY <1>2, <3>1, Zenon DEF Kept
    <3>4. Kept(S[i], U[i], S[i].ppid)
      BY <3>2, <3>3, KeptTwice, Zenon
    <3> QED BY <1>3, <2>3, <3>4, Zenon
  <2> QED BY <2>1, <2>2, <2>3, Zenon DEF Adopts
<1>5. ASSUME NEW p \in Slots, NEW c \in Slots, Waits(U[p]), InUse(U[c]), Awaits(U[p], U[c])
      PROVE  c # v /\ (Kid(S[c], old) => EventOf(U[c]) = "NONE")
  <2>1. c # v
    BY <1>5, Zenon DEF IsWoken
  <2>2. U[p] = R[p]
    BY <1>5, Zenon DEF IsWoken
  <2>3. InUse(R[c]) /\ Awaits(R[p], R[c]) /\ EventOf(U[c]) = EventOf(R[c])
    BY <1>2, <1>5, <2>2, Zenon DEF Kept, Awaits
  <2> QED BY <1>3, <1>5, <2>1, <2>2, <2>3, Zenon DEF Adopts
<1> QED BY <1>4, <1>5, Zenon DEF Handover, IsWoken

\* What slot v leaves behind: its children have the parent m, which is alive.
LEMMA ExitTable ==
    ASSUME NEW T, NEW b, TableOK(T, b), NEW v \in Slots, Alive(T[v]),
           NEW S, IsPut(T, v, Dead(T[v]), S), NEW m \in {-1, InitPid},
           m = InitPid => \E k \in Slots : Alive(S[k]) /\ S[k].pid = InitPid,
           NEW U, Handover(S, v, T[v].pid, m, U)
    PROVE  TableOK(U, b) /\ Tamed(T, U) /\ U[v].state = "ZOMBIE"
<1> DEFINE old == T[v].pid
           z == Dead(T[v])
<1>1. /\ Local(z) /\ z.pid = old /\ z.ppid = T[v].ppid /\ z.state = "ZOMBIE"
      /\ Tame(T[v], z) /\ Halted(z)
  BY DeadIs, Zenon DEF TableOK, Tab
<1>2. S[v] = z /\ \A i \in Slots : i # v => S[i] = T[i]
  BY Zenon DEF IsPut
<1> HIDE DEF z
<1>3. b \in Nat \ {0} /\ old >= 1 /\ old \in Nat /\ T[v].ppid # old
  BY DEF TableOK, Named, Distinguished, Alive, InUse
<1>4. \A i \in Slots : S[i].pid = T[i].pid /\ S[i].ppid = T[i].ppid /\ (InUse(S[i]) <=> InUse(T[i]))
  <2>1. InUse(z) /\ InUse(T[v])
    BY <1>1, Strings, Zenon DEF InUse, Alive
  <2> QED BY <1>1, <1>2, <2>1, Zenon
<1>5. ~Kid(S[v], old)
  BY <1>3, <1>4, Zenon DEF Kid
<1>6. Kept(z, U[v], T[v].ppid)
  BY <1>1, <1>2, <1>5, Zenon DEF Handover
<1>7. U[v].state = "ZOMBIE"
  BY <1>1, <1>6, Strings, Zenon DEF Kept, InUse, Alive
<1>8. Tamed(T, U)
  <2>1. \A i \in Slots : Tame(S[i], U[i])
    BY Zenon DEF Handover, Gone, Kept
  <2>2. \A i \in Slots : Tame(T[i], S[i])
    BY <1>1, <1>2, SoftTwice, Zenon
  <2> QED BY <2>1, <2>2, SoftTwice, Zenon DEF Tamed
<1>9. \A i \in Slots : Halted(U[i])
  <2>1. \A i \in Slots : Halted(S[i])
    BY <1>1, <1>2, Zenon DEF TableOK
  <2> QED BY <2>1, Zenon DEF Handover, Gone, Kept
<1>10. \A i \in Slots : InUse(U[i]) =>
         /\ InUse(T[i]) /\ U[i].pid = T[i].pid
         /\ \/ T[i].ppid = old /\ U[i].ppid = m
            \/ T[i].ppid # old /\ U[i].ppid = T[i].ppid
  BY <1>4, Zenon DEF Handover, Gone, Kept, Kid, InUse
<1>11. \A i \in Slots : Alive(T[i]) /\ i # v => Alive(U[i]) /\ InUse(U[i]) /\ U[i].pid = T[i].pid
  <2> SUFFICES ASSUME NEW i \in Slots, Alive(T[i]), i # v
               PROVE  Alive(U[i]) /\ InUse(U[i]) /\ U[i].pid = T[i].pid
    OBVIOUS
  <2>1. S[i] = T[i] /\ S[i].state # "ZOMBIE"
    BY <1>2, Zenon DEF Alive
  <2>2. Alive(U[i]) /\ U[i].pid = T[i].pid
    BY <2>1, Zenon DEF Handover, Gone, Kept
  <2> QED BY <2>2, Zenon DEF Alive, InUse
<1>12. Named(U, b)
  <2>1. \A i \in Slots : U[i].pid \in 0 .. b /\ U[i].ppid \in -1 .. b
    <3> SUFFICES ASSUME NEW i \in Slots PROVE U[i].pid \in 0 .. b /\ U[i].ppid \in -1 .. b
      OBVIOUS
    <3>1. T[i].pid \in 0 .. b /\ T[i].ppid \in -1 .. b
      BY Zenon DEF TableOK, Named
    <3>2. 0 \in 0 .. b /\ 0 \in -1 .. b /\ m \in -1 .. b
      BY <1>3 DEF InitPid
    <3> QED BY <1>4, <3>1, <3>2, Zenon DEF Handover, Gone, Kept
  <2>2. ASSUME NEW i \in Slots, InUse(U[i]) PROVE Distinguished(U[i])
    <3>1. Distinguished(T[i]) /\ U[i].pid = T[i].pid
      BY <1>10, <2>2, Zenon DEF TableOK, Named
    <3>2. CASE T[i].ppid # old /\ U[i].ppid = T[i].ppid
      BY <3>1, <3>2, Zenon DEF Distinguished
    <3>3. CASE T[i].ppid = old /\ U[i].ppid = m
      <4>1. T[i].pid # InitPid
        <5>1. ~(old <= 0)
          BY <1>3
        <5> QED BY <3>1, <3>3, <5>1, Zenon DEF Distinguished
      <4>2. T[i].pid >= 1 /\ T[i].pid \in Int
        BY <3>1 DEF Distinguished, TableOK, Named
      <4>3. m # T[i].pid
        BY <4>1, <4>2 DEF InitPid
      <4> QED BY <3>1, <3>3, <4>1, <4>2, <4>3, Zenon DEF Distinguished
    <3> QED BY <1>10, <2>2, <3>2, <3>3, Zenon
  <2>3. \A i, j \in Slots : InUse(U[i]) /\ InUse(U[j]) /\ U[i].pid = U[j].pid => i = j
    BY <1>10, Zenon DEF TableOK, Named
  <2> QED BY <1>3, <2>1, <2>2, <2>3, Zenon DEF Named
<1>13. Family(U)
  <2> SUFFICES ASSUME NEW c \in Slots, InUse(U[c]), U[c].ppid > 0
               PROVE  \E p \in Slots : Alive(U[p]) /\ U[p].pid = U[c].ppid
    BY Zenon DEF Family
  <2>1. CASE T[c].ppid = old /\ U[c].ppid = m
    <3>1. m = InitPid
      BY <2>1
    <3>2. PICK k \in Slots : Alive(S[k]) /\ S[k].pid = InitPid
      BY <3>1, Zenon
    <3>3. k # v
      BY <1>1, <1>2, <3>2, Zenon DEF Alive
    <3> QED BY <1>2, <1>11, <2>1, <3>1, <3>2, <3>3, Zenon
  <2>2. CASE T[c].ppid # old /\ U[c].ppid = T[c].ppid
    <3>1. PICK p \in Slots : Alive(T[p]) /\ T[p].pid = T[c].ppid
      BY <1>10, <2>2, Zenon DEF TableOK, Family
    <3>2. p # v
      BY <2>2, <3>1, Zenon
    <3> QED BY <1>11, <2>2, <3>1, <3>2, Zenon
  <2> QED BY <1>10, <2>1, <2>2, Zenon
<1>14. Waiters(U)
  <2> SUFFICES ASSUME NEW p \in Slots, Waits(U[p])
               PROVE  /\ \E c \in Slots : InUse(U[c]) /\ Awaits(U[p], U[c])
                      /\ \A c \in Slots : InUse(U[c]) /\ Awaits(U[p], U[c]) =>
                            Silent(U[p], U[c])
    BY Zenon DEF Waiters
  <2>1. U[p].state # "UNUSED" /\ p # v
    BY <1>7, Strings, Zenon DEF Waits
  <2>2. /\ Waits(T[p]) /\ U[p].wait_pid = T[p].wait_pid /\ U[p].tf.opts = T[p].tf.opts
        /\ U[p].pid = T[p].pid
    BY <1>2, <2>1, Zenon DEF Handover, Gone, Kept
  <2>3. T[p].pid # old
    BY <2>1, <2>2, Strings, Zenon DEF TableOK, Named, Waits, InUse, Alive
  <2>4. \E c \in Slots : InUse(U[c]) /\ Awaits(U[p], U[c])
    <3>1. PICK c \in Slots : InUse(T[c]) /\ Awaits(T[p], T[c]) /\ Silent(T[p], T[c])
      BY <2>2, Zenon DEF TableOK, Waiters
    <3>2. T[c].ppid # old
      BY <2>3, <3>1, Zenon DEF Awaits
    <3>3. ~Kid(S[c], old)
      BY <1>4, <3>2, Zenon DEF Kid
    <3>4. Kept(S[c], U[c], S[c].ppid)
      BY <3>3, Zenon DEF Handover
    <3> QED BY <1>4, <2>2, <3>1, <3>4, Zenon DEF Kept, Awaits
  <2>5. ASSUME NEW c \in Slots, InUse(U[c]), Awaits(U[p], U[c])
        PROVE  Silent(U[p], U[c])
    <3>1. c # v /\ (Kid(S[c], old) => EventOf(U[c]) = "NONE")
      BY <2>5, Zenon DEF Handover
    <3>2. CASE Kid(S[c], old)
      BY <3>1, <3>2, Strings, Zenon DEF Silent
    <3>3. CASE ~Kid(S[c], old)
      <4>1. Kept(T[c], U[c], T[c].ppid)
        BY <1>2, <3>1, <3>3, Zenon DEF Handover
      <4>2. InUse(T[c]) /\ Awaits(T[p], T[c]) /\ EventOf(U[c]) = EventOf(T[c])
        BY <2>2, <2>5, <4>1, Zenon DEF Kept, Awaits
      <4>3. Silent(T[p], T[c])
        BY <2>2, <4>2, Zenon DEF TableOK, Waiters
      <4> QED BY <2>2, <4>2, <4>3, Zenon DEF Silent
    <3> QED BY <3>2, <3>3
  <2> QED BY <2>4, <2>5
<1> QED BY <1>7, <1>8, <1>9, <1>12, <1>13, <1>14, Zenon DEF TableOK, Handover

LEMMA ReapSlotIs ==
    ASSUME NEW T, Tab(T), NEW v \in Slots, T[v].state = "ZOMBIE"
    PROVE  IsReap(T, task_reap_slot(T, v))
<1>1. T \in [Slots -> TaskRecord] /\ Unused \in TaskRecord
  BY UnusedIs, Zenon DEF Tab, Local
<1>2. /\ task_reap_slot(T, v) \in [Slots -> TaskRecord] /\ task_reap_slot(T, v)[v] = Unused
      /\ \A i \in Slots : i # v => task_reap_slot(T, v)[i] = T[i]
  BY <1>1, Zenon DEF task_reap_slot
<1> QED BY <1>2, Zenon DEF IsReap

LEMMA ForceExitOK ==
    ASSUME NEW T, NEW b, TableOK(T, b), NEW v \in Slots
    PROVE  LET U == task_force_exit(T, v)
           IN /\ TableOK(U, b) /\ Tamed(T, U)
              /\ Alive(T[v]) => U[v].state \in {"ZOMBIE", "UNUSED"}
<1> DEFINE z == Dead(T[v])
           S == Put(T, v, z)
           N == task_notify_sigchld(S, v, "EXIT")
           R == task_reparent_children(N, T[v].pid)
           W == WakeWaitersOf(R, {v})
           U == task_force_exit(T, v)
<1>1. U = IF v \notin Live(T) THEN T
          ELSE IF task_sigchld_auto_reap(T, task_parent_of(T, v)) THEN task_reap_slot(W, v)
          ELSE W
  BY Zenon DEF task_force_exit, Put, Dead, task_wake_waiters
<1>2. CASE ~Alive(T[v])
  <2>1. U = T
    BY <1>1, <1>2, SetsAre, Zenon
  <2> QED BY <1>2, <2>1, TamedTwice, Zenon
<1>3. CASE Alive(T[v])
  <2>1. Local(z) /\ z.pid = T[v].pid /\ z.ppid = T[v].ppid /\ z.state = "ZOMBIE"
    BY DeadIs, Zenon DEF TableOK, Tab
  <2>2. IsPut(T, v, z, S)
    BY <2>1, PutIs, Zenon DEF TableOK
  <2>3. Rung(S, N)
    BY <2>2, NotifyIs, Zenon DEF IsPut
  <2> HIDE DEF N, S, U
  <2>4. Named(N, b)
    <3>1. \A i \in Slots : S[i].pid = T[i].pid /\ S[i].ppid = T[i].ppid /\ (InUse(S[i]) <=> InUse(T[i]))
      BY <1>3, <2>1, <2>2, Strings, Zenon DEF IsPut, InUse, Alive
    <3>2. \A i \in Slots : N[i].pid = T[i].pid /\ N[i].ppid = T[i].ppid /\ (InUse(N[i]) <=> InUse(T[i]))
      BY <2>3, <3>1, ZenonT(40) DEF Rung, OnlySignals, InUse
    <3>3. \A i \in Slots : InUse(N[i]) => Distinguished(N[i])
      BY <3>2, Zenon DEF TableOK, Named, Distinguished
    <3> QED BY <3>2, <3>3, Zenon DEF TableOK, Named
  <2>5. T[v].pid >= 1 /\ T[v].pid \in Int
    BY <1>3 DEF TableOK, Named, Distinguished, Alive, InUse
  <2>6. PICK m \in {-1, InitPid} :
          /\ m = InitPid => \E k \in Slots : Alive(N[k]) /\ N[k].pid = InitPid
          /\ Adopts(N, T[v].pid, m, R)
    BY <2>3, <2>4, <2>5, ReparentIs, Zenon DEF Rung
  <2>7. IsWoken(R, {v}, W)
    BY <2>6, WakeIs, Zenon DEF Adopts
  <2> HIDE DEF R, W
  <2>8. Handover(S, v, T[v].pid, m, W)
    BY <2>3, <2>6, <2>7, HandoverIs, Zenon
  <2>9. m = InitPid => \E k \in Slots : Alive(S[k]) /\ S[k].pid = InitPid
    BY <2>3, <2>6, Zenon DEF Rung, OnlySignals, Alive
  <2>10. TableOK(W, b) /\ Tamed(T, W) /\ W[v].state = "ZOMBIE"
    BY <1>3, <2>2, <2>8, <2>9, ExitTable, Zenon
  <2>11. IsReap(W, task_reap_slot(W, v))
    BY <2>10, ReapSlotIs, Zenon DEF TableOK
  <2>12. TableOK(task_reap_slot(W, v), b) /\ Tamed(W, task_reap_slot(W, v))
    BY <2>10, <2>11, ReapOK, Zenon
  <2>13. task_reap_slot(W, v)[v].state \in {"ZOMBIE", "UNUSED"}
    BY <2>10, <2>11, UnusedIs, Zenon DEF IsReap
  <2>14. Tamed(T, task_reap_slot(W, v))
    BY <2>10, <2>12, TamedTwice, Zenon
  <2>15. U = W \/ U = task_reap_slot(W, v)
    BY <1>1, <1>3, SetsAre, Zenon
  <2>16. TableOK(U, b) /\ Tamed(T, U) /\ U[v].state \in {"ZOMBIE", "UNUSED"}
    BY <2>10, <2>12, <2>13, <2>14, <2>15, Zenon
  <2> QED BY <2>16 DEF U
<1> QED BY <1>2, <1>3

-----------------------------------------------------------------------------
\* Signals between tasks.

LEMMA SignalOneOK ==
    ASSUME NEW T, NEW b, TableOK(T, b), NEW from, NEW v \in Slots, NEW sig \in Signals
    PROVE  LET U == task_signal_one(T, from, v, sig) IN TableOK(U, b) /\ Tamed(T, U)
<1> DEFINE t == T[v]
           u == task_signal_enqueue(t, sig)
           Q == Put(T, v, u)
           C == ContTask(Q, v)
           act == t.act[sig]
           r == act.handler # "SIG_DFL" /\ "SA_RESTART" \in act.flags
           Roused(X, y) == Put(X, v, task_signal_wake_waiter(X[v], y))
           U == task_signal_one(T, from, v, sig)
<1>1. \/ U = T
      \/ Alive(t) /\ sig = SIGKILL /\ U = task_force_exit(T, v)
      \/ sig # SIGKILL /\ sig # SIGSTOP /\ U = Q
      \/ sig = SIGCONT /\ U = Roused(C, TRUE)
      \/ Alive(t) /\ sig = SIGSTOP /\ U = StopTask(Q, v)
      \/ sig # SIGKILL /\ sig # SIGSTOP /\ U = Roused(Q, r)
  BY SetsAre, Zenon DEF task_signal_one, Put, task_signal_blocked, Unblockable
<1>2. Local(t)
  BY Zenon DEF TableOK, Tab
<1> HIDE DEF U, t
<1>3. ASSUME U = T PROVE TableOK(U, b) /\ Tamed(T, U)
  BY <1>3, TamedTwice, Zenon
<1>4. ASSUME U = task_force_exit(T, v) PROVE TableOK(U, b) /\ Tamed(T, U)
  BY <1>4, ForceExitOK, Zenon
<1>5. ASSUME sig # SIGKILL, sig # SIGSTOP
      PROVE  /\ IsPut(T, v, u, Q) /\ TableOK(Q, b) /\ Tamed(T, Q)
             /\ sig = SIGCONT => SIGSTOP \notin Q[v].pending
  <2>1. Local(u) /\ Soft(t, u) /\ (sig = SIGCONT => SIGSTOP \notin u.pending)
    BY <1>2, <1>5, EnqueueSoft, Zenon
  <2> HIDE DEF u
  <2>2. IsPut(T, v, u, Q)
    BY <2>1, PutIs, Zenon DEF TableOK
  <2>3. TableOK(Q, b)
    BY <2>1, NudgeOK, Zenon DEF Soft, t
  <2> HIDE DEF Q
  <2>4. Tamed(T, Q)
    BY <2>1, <2>2, SoftTwice, Zenon DEF Tamed, IsPut, Soft, t
  <2> QED BY <2>1, <2>2, <2>3, <2>4, Zenon DEF IsPut
<1>6. ASSUME NEW X, TableOK(X, b), NEW y \in BOOLEAN
      PROVE  TableOK(Roused(X, y), b) /\ Tamed(X, Roused(X, y))
  <2> DEFINE w == task_signal_wake_waiter(X[v], y)
             P == Put(X, v, w)
  <2>1. Local(w) /\ Soft(X[v], w)
    BY <1>6, SignalWakeIs, Zenon DEF TableOK, Tab
  <2> HIDE DEF w
  <2>2. TableOK(P, b) /\ IsPut(X, v, w, P)
    BY <1>6, <2>1, NudgeOK, PutIs, Zenon DEF Soft, TableOK
  <2> HIDE DEF P
  <2>3. Tamed(X, P)
    BY <2>1, <2>2, SoftTwice, Zenon DEF Tamed, IsPut, Soft
  <2> QED BY <2>2, <2>3, Zenon DEF P, w
<1>7. ASSUME sig # SIGKILL, sig # SIGSTOP, U = Q PROVE TableOK(U, b) /\ Tamed(T, U)
  BY <1>5, <1>7, Zenon
<1> HIDE DEF Q, r
<1>8. r \in BOOLEAN
  BY Zenon DEF r
<1>9. ASSUME sig # SIGKILL, sig # SIGSTOP, U = Roused(Q, r) PROVE TableOK(U, b) /\ Tamed(T, U)
  <2>1. TableOK(Roused(Q, r), b) /\ Tamed(Q, Roused(Q, r)) /\ Tamed(T, Q)
    BY <1>5, <1>6, <1>8, <1>9, Zenon
  <2> HIDE DEF Roused
  <2> QED BY <1>9, <2>1, TamedTwice, Zenon
<1>10. ASSUME sig = SIGCONT, U = Roused(C, TRUE) PROVE TableOK(U, b) /\ Tamed(T, U)
  <2>1. TableOK(Q, b) /\ Tamed(T, Q) /\ SIGSTOP \notin Q[v].pending
    BY <1>5, <1>10, SignalsDiffer, Zenon
  <2>2. TableOK(C, b) /\ Tamed(Q, C)
    BY <2>1, ContOK, Zenon
  <2> HIDE DEF C
  <2>3. TableOK(Roused(C, TRUE), b) /\ Tamed(C, Roused(C, TRUE))
    BY <1>6, <2>2, Zenon
  <2> HIDE DEF Roused
  <2> QED BY <1>10, <2>1, <2>2, <2>3, TamedTwice, Zenon
<1>11. ASSUME Alive(t), sig = SIGSTOP, U = StopTask(Q, v) PROVE TableOK(U, b) /\ Tamed(T, U)
  <2>1. /\ Local(u) /\ OnlySignals(t, u)
        /\ u.pending = (t.pending \ Opposite(sig)) \union {sig}
    <3>1. sig \in Signals \ {SIGKILL}
      BY <1>11, SignalsDiffer, Zenon
    <3> QED BY <1>2, <3>1, EnqueueIs, Zenon
  <2> HIDE DEF u
  <2>2. IsPut(T, v, u, Q)
    BY <2>1, PutIs, Zenon DEF TableOK, Q
  <2>3. SIGCHLD \notin Opposite(sig)
    BY SignalsDiffer DEF Opposite
  <2>4. Tame(t, u) /\ Alive(u)
    BY <1>11, <2>1, <2>3, Zenon DEF Tame, OnlySignals, Alive
  <2>5. Tamed(T, Q)
    BY <2>2, <2>4, SoftTwice, Zenon DEF Tamed, IsPut, t
  <2>6. SameKin(T, Q)
    BY <2>1, <2>2, Zenon DEF SameKin, IsPut, OnlySignals, InUse, Alive, t
  <2>7. Named(Q, b) /\ Family(Q)
    BY <2>6, KinKeeps, Zenon DEF TableOK
  <2>8. \A i \in Slots : EventOf(Q[i]) = EventOf(T[i])
    BY <2>1, <2>2, ZenonT(40) DEF IsPut, OnlySignals, EventOf, t
  <2>9. Watched(T, Q, {})
    BY <2>1, <2>2, Zenon DEF Watched, IsPut, OnlySignals, Waits, t
  <2>10. Waiters(Q)
    BY <2>6, <2>8, <2>9, WaitersKeep, Zenon DEF TableOK
  <2>11. Midway(Q, b, v) /\ Alive(Q[v])
    BY <2>2, <2>4, <2>7, <2>10, Zenon DEF Midway, TableOK, IsPut
  <2>12. TableOK(StopTask(Q, v), b) /\ Tamed(Q, StopTask(Q, v))
    BY <2>11, StopOK, Zenon
  <2> QED BY <1>11, <2>5, <2>12, TamedTwice, Zenon
<1>12. TableOK(U, b) /\ Tamed(T, U)
  BY <1>1, <1>3, <1>4, <1>7, <1>9, <1>10, <1>11, Zenon
<1> QED BY <1>12 DEF U

-----------------------------------------------------------------------------
\* The choice of the next task.

LEMMA NextIs ==
    ASSUME NEW T, NEW from \in Nat
    PROVE  LET n == task_next_runnable(T, from)
           IN n = 0 \/ (n \in Slots /\ T[n].state = "RUNNABLE")
<1> DEFINE ready == {i \in Slots : T[i].state = "RUNNABLE"}
           after == {i \in ready : i > from}
<1>1. task_next_runnable(T, from) =
        IF after # {} THEN Least(after) ELSE IF ready # {} THEN Least(ready) ELSE 0
  BY Zenon DEF task_next_runnable
<1>2. ready \subseteq Nat /\ after \subseteq Nat
  <2>1. Slots \subseteq Nat
    BY SlotsAssumption DEF Slots
  <2> QED BY <2>1, Zenon
<1>3. after # {} => Least(after) \in after
  BY <1>2, LeastIs, Zenon
<1>4. ready # {} => Least(ready) \in ready
  BY <1>2, LeastIs, Zenon
<1> QED BY <1>1, <1>3, <1>4, Zenon

SetState(t, s) == [t EXCEPT !.state = s]

LEMMA SetStateIs ==
    ASSUME NEW t, Local(t), NEW s \in {"RUNNING", "RUNNABLE"}, t.state \in {"RUNNING", "RUNNABLE"}
    PROVE  LET u == SetState(t, s)
           IN /\ Local(u) /\ Nudged(t, u) /\ u.state = s
              /\ u.active = t.active /\ u.saved_tf = t.saved_tf /\ u.saved_mask = t.saved_mask
              /\ u.pending = t.pending /\ u.act = t.act
<1> DEFINE u == SetState(t, s)
<1>1. s \in States
  BY StatesAre, Zenon
<1>2. /\ u \in TaskRecord /\ u.state = s /\ u.pid = t.pid /\ u.ppid = t.ppid
      /\ u.wait_kind = t.wait_kind /\ u.act = t.act
      /\ u.stop_report = t.stop_report /\ u.cont_report = t.cont_report
      /\ u.pending = t.pending /\ u.queue = t.queue /\ u.mask = t.mask
      /\ u.saved_mask = t.saved_mask /\ u.saved_tf = t.saved_tf /\ u.active = t.active
  <2>1. t \in TaskRecord
    BY Zenon DEF Local
  <2>2. u \in TaskRecord
    BY <1>1, <2>1 DEF TaskRecord, SetState
  <2> QED BY <2>1, <2>2, Zenon DEF TaskRecord, SetState
<1> HIDE DEF u
<1>3. SignalsOK(u) /\ CallOK(u)
  BY <1>2, Strings, Zenon DEF Local, SignalsOK, CallOK
<1>4. Nudged(t, u)
  BY <1>2, Zenon DEF Nudged
<1> QED BY <1>2, <1>3, <1>4, Zenon DEF Local, u

\* What task_schedule_from_trap may do to a slot before it chooses.
Settled(t, u) ==
    \/ u = t
    \/ t.state = "RUNNING" /\ u = SetState(t, "RUNNABLE")
    \/ t.state = "ZOMBIE" /\ u = Unused

\* Only the current task may be RUNNING.
Lone(T, c) == \A i \in Slots : T[i].state = "RUNNING" => i = c

\* task_schedule_from_trap up to the choice, from table T: nothing runs.
Scheduled(T, b) ==
    /\ TableOK(task', b)
    /\ \A i \in Slots : Settled(T[i], task'[i]) /\ task'[i].state # "RUNNING"
    /\ pc' \in {"idle", "deliver"}
    /\ (pc' = "deliver") = (nxt' # 0)
    /\ nxt' = 0 \/ (nxt' \in Slots /\ task'[nxt'].state = "RUNNABLE")
    /\ cur' = cur

LEMMA OrphansIs ==
    ASSUME NEW T, Tab(T), NEW c
    PROVE  IsReap(T, task_reap_orphan_zombies(T, c))
<1> DEFINE Orphan(i) == i # c /\ T[i].state = "ZOMBIE" /\ task_parent_of(T, i) \notin Live(T)
           R == [i \in Slots |-> IF Orphan(i) THEN Unused ELSE T[i]]
<1>1. task_reap_orphan_zombies(T, c) = T \/ task_reap_orphan_zombies(T, c) = R
  BY Zenon DEF task_reap_orphan_zombies
<1>2. IsReap(T, T)
  BY Zenon DEF IsReap, Tab
<1>3. IsReap(T, R)
  <2>1. \A i \in Slots : R[i] = IF Orphan(i) THEN Unused ELSE T[i]
    BY Zenon
  <2>2. \A i \in Slots : T[i] \in TaskRecord /\ Unused \in TaskRecord
    BY UnusedIs, Zenon DEF Tab, Local
  <2>3. R \in [Slots -> TaskRecord]
    BY <2>2, Zenon
  <2> QED BY <2>1, <2>3, Zenon DEF IsReap
<1> QED BY <1>1, <1>2, <1>3, Zenon

LEMMA RescheduleOK ==
    ASSUME NEW T, NEW b, TableOK(T, b), cur \in Slots, Lone(T, cur), NEW force,
           Reschedule(T, force)
    PROVE  Scheduled(T, b)
<1> DEFINE x == SetState(T[cur], "RUNNABLE")
           P == IF T[cur].state = "RUNNING" THEN Put(T, cur, x) ELSE T
           K == task_reap_orphan_zombies(P, cur)
           n == IF ~force /\ K[cur].state = "RUNNABLE" THEN cur ELSE task_next_runnable(K, cur)
<1>1. /\ task' = K /\ nxt' = n /\ pc' = IF n = 0 THEN "idle" ELSE "deliver"
      /\ cur' = cur
  BY Zenon DEF Reschedule, Put, SetState
<1>2. /\ TableOK(P, b)
      /\ \A i \in Slots : /\ P[i].state # "RUNNING"
                          /\ P[i] = T[i] \/ (T[i].state = "RUNNING" /\ P[i] = SetState(T[i], "RUNNABLE"))
  <2>1. CASE T[cur].state # "RUNNING"
    BY <2>1, Zenon DEF Lone
  <2>2. CASE T[cur].state = "RUNNING"
    <3>1. Local(x) /\ Nudged(T[cur], x) /\ x.state = "RUNNABLE"
      BY <2>2, SetStateIs, Zenon DEF TableOK, Tab
    <3> HIDE DEF x
    <3>2. TableOK(Put(T, cur, x), b) /\ IsPut(T, cur, x, Put(T, cur, x))
      BY <3>1, NudgeOK, PutIs, Zenon DEF TableOK
    <3>3. P = Put(T, cur, x)
      BY <2>2, Zenon
    <3> HIDE DEF P
    <3>4. IsPut(T, cur, x, P)
      BY <3>2, <3>3, Zenon
    <3>5. \A i \in Slots : P[i].state # "RUNNING"
      BY <3>1, <3>4, Strings, Zenon DEF IsPut, Lone
    <3>6. \A i \in Slots : P[i] = T[i] \/ (T[i].state = "RUNNING" /\ P[i] = SetState(T[i], "RUNNABLE"))
      BY <2>2, <3>4, Zenon DEF IsPut, x
    <3> QED BY <3>2, <3>3, <3>5, <3>6, Zenon
  <2> QED BY <2>1, <2>2
<1> HIDE DEF P
<1>3. IsReap(P, K)
  BY <1>2, OrphansIs, Zenon DEF TableOK
<1>4. TableOK(K, b)
  BY <1>2, <1>3, ReapOK, Zenon
<1> HIDE DEF K
<1>5. \A i \in Slots : Settled(T[i], K[i]) /\ K[i].state # "RUNNING"
  <2> SUFFICES ASSUME NEW i \in Slots PROVE Settled(T[i], K[i]) /\ K[i].state # "RUNNING"
    OBVIOUS
  <2>1. CASE K[i] = P[i]
    BY <1>2, <2>1, Zenon DEF Settled
  <2>2. CASE P[i].state = "ZOMBIE" /\ K[i] = Unused
    <3>1. T[i].state = "ZOMBIE"
      <4>1. CASE P[i] = T[i]
        BY <2>2, <4>1, Zenon
      <4>2. CASE T[i].state = "RUNNING" /\ P[i] = SetState(T[i], "RUNNABLE")
        <5>1. P[i].state = "RUNNABLE"
          BY <4>2, SetStateIs, Zenon DEF TableOK, Tab
        <5> QED BY <2>2, <5>1, Strings, Zenon
      <4> QED BY <1>2, <4>1, <4>2, Zenon
    <3> QED BY <2>2, <3>1, UnusedIs, Strings, Zenon DEF Settled
  <2> QED BY <1>3, <2>1, <2>2, Zenon DEF IsReap
<1>6. n = 0 \/ (n \in Slots /\ K[n].state = "RUNNABLE")
  <2>1. cur \in Nat
    BY SlotsAssumption DEF Slots
  <2> QED BY <2>1, NextIs, Zenon
<1> HIDE DEF n
<1> QED BY <1>1, <1>4, <1>5, <1>6, Zenon DEF Scheduled

-----------------------------------------------------------------------------
\* The inductive invariant: the task table, and the state of the processor.

Pcs == {"user", "kill", "deliver", "idle", "idle_late"}

KillLoop == [pid : Int, sig : Signals, i : Nat, targets : SUBSET Nat]

Processor ==
    /\ calls \in Repertoire /\ cur \in Slots /\ pc \in Pcs
    /\ next_pid \in Nat /\ next_pid >= 2 /\ next_pid <= calls.pids + 1
    /\ (pc = "deliver") = (nxt # 0)
    /\ nxt = 0 \/ (nxt \in Slots /\ task[nxt].state = "RUNNABLE")
    /\ \A i \in Slots : task[i].state = "RUNNING" => i = cur /\ pc \in {"user", "kill"}
    /\ pc = "user" => task[cur].state = "RUNNING"
    /\ pc = "kill" => killing \in KillLoop

IInv == TableOK(task, next_pid - 1) /\ Processor

\* Steps of one slot that lose no saved frame, and no SIGCHLD either.
Framed(t, u) ==
    u.active => t.active /\ u.saved_tf = t.saved_tf /\ u.saved_mask = t.saved_mask

Mild(t, u) == Framed(t, u) /\ (Alive(u) => (SIGCHLD \in t.pending => SIGCHLD \in u.pending))

SigchldStep ==
    \A i \in Slots :
       SIGCHLD \in task[i].pending /\ SIGCHLD \notin task'[i].pending =>
         \/ pc = "deliver" /\ nxt = i
         \/ i = cur /\ (Exec \/ WaitForNoChild)
         \/ i \notin Live(task')
         \/ ~task_parent_has_child_sigchld_event(task', i)

FrameStep ==
    \A i \in Slots :
       task[i].active /\ task'[i].active =>
         task'[i].saved_tf \in {task[i].saved_tf, Tick(task)[i].saved_tf}
         /\ task'[i].saved_mask = task[i].saved_mask

\* What every step must do.
Good == IInv' /\ SigchldStep /\ FrameStep

LEMMA TameMild ==
    /\ \A t, u : Tame(t, u) => Mild(t, u) /\ Framed(t, u)
    /\ \A t, u, w : Mild(t, u) /\ Tame(u, w) => Mild(t, w)
    /\ \A t, u, w : Framed(t, u) /\ Framed(u, w) => Framed(t, w)
    /\ \A t, u : OnlySignals(t, u) => Framed(t, u)
  BY Zenon DEF Tame, Mild, Framed, OnlySignals

LEMMA FramedSteps ==
    ASSUME \A i \in Slots : Framed(task[i], task'[i])
    PROVE  FrameStep
  BY Zenon DEF FrameStep, Framed

LEMMA MildSteps ==
    ASSUME \A i \in Slots : Mild(task[i], task'[i])
    PROVE  SigchldStep /\ FrameStep
<1>1. SigchldStep
  BY SetsAre, Zenon DEF SigchldStep, Mild
<1>2. FrameStep
  BY FramedSteps, Zenon DEF Mild
<1> QED BY <1>1, <1>2

LEMMA SettledIs ==
    ASSUME NEW t, NEW u, Local(t), Settled(t, u)
    PROVE  /\ Tame(t, u) /\ (InUse(u) => u.pid = t.pid /\ u.ppid = t.ppid /\ InUse(t))
           /\ InUse(u) => EventOf(u) = EventOf(t) /\ u.act = t.act /\ u.pending = t.pending
<1>1. CASE u = t
  BY <1>1, SoftTwice, Zenon
<1>2. CASE t.state = "RUNNING" /\ u = SetState(t, "RUNNABLE")
  <2>1. /\ Nudged(t, u) /\ u.state = "RUNNABLE"
        /\ u.active = t.active /\ u.saved_tf = t.saved_tf /\ u.saved_mask = t.saved_mask
        /\ u.pending = t.pending /\ u.act = t.act
    BY <1>2, SetStateIs, Zenon
  <2>2. Tame(t, u)
    BY <1>2, <2>1, Strings, Zenon DEF Tame, Alive
  <2> QED BY <2>1, <2>2, NudgedIs, Zenon DEF Nudged
<1>3. CASE t.state = "ZOMBIE" /\ u = Unused
  BY <1>3, UnusedIs, UnusedGone, Zenon DEF Gone
<1> QED BY <1>1, <1>2, <1>3, Zenon DEF Settled

\* U has no child event that T has not, since no slot of it has one.
Tidy(t, u) == InUse(u) => /\ InUse(t) /\ u.pid = t.pid /\ u.ppid = t.ppid
                          /\ EventOf(u) = EventOf(t) /\ u.act = t.act

Tidied(T, U) == \A i \in Slots : Tidy(T[i], U[i])

LEMMA TidyIs ==
    /\ \A t, u : Local(t) /\ Settled(t, u) => Tidy(t, u)
    /\ \A t, u : OnlySignals(t, u) => Tidy(t, u)
    /\ \A t, u, w : Tidy(t, u) /\ Tidy(u, w) => Tidy(t, w)
<1>1. \A t, u : Local(t) /\ Settled(t, u) => Tidy(t, u)
  BY SettledIs, Zenon DEF Tidy
<1>2. \A t, u : OnlySignals(t, u) => Tidy(t, u)
  BY Zenon DEF OnlySignals, Tidy, InUse, EventOf
<1>3. \A t, u, w : Tidy(t, u) /\ Tidy(u, w) => Tidy(t, w)
  BY Zenon DEF Tidy
<1> QED BY <1>1, <1>2, <1>3

LEMMA NoNewEvent ==
    ASSUME NEW T, NEW U, NEW p \in Slots, Alive(U[p]), Tidied(T, U),
           ~task_parent_has_child_sigchld_event(T, p)
    PROVE  ~task_parent_has_child_sigchld_event(U, p)
<1>1. \A i \in Slots : InUse(U[i]) =>
         /\ InUse(T[i]) /\ U[i].pid = T[i].pid /\ U[i].ppid = T[i].ppid
         /\ EventOf(U[i]) = EventOf(T[i]) /\ U[i].act = T[i].act
  BY Zenon DEF Tidied, Tidy
<1>2. InUse(U[p])
  BY Zenon DEF Alive, InUse
<1>3. U[p].pid = T[p].pid /\ U[p].act = T[p].act
  BY <1>1, <1>2, Zenon
<1> SUFFICES ASSUME task_parent_has_child_sigchld_event(U, p) PROVE FALSE
  OBVIOUS
<1>4. PICK c \in Used(U) :
        /\ U[c].ppid = U[p].pid
        /\ \/ Event(U, c) = "EXIT"
           \/ "SA_NOCLDSTOP" \notin U[p].act[SIGCHLD].flags /\ Event(U, c) # "NONE"
  BY Zenon DEF task_parent_has_child_sigchld_event
<1>5. c \in Slots /\ InUse(U[c]) /\ Event(U, c) = EventOf(U[c]) /\ Event(T, c) = EventOf(T[c])
  BY <1>4, SetsAre, Zenon
<1>6. c \in Used(T) /\ T[c].ppid = T[p].pid /\ Event(T, c) = Event(U, c)
  BY <1>1, <1>3, <1>4, <1>5, SetsAre, Zenon
<1> QED BY <1>3, <1>4, <1>6, Zenon DEF task_parent_has_child_sigchld_event

\* A trap that ends in the choice of the next task.
LEMMA TrapOK ==
    ASSUME IInv, NEW U, NEW b, TableOK(U, b), Lone(U, cur), NEW force, Reschedule(U, force),
           next_pid' = b + 1, b + 1 \in Nat, b + 1 >= 2, b + 1 <= calls.pids + 1, calls' = calls
    PROVE  IInv' /\ \A i \in Slots : Settled(U[i], task'[i]) /\ Tame(U[i], task'[i])
<1>1. cur \in Slots
  BY Zenon DEF IInv, Processor
<1>2. Scheduled(U, b)
  BY <1>1, RescheduleOK, Zenon
<1>3. b \in Nat
  BY Zenon DEF TableOK, Named
<1>4. next_pid' - 1 = b
  BY <1>3
<1>5. TableOK(task', next_pid' - 1)
  BY <1>2, <1>4, Zenon DEF Scheduled
<1>6. Processor'
  <2>1. calls' \in Repertoire /\ cur' \in Slots /\ pc' \in Pcs
    BY <1>1, <1>2, Zenon DEF Scheduled, IInv, Processor, Pcs
  <2>2. /\ next_pid' \in Nat /\ next_pid' >= 2 /\ next_pid' <= calls'.pids + 1
        /\ (pc' = "deliver") = (nxt' # 0)
        /\ nxt' = 0 \/ (nxt' \in Slots /\ task'[nxt'].state = "RUNNABLE")
        /\ \A i \in Slots : task'[i].state = "RUNNING" => i = cur' /\ pc' \in {"user", "kill"}
    BY <1>2, Zenon DEF Scheduled
  <2>3. pc' # "user" /\ pc' # "kill"
    BY <1>2 DEF Scheduled
  <2> QED BY <2>1, <2>2, <2>3, Zenon DEF Processor
<1>7. IInv'
  BY <1>5, <1>6, Zenon DEF IInv
<1>8. \A i \in Slots : Settled(U[i], task'[i]) /\ Tame(U[i], task'[i])
  BY <1>2, SettledIs, Zenon DEF Scheduled, TableOK, Tab
<1> QED BY <1>7, <1>8

LEMMA LoneIs ==
    ASSUME IInv
    PROVE  Lone(task, cur) /\ \A U : Tamed(task, U) => Lone(U, cur)
  BY Zenon DEF IInv, Processor, Lone, Tamed, Tame

\* The same for a trap that makes no task.
LEMMA PlainTrapOK ==
    ASSUME IInv, NEW U, TableOK(U, next_pid - 1), Lone(U, cur), NEW force,
           Reschedule(U, force), next_pid' = next_pid, calls' = calls
    PROVE  IInv' /\ \A i \in Slots : Settled(U[i], task'[i]) /\ Tame(U[i], task'[i])
<1> DEFINE b == next_pid - 1
<1>1. /\ next_pid' = b + 1 /\ b + 1 \in Nat /\ b + 1 >= 2 /\ b + 1 <= calls.pids + 1
  BY DEF IInv, Processor
<1> HIDE DEF b
<1>2. TableOK(U, b)
  BY DEF b
<1> QED BY <1>1, <1>2, TrapOK, Zenon

LEMMA TameTrapOK ==
    ASSUME IInv, NEW U, TableOK(U, next_pid - 1), Tamed(task, U), NEW force,
           Reschedule(U, force), next_pid' = next_pid, calls' = calls
    PROVE  Good
<1>1. Lone(U, cur)
  BY LoneIs, Zenon
<1>2. IInv' /\ \A i \in Slots : Tame(U[i], task'[i])
  BY <1>1, PlainTrapOK, Zenon
<1>3. \A i \in Slots : Mild(task[i], task'[i])
  BY <1>2, TameMild, Zenon DEF Tamed
<1> QED BY <1>2, <1>3, MildSteps, Zenon DEF Good

-----------------------------------------------------------------------------
\* The steps, action by action.

LEMMA SelfIs ==
    ASSUME IInv
    PROVE  /\ TableOK(task, next_pid - 1) /\ Tab(task) /\ cur \in Slots /\ Local(task[cur])
           /\ pc = "user" => task[cur].state = "RUNNING" /\ Alive(task[cur]) /\ InUse(task[cur])
           /\ calls \in Repertoire
  BY Strings, Zenon DEF IInv, Processor, TableOK, Tab, Alive, InUse

LEMMA ExitStep ==
    ASSUME IInv, Exit PROVE Good
<1> DEFINE U == task_force_exit(task, cur)
<1>1. Reschedule(U, TRUE) /\ next_pid' = next_pid /\ calls' = calls
  BY Zenon DEF Exit
<1>2. TableOK(U, next_pid - 1) /\ Tamed(task, U)
  BY SelfIs, ForceExitOK, Zenon
<1> HIDE DEF U
<1> QED BY <1>1, <1>2, TameTrapOK, Zenon

LEMMA YieldStep ==
    ASSUME IInv, Yield PROVE Good
<1>1. Reschedule(task, TRUE) /\ next_pid' = next_pid /\ calls' = calls
  BY Zenon DEF Yield
<1>2. TableOK(task, next_pid - 1) /\ Tamed(task, task)
  BY SelfIs, TamedTwice, Zenon
<1> QED BY <1>1, <1>2, TameTrapOK, Zenon

LEMMA KillIs ==
    ASSUME IInv, NEW v \in Slots, NEW sig \in Signals
    PROVE  LET U == task_signal_one(task, cur, v, sig) IN TableOK(U, next_pid - 1) /\ Tamed(task, U)
  BY SelfIs, SignalOneOK, Zenon

LEMMA KillActStep ==
    ASSUME IInv, Kill PROVE Good
<1>1. PICK k \in calls.kills :
        Reschedule(IF task_by_pid(task, k.pid) = 0 THEN task
                   ELSE task_signal_one(task, cur, task_by_pid(task, k.pid), k.sig), TRUE)
  BY Zenon DEF Kill
<1> DEFINE v == task_by_pid(task, k.pid)
           U == IF v = 0 THEN task ELSE task_signal_one(task, cur, v, k.sig)
<1>2. k.sig \in Signals
  BY SelfIs DEF Repertoire
<1>3. v = 0 \/ v \in Slots
  BY SelfIs, ByPidIs, Zenon DEF TableOK
<1> HIDE DEF v
<1>4. TableOK(U, next_pid - 1) /\ Tamed(task, U)
  <2>1. CASE v = 0
    BY <2>1, SelfIs, TamedTwice, Zenon
  <2>2. CASE v # 0
    BY <1>2, <1>3, <2>2, KillIs, Zenon
  <2> QED BY <2>1, <2>2
<1>5. Reschedule(U, TRUE) /\ next_pid' = next_pid /\ calls' = calls
  BY <1>1, Zenon DEF Kill, v
<1> HIDE DEF U
<1> QED BY <1>4, <1>5, TameTrapOK, Zenon

LEMMA KillGroupStep ==
    ASSUME IInv, KillGroup PROVE Good
<1>1. PICK k \in calls.kills :
        killing' = [pid |-> k.pid, sig |-> k.sig, i |-> 1,
                    targets |-> {task[v].pid : v \in Targets(task, k.pid)}]
  BY Zenon DEF KillGroup
<1>2. k.sig \in Signals /\ k.pid \in Int
  BY SelfIs DEF Repertoire
<1>3. killing' \in KillLoop
  <2> DEFINE P == {task[v].pid : v \in Targets(task, k.pid)}
  <2>1. \A v \in Slots : task[v].pid \in Nat
    BY SelfIs DEF Tab, TaskRecord
  <2>2. \A v \in Targets(task, k.pid) : v \in Slots
    BY SetsAre, Zenon DEF Targets
  <2>3. P \in SUBSET Nat
    BY <2>1, <2>2, Zenon
  <2> HIDE DEF P
  <2>4. killing' = [pid |-> k.pid, sig |-> k.sig, i |-> 1, targets |-> P]
    BY <1>1, Zenon DEF P
  <2> QED BY <1>2, <2>3, <2>4 DEF KillLoop
<1>4. /\ pc = "user" /\ pc' = "kill" /\ task' = task /\ cur' = cur /\ nxt' = nxt
      /\ next_pid' = next_pid /\ calls' = calls
  BY Zenon DEF KillGroup, InUser
<1>5. "kill" # "deliver" /\ "user" # "deliver" /\ "kill" # "user" /\ "kill" \in Pcs
  BY DEF Pcs
<1>6. Processor'
  BY <1>3, <1>4, <1>5, Zenon DEF IInv, Processor
<1>7. IInv'
  BY <1>4, <1>6, Zenon DEF IInv
<1>8. \A i \in Slots : Mild(task[i], task'[i])
  BY <1>4, SoftTwice, TameMild, Zenon
<1> QED BY <1>7, <1>8, MildSteps, Zenon DEF Good

LEMMA KillStepStep ==
    ASSUME IInv, KillStep PROVE Good
<1> DEFINE rest == {v \in Targets(task, killing.pid) : v >= killing.i}
<1>1. /\ pc = "kill" /\ next_pid' = next_pid /\ calls' = calls
      /\ \/ Reschedule(task, TRUE)
         \/ /\ rest # {} /\ task' = task_signal_one(task, cur, Least(rest), killing.sig)
            /\ killing' = [killing EXCEPT !.i = Least(rest) + 1]
            /\ cur' = cur /\ pc' = pc /\ nxt' = nxt
  BY Zenon DEF KillStep
<1>2. CASE Reschedule(task, TRUE)
  <2>1. TableOK(task, next_pid - 1) /\ Tamed(task, task)
    BY SelfIs, TamedTwice, Zenon
  <2> QED BY <1>1, <1>2, <2>1, TameTrapOK, Zenon
<1>3. CASE /\ rest # {} /\ task' = task_signal_one(task, cur, Least(rest), killing.sig)
           /\ killing' = [killing EXCEPT !.i = Least(rest) + 1]
           /\ cur' = cur /\ pc' = pc /\ nxt' = nxt
  <2>1. rest \subseteq Slots
    BY SetsAre, Zenon DEF Targets
  <2>2. Slots \subseteq Nat
    BY SlotsAssumption DEF Slots
  <2>3. rest \subseteq Nat
    BY <2>1, <2>2, Zenon
  <2>4. Least(rest) \in rest
    BY <1>3, <2>3, LeastIs, Zenon
  <2> DEFINE v == Least(rest)
  <2>5. v \in Slots /\ v + 1 \in Nat
    <3>1. v \in Slots /\ v \in Nat
      BY <2>1, <2>3, <2>4, Zenon
    <3> HIDE DEF v
    <3> QED BY <3>1
  <2> HIDE DEF rest, v
  <2>6. killing \in KillLoop
    BY <1>1, Zenon DEF IInv, Processor
  <2>7. killing.sig \in Signals
    BY <2>6 DEF KillLoop
  <2>8. TableOK(task', next_pid - 1) /\ Tamed(task, task')
    BY <1>3, <2>5, <2>7, KillIs, Zenon DEF v
  <2>9. killing' \in KillLoop
    <3>1. killing' = [killing EXCEPT !.i = v + 1]
      BY <1>3, Zenon DEF v
    <3> QED BY <2>5, <2>6, <3>1 DEF KillLoop
  <2>10. "kill" # "deliver" /\ "kill" # "user"
    OBVIOUS
  <2>11. nxt = 0
    BY <1>1, <2>10, Zenon DEF IInv, Processor
  <2>12. Processor'
    BY <1>1, <1>3, <2>8, <2>9, <2>10, <2>11, Zenon DEF IInv, Processor, Tamed, Tame
  <2>13. IInv'
    BY <1>1, <2>8, <2>12, Zenon DEF IInv
  <2>14. \A i \in Slots : Mild(task[i], task'[i])
    BY <2>8, TameMild, Zenon DEF Tamed
  <2> QED BY <2>13, <2>14, MildSteps, Zenon DEF Good
<1> QED BY <1>1, <1>2, <1>3, Zenon

\* Changes of one task that is not blocked, which leave its signals pending.
LEMMA PutOK ==
    ASSUME NEW T, NEW b, TableOK(T, b), NEW v \in Slots, NEW u, Local(u), Soft(T[v], u)
    PROVE  LET U == Put(T, v, u) IN TableOK(U, b) /\ Tamed(T, U) /\ IsPut(T, v, u, U)
<1> DEFINE U == Put(T, v, u)
<1>1. TableOK(U, b) /\ IsPut(T, v, u, U)
  BY NudgeOK, PutIs, Zenon DEF Soft, TableOK
<1> HIDE DEF U
<1>2. Tamed(T, U)
  BY <1>1, SoftTwice, Zenon DEF Tamed, IsPut, Soft
<1> QED BY <1>1, <1>2 DEF U

Plain(t, u) ==
    /\ u.state = t.state /\ u.pid = t.pid /\ u.ppid = t.ppid /\ u.wait_kind = t.wait_kind
    /\ u.stop_report = t.stop_report /\ u.cont_report = t.cont_report
    /\ u.pending = t.pending /\ u.queue = t.queue

LEMMA PlainIs ==
    ASSUME NEW t, Local(t), t.state # "WAITING", NEW u, u \in TaskRecord, Plain(t, u),
           u.mask \intersect Unblockable = {}, u.saved_mask \intersect Unblockable = {},
           Framed(t, u)
    PROVE  Local(u) /\ Soft(t, u)
<1>1. SignalsOK(u) /\ CallOK(u)
  BY Zenon DEF Plain, Local, SignalsOK, CallOK
<1>2. Soft(t, u)
  BY Zenon DEF Plain, Soft, Nudged, Tame, Framed, Alive
<1> QED BY <1>1, <1>2, Zenon DEF Local

LEMMA MasksAre ==
    ASSUME NEW t, Local(t)
    PROVE  /\ t \in TaskRecord /\ t.mask \intersect Unblockable = {}
           /\ t.saved_mask \intersect Unblockable = {}
  BY Zenon DEF Local, SignalsOK

LEMMA CallsAre ==
    /\ NoCall \in Call /\ NoCall.op = "none"
  BY DEF NoCall, Call

LEMMA SigprocmaskStep ==
    ASSUME IInv, Sigprocmask PROVE Good
<1>1. PICK m \in calls.masks : Reschedule([task EXCEPT ![cur].mask = m \ Unblockable], FALSE)
  BY Zenon DEF Sigprocmask
<1> DEFINE t == task[cur]
           x == m \ Unblockable
           u == [t EXCEPT !.mask = x]
           U == Put(task, cur, u)
<1>2. Reschedule(U, FALSE) /\ next_pid' = next_pid /\ calls' = calls /\ pc = "user"
  BY <1>1, Zenon DEF Put, Sigprocmask, InUser
<1>3. x \in SUBSET Signals /\ x \intersect Unblockable = {}
  BY SelfIs DEF Repertoire
<1>4. /\ t \in TaskRecord /\ t.saved_mask \intersect Unblockable = {}
      /\ Local(t) /\ t.state # "WAITING"
  BY <1>2, SelfIs, MasksAre, Strings, Zenon
<1> HIDE DEF x, t
<1>5. u \in TaskRecord /\ Plain(t, u) /\ u.mask = x /\ u.saved_mask = t.saved_mask /\ Framed(t, u)
  BY <1>3, <1>4 DEF TaskRecord, Plain, Framed
<1> HIDE DEF u
<1>6. Local(u) /\ Soft(t, u)
  BY <1>3, <1>4, <1>5, PlainIs, Zenon
<1>7. TableOK(U, next_pid - 1) /\ Tamed(task, U)
  BY <1>6, SelfIs, PutOK, Zenon DEF t
<1> HIDE DEF U
<1> QED BY <1>2, <1>7, TameTrapOK, Zenon

LEMMA SigreturnStep ==
    ASSUME IInv, Sigreturn PROVE Good
<1> DEFINE t == task[cur]
           x == [t EXCEPT !.tf = t.saved_tf, !.mask = t.saved_mask]
           u == [x EXCEPT !.active = FALSE, !.saved_tf = NoCall, !.saved_mask = {}]
           U == Put(task, cur, u)
<1>1. Reschedule(U, FALSE) /\ next_pid' = next_pid /\ calls' = calls /\ pc = "user"
  BY Zenon DEF Put, Sigreturn, InUser, self
<1>2. /\ t \in TaskRecord /\ t.saved_mask \intersect Unblockable = {}
      /\ Local(t) /\ t.state # "WAITING"
  BY <1>1, SelfIs, MasksAre, Strings, Zenon
<1> HIDE DEF t
<1>3. /\ x \in TaskRecord /\ Plain(t, x) /\ x.mask = t.saved_mask
  BY <1>2, Zenon DEF TaskRecord, Plain
<1> HIDE DEF x
<1>4. /\ u \in TaskRecord /\ Plain(x, u) /\ u.mask = t.saved_mask /\ u.saved_mask = {}
      /\ u.active = FALSE
  BY <1>3, CallsAre, Zenon DEF TaskRecord, Plain
<1> HIDE DEF u
<1>5. Plain(t, u) /\ Framed(t, u) /\ u.mask \intersect Unblockable = {}
  BY <1>2, <1>3, <1>4, Zenon DEF Plain, Framed
<1>6. u.saved_mask \intersect Unblockable = {}
  BY <1>4
<1>7. Local(u) /\ Soft(t, u)
  BY <1>2, <1>4, <1>5, <1>6, PlainIs, Zenon
<1>8. TableOK(U, next_pid - 1) /\ Tamed(task, U)
  BY <1>7, SelfIs, PutOK, Zenon DEF t
<1> HIDE DEF U
<1> QED BY <1>1, <1>8, TameTrapOK, Zenon

LEMMA SetpgidStep ==
    ASSUME IInv, Setpgid PROVE Good
<1>1. PICK g \in calls.groups :
        LET v == IF g.pid = 0 THEN cur ELSE task_by_pid(task, g.pid)
            pgid == IF g.pgid = 0 THEN task[v].pid ELSE g.pgid
        IN v \in Live(task) /\ Reschedule([task EXCEPT ![v].pgid = pgid], FALSE)
  BY Zenon DEF Setpgid
<1> DEFINE v == IF g.pid = 0 THEN cur ELSE task_by_pid(task, g.pid)
           pgid == IF g.pgid = 0 THEN task[v].pid ELSE g.pgid
           t == task[v]
           u == [t EXCEPT !.pgid = pgid]
           U == Put(task, v, u)
<1>2. /\ v \in Live(task) /\ Reschedule(U, FALSE) /\ next_pid' = next_pid /\ calls' = calls
  BY <1>1, Zenon DEF Put, Setpgid
<1> HIDE DEF v
<1>3. v \in Slots
  BY <1>2, SetsAre, Zenon
<1>4. t \in TaskRecord /\ Local(t)
  BY <1>3, SelfIs, Zenon DEF Tab, Local
<1>5. pgid \in Int
  <2>1. g.pgid \in Int
    BY SelfIs DEF Repertoire
  <2>2. task[v].pid \in Int
    BY <1>4 DEF TaskRecord
  <2> QED BY <2>1, <2>2, Zenon
<1> HIDE DEF pgid, t
<1>6. /\ u \in TaskRecord /\ Plain(t, u) /\ Framed(t, u)
      /\ u.wait_pid = t.wait_pid /\ u.tf = t.tf /\ u.mask = t.mask /\ u.saved_mask = t.saved_mask
  BY <1>4, <1>5 DEF TaskRecord, Plain, Framed
<1> HIDE DEF u
<1>7. SignalsOK(u) /\ CallOK(u)
  BY <1>4, <1>6, Zenon DEF Plain, Local, SignalsOK, CallOK
<1>8. Soft(t, u)
  BY <1>6, Zenon DEF Plain, Soft, Nudged, Tame, Framed, Alive
<1>9. Local(u)
  BY <1>6, <1>7, Zenon DEF Local
<1>10. TableOK(U, next_pid - 1) /\ Tamed(task, U)
  BY <1>3, <1>8, <1>9, SelfIs, PutOK, Zenon DEF t
<1> HIDE DEF U
<1> QED BY <1>2, <1>10, TameTrapOK, Zenon

-----------------------------------------------------------------------------
\* Calls that return to the current task, or block it.

LEMMA ReturnedOK ==
    ASSUME NEW T, NEW b, TableOK(T, b), cur \in Slots, T[cur].state = "RUNNING"
    PROVE  LET U == Returned(T) IN TableOK(U, b) /\ Tamed(T, U) /\ Tidied(T, U)
<1> DEFINE t == T[cur]
           u == [t EXCEPT !.tf = NoCall]
           U == Put(T, cur, u)
<1>1. Returned(T) = U
  BY Zenon DEF Returned, Put
<1>2. /\ t \in TaskRecord /\ t.mask \intersect Unblockable = {}
      /\ t.saved_mask \intersect Unblockable = {} /\ Local(t) /\ t.state # "WAITING"
  BY MasksAre, Strings, Zenon DEF TableOK, Tab
<1> HIDE DEF t
<1>3. /\ u \in TaskRecord /\ Plain(t, u) /\ Framed(t, u) /\ u.act = t.act
      /\ u.mask = t.mask /\ u.saved_mask = t.saved_mask
  BY <1>2, CallsAre DEF TaskRecord, Plain, Framed
<1> HIDE DEF u
<1>4. Local(u) /\ Soft(t, u)
  BY <1>2, <1>3, PlainIs, Zenon
<1>5. TableOK(U, b) /\ Tamed(T, U) /\ IsPut(T, cur, u, U)
  BY <1>4, PutOK, Zenon DEF t
<1> HIDE DEF U
<1>6. Tidy(t, u)
  BY <1>3, Zenon DEF Plain, Tidy, InUse, EventOf
<1>7. Tidied(T, U)
  BY <1>5, <1>6, Zenon DEF Tidied, Tidy, IsPut, t
<1> QED BY <1>1, <1>5, <1>7, Zenon

\* The record of a task that blocks in a call.
Blocked(t, kind, call) ==
    [t EXCEPT !.state = "WAITING", !.wait_kind = kind, !.tf = call,
              !.wait_pid = IF kind = "CHILD" THEN call.pid ELSE @, !.wake = call.left]

IsBlocked(t, kind, call, u) ==
    /\ Local(u) /\ Tame(t, u) /\ u.state = "WAITING" /\ u.wait_kind = kind
    /\ u.pid = t.pid /\ u.ppid = t.ppid /\ u.tf = call /\ u.pending = t.pending
    /\ kind = "CHILD" => u.wait_pid = call.pid
    /\ InUse(u) /\ Alive(u) /\ EventOf(u) = EventOf(t)

LEMMA BlockedIs ==
    ASSUME NEW t, Local(t), t.state = "RUNNING", NEW kind \in {"CHILD", "SLEEP"},
           NEW call \in Call, call.op # "none"
    PROVE  IsBlocked(t, kind, call, Blocked(t, kind, call))
<1> DEFINE p == IF kind = "CHILD" THEN call.pid ELSE t.wait_pid
           x == [t EXCEPT !.state = "WAITING", !.wait_kind = kind]
           y == [x EXCEPT !.tf = call, !.wait_pid = p]
           u == [y EXCEPT !.wake = call.left]
<1>1. t \in TaskRecord
  BY Zenon DEF Local
<1>2. x.wait_pid = t.wait_pid
  BY <1>1 DEF TaskRecord
<1>3. u = Blocked(t, kind, call)
  <2>1. [x EXCEPT !.tf = call].wait_pid = t.wait_pid
    BY <1>1 DEF TaskRecord
  <2> QED BY <2>1 DEF Blocked
<1>4. x \in TaskRecord
  BY <1>1, StatesAre, Zenon DEF TaskRecord
<1>5. p \in Int /\ call.left \in Nat
  BY <1>1 DEF Call, TaskRecord
<1>6. /\ x.state = "WAITING" /\ x.wait_kind = kind /\ x.pid = t.pid /\ x.ppid = t.ppid
      /\ x.stop_report = t.stop_report /\ x.cont_report = t.cont_report
      /\ x.pending = t.pending /\ x.queue = t.queue /\ x.mask = t.mask
      /\ x.saved_mask = t.saved_mask /\ x.saved_tf = t.saved_tf /\ x.active = t.active
  BY <1>1 DEF TaskRecord
<1> HIDE DEF p, x
<1>7. y \in TaskRecord /\ Plain(x, y) /\ Framed(x, y) /\ y.tf = call /\ y.wait_pid = p
      /\ y.mask = x.mask /\ y.saved_mask = x.saved_mask /\ y.active = x.active
      /\ y.saved_tf = x.saved_tf
  BY <1>4, <1>5, Zenon DEF TaskRecord, Plain, Framed
<1> HIDE DEF y
<1>8. u \in TaskRecord /\ Plain(y, u) /\ Framed(y, u) /\ u.tf = call /\ u.wait_pid = p
      /\ u.mask = y.mask /\ u.saved_mask = y.saved_mask /\ u.active = y.active
      /\ u.saved_tf = y.saved_tf
  BY <1>5, <1>7, Zenon DEF TaskRecord, Plain, Framed
<1> HIDE DEF u
<1>9. /\ u.state = "WAITING" /\ u.wait_kind = kind /\ u.pid = t.pid /\ u.ppid = t.ppid
      /\ u.stop_report = t.stop_report /\ u.cont_report = t.cont_report
      /\ u.pending = t.pending /\ u.queue = t.queue /\ u.mask = t.mask
      /\ u.saved_mask = t.saved_mask /\ u.saved_tf = t.saved_tf /\ u.active = t.active
      /\ (kind = "CHILD" => u.wait_pid = call.pid)
  BY <1>6, <1>7, <1>8, Zenon DEF Plain, p
<1>10. SignalsOK(u) /\ CallOK(u)
  BY <1>8, <1>9, Strings, Zenon DEF Local, SignalsOK, CallOK
<1>11. Tame(t, u) /\ EventOf(u) = EventOf(t) /\ InUse(u) /\ Alive(u)
  BY <1>9, Strings, Zenon DEF Tame, EventOf, InUse, Alive
<1>12. IsBlocked(t, kind, call, u)
  BY <1>8, <1>9, <1>10, <1>11, Zenon DEF Local, IsBlocked
<1> QED BY <1>3, <1>12, Zenon DEF u, y, x, p

\* Blocking the current task keeps the table in order if, when it waits for any child
\* or for one pid, it has such a child and none of these has an event for it.
LEMMA BlockOK ==
    ASSUME IInv, pc = "user", NEW kind \in {"CHILD", "SLEEP"}, NEW call \in Call,
           call.op # "none",
           kind = "CHILD" /\ (call.pid = -1 \/ call.pid > 0) =>
             /\ Children(call) # {} /\ Waitable(call) = {}
    PROVE  LET U == Block(kind, call) IN TableOK(U, next_pid - 1) /\ Tamed(task, U)
<1> DEFINE t == task[cur]
           u == Blocked(t, kind, call)
           U == Put(task, cur, u)
           b == next_pid - 1
<1>1. Block(kind, call) = U
  BY Zenon DEF Block, Put, Blocked, self
<1>2. /\ TableOK(task, b) /\ cur \in Slots /\ Local(t) /\ t.state = "RUNNING" /\ InUse(t)
      /\ Alive(t)
  BY SelfIs, Zenon
<1>3. /\ Local(u) /\ Tame(t, u) /\ u.state = "WAITING" /\ u.wait_kind = kind
      /\ u.pid = t.pid /\ u.ppid = t.ppid /\ u.tf = call /\ u.pending = t.pending
      /\ kind = "CHILD" => u.wait_pid = call.pid
      /\ InUse(u) /\ Alive(u) /\ EventOf(u) = EventOf(t)
  <2>1. IsBlocked(t, kind, call, u)
    BY <1>2, BlockedIs, Zenon
  <2> QED BY <2>1, Zenon DEF IsBlocked
<1> HIDE DEF u, b
<1>4. IsPut(task, cur, u, U)
  BY <1>2, <1>3, PutIs, Zenon DEF TableOK
<1> HIDE DEF U
<1>5. Tamed(task, U)
  BY <1>3, <1>4, SoftTwice, Zenon DEF Tamed, IsPut
<1>6. SameKin(task, U)
  BY <1>2, <1>3, <1>4, Zenon DEF SameKin, IsPut
<1>7. Named(U, b) /\ Family(U)
  BY <1>2, <1>6, KinKeeps, Zenon DEF TableOK
<1>8. \A i \in Slots : Halted(U[i])
  BY <1>2, <1>3, <1>4, Strings, Zenon DEF TableOK, IsPut, Halted
<1>9. Waiters(U)
  <2> SUFFICES ASSUME NEW p \in Slots, Waits(U[p])
               PROVE  /\ \E c \in Slots : InUse(U[c]) /\ Awaits(U[p], U[c])
                      /\ \A c \in Slots : InUse(U[c]) /\ Awaits(U[p], U[c]) =>
                            Silent(U[p], U[c])
    BY Zenon DEF Waiters
  <2>1. \A c \in Slots : /\ U[c].pid = task[c].pid /\ U[c].ppid = task[c].ppid
                         /\ InUse(U[c]) <=> InUse(task[c])
                         /\ EventOf(U[c]) = EventOf(task[c])
    BY <1>2, <1>3, <1>4, Zenon DEF IsPut
  <2>2. CASE p # cur
    <3>1. U[p] = task[p]
      BY <1>4, <2>2, Zenon DEF IsPut
    <3>2. \A c \in Slots : /\ Awaits(U[p], U[c]) <=> Awaits(task[p], task[c])
                           /\ Silent(U[p], U[c]) <=> Silent(task[p], task[c])
      BY <2>1, <3>1, Zenon DEF Awaits, Silent
    <3>3. Waiters(task) /\ Waits(task[p])
      BY <1>2, <3>1, Zenon DEF TableOK
    <3> QED BY <2>1, <3>2, <3>3, Zenon DEF Waiters
  <2>3. CASE p = cur
    <3>1. U[p] = u /\ Waits(u)
      BY <1>4, <2>3, Zenon DEF IsPut
    <3>2. kind = "CHILD" /\ u.wait_pid = call.pid /\ (call.pid = -1 \/ call.pid > 0)
      BY <1>3, <3>1, Zenon DEF Waits
    <3>3. \A c : task_wait_matches_filter(task, cur, c, call.pid) <=> Awaits(u, task[c])
      <4>1. u.pid = task[cur].pid
        BY <1>3, Zenon
      <4> QED BY <3>2, <4>1 DEF task_wait_matches_filter, Awaits
    <3>4. \A c : c \in Children(call) <=> c \in Slots /\ InUse(task[c]) /\ Awaits(u, task[c])
      BY <3>3, SetsAre, Zenon DEF Children
    <3>5. Children(call) # {} /\ Waitable(call) = {}
      BY <3>2, Zenon
    <3>6. \A c \in Children(call) : Silent(u, task[c])
      <4>1. \A c \in Children(call) :
              ~(\/ EventOf(task[c]) = "EXIT"
                \/ EventOf(task[c]) = "STOP" /\ "UNTRACED" \in call.opts
                \/ EventOf(task[c]) = "CONT" /\ "CONTINUED" \in call.opts)
        BY <3>5, SetsAre, Zenon DEF Waitable
      <4> QED BY <1>3, <4>1, Zenon DEF Silent
    <3> QED BY <2>1, <3>1, <3>4, <3>5, <3>6, ZenonT(40) DEF Awaits, Silent
  <2> QED BY <2>2, <2>3
<1>10. TableOK(U, b)
  BY <1>4, <1>7, <1>8, <1>9, Zenon DEF TableOK, IsPut
<1> QED BY <1>1, <1>5, <1>10, Zenon DEF b

LEMMA SleepStep ==
    ASSUME IInv, Sleep PROVE Good
<1>1. PICK n \in calls.sleeps :
        Reschedule(Block("SLEEP", [NoCall EXCEPT !.op = "sleep", !.left = n]), TRUE)
  BY Zenon DEF Sleep
<1> DEFINE call == [NoCall EXCEPT !.op = "sleep", !.left = n]
           U == Block("SLEEP", call)
<1>2. n \in Nat
  BY SelfIs DEF Repertoire
<1>3. call \in Call /\ call.op # "none"
  BY <1>2, CallsAre, Zenon DEF Call
<1>4. Reschedule(U, TRUE) /\ next_pid' = next_pid /\ calls' = calls /\ pc = "user"
  BY <1>1, Zenon DEF Sleep, InUser
<1> HIDE DEF call
<1>5. TableOK(U, next_pid - 1) /\ Tamed(task, U)
  BY <1>3, <1>4, BlockOK, Strings, Zenon
<1> HIDE DEF U
<1> QED BY <1>4, <1>5, TameTrapOK, Zenon

-----------------------------------------------------------------------------
\* Steps that clear a SIGCHLD.

\* U is T with some pending signals of slot p cleared.
IsCleared(T, p, U) ==
    /\ Tab(U) /\ OnlySignals(T[p], U[p]) /\ U[p].pending \subseteq T[p].pending
    /\ \A i \in Slots : i # p => U[i] = T[i]

LEMMA ClearOK ==
    ASSUME NEW T, NEW b, TableOK(T, b), NEW p \in Slots, NEW sig
    PROVE  LET U == Put(T, p, task_signal_clear_pending(T[p], sig))
           IN IsCleared(T, p, U) /\ TableOK(U, b) /\ Tidied(T, U)
<1> DEFINE u == task_signal_clear_pending(T[p], sig)
           U == Put(T, p, u)
<1>1. Local(u) /\ OnlySignals(T[p], u) /\ u.pending = T[p].pending \ {sig}
  BY ClearedIs, Zenon DEF task_signal_clear_pending, TableOK, Tab
<1> HIDE DEF u
<1>2. Nudged(T[p], u)
  BY <1>1, Zenon DEF OnlySignals, Nudged
<1>3. IsPut(T, p, u, U) /\ TableOK(U, b)
  BY <1>1, <1>2, PutIs, NudgeOK, Zenon DEF TableOK
<1> HIDE DEF U
<1>4. IsCleared(T, p, U)
  BY <1>1, <1>3, Zenon DEF IsCleared, IsPut
<1>5. \A i \in Slots : OnlySignals(T[i], U[i])
  BY <1>1, <1>3, Zenon DEF IsPut, OnlySignals
<1>6. Tidied(T, U)
  BY <1>5, TidyIs, Zenon DEF Tidied
<1> QED BY <1>3, <1>4, <1>6 DEF U, u

\* A trap whose last change is to clear signals of the current task, and to return.
LEMMA ClearTrapOK ==
    ASSUME IInv, NEW C, Tamed(task, C), NEW D, IsCleared(C, cur, D),
           NEW X, TableOK(X, next_pid - 1), Tamed(D, X), Tidied(D, X),
           NEW force, Reschedule(X, force), next_pid' = next_pid, calls' = calls
    PROVE  /\ IInv' /\ FrameStep /\ Tidied(D, task')
           /\ \A i \in Slots : i # cur => Mild(task[i], task'[i])
<1>1. cur \in Slots
  BY SelfIs, Zenon
<1>2. \A i \in Slots : Tame(task[i], C[i]) /\ Tame(D[i], X[i]) /\ (i # cur => D[i] = C[i])
  BY Zenon DEF Tamed, IsCleared
<1>3. OnlySignals(C[cur], D[cur])
  BY Zenon DEF IsCleared
<1>4. Lone(X, cur)
  BY <1>2, LoneIs, Zenon DEF Lone, Tame
<1>5. IInv' /\ \A i \in Slots : Settled(X[i], task'[i]) /\ Tame(X[i], task'[i])
  BY <1>4, PlainTrapOK, Zenon
<1>6. \A i \in Slots : i # cur => Mild(task[i], task'[i])
  BY <1>2, <1>5, TameMild, Zenon
<1>7. \A i \in Slots : Framed(task[i], C[i]) /\ Framed(C[i], D[i]) /\ Framed(D[i], X[i]) /\ Framed(X[i], task'[i])
  BY <1>2, <1>3, <1>5, SoftTwice, TameMild, Zenon
<1>8. \A i \in Slots : Framed(task[i], task'[i])
  BY <1>7, TameMild, Zenon
<1>9. Tidied(X, task')
  BY <1>5, TidyIs, Zenon DEF Tidied, TableOK, Tab
<1>10. Tidied(D, task')
  BY <1>9, TidyIs, Zenon DEF Tidied
<1> QED BY <1>5, <1>6, <1>8, <1>10, FramedSteps, Zenon

\* DropStaleSigchld, which clears SIGCHLD only when no child has an event.
LEMMA DropTrapOK ==
    ASSUME IInv, NEW C, TableOK(C, next_pid - 1), Tamed(task, C),
           NEW X, TableOK(DropStaleSigchld(C, cur), next_pid - 1) =>
                    /\ TableOK(X, next_pid - 1) /\ Tamed(DropStaleSigchld(C, cur), X)
                    /\ Tidied(DropStaleSigchld(C, cur), X),
           NEW force, Reschedule(X, force), next_pid' = next_pid, calls' = calls
    PROVE  Good
<1> DEFINE D == DropStaleSigchld(C, cur)
           P == Put(C, cur, task_signal_clear_pending(C[cur], SIGCHLD))
<1>1. D = IF task_parent_has_child_sigchld_event(C, cur) THEN C ELSE P
  BY Zenon DEF DropStaleSigchld, Put
<1>2. cur \in Slots
  BY SelfIs, Zenon
<1>3. IsCleared(C, cur, P) /\ TableOK(P, next_pid - 1) /\ Tidied(C, P)
  BY <1>2, ClearOK, Zenon
<1> HIDE DEF D, P
<1>4. CASE task_parent_has_child_sigchld_event(C, cur)
  <2>1. D = C
    BY <1>1, <1>4, Zenon
  <2>2. TableOK(X, next_pid - 1) /\ Tamed(task, X)
    BY <2>1, TamedTwice, Zenon DEF D
  <2> QED BY <2>2, TameTrapOK, Zenon
<1>5. CASE ~task_parent_has_child_sigchld_event(C, cur)
  <2>1. D = P
    BY <1>1, <1>5, Zenon
  <2>2. IsCleared(C, cur, D) /\ TableOK(X, next_pid - 1) /\ Tamed(D, X) /\ Tidied(D, X) /\ Tidied(C, D)
    BY <1>3, <2>1, Zenon DEF D
  <2>3. /\ IInv' /\ FrameStep /\ Tidied(D, task')
        /\ \A i \in Slots : i # cur => Mild(task[i], task'[i])
    BY <2>2, ClearTrapOK, Zenon
  <2>4. Tidied(C, task')
    BY <2>2, <2>3, TidyIs, Zenon DEF Tidied
  <2>5. Alive(task'[cur]) => ~task_parent_has_child_sigchld_event(task', cur)
    BY <1>2, <1>5, <2>4, NoNewEvent, Zenon
  <2>6. \A i : i \in Live(task') <=> i \in Slots /\ Alive(task'[i])
    BY SetsAre, Zenon
  <2>7. SigchldStep
    BY <2>3, <2>5, <2>6, Zenon DEF SigchldStep, Mild
  <2> QED BY <2>3, <2>7, Zenon DEF Good
<1> QED BY <1>4, <1>5

-----------------------------------------------------------------------------
\* wait.

LEMMA CollectOK ==
    ASSUME IInv, pc = "user", NEW c \in Slots, InUse(task[c]), task[c].ppid = task[cur].pid
    PROVE  LET C == Collect(task, c)
           IN TableOK(C, next_pid - 1) /\ Tamed(task, C) /\ C[cur] = task[cur]
<1> DEFINE t == task[c]
           x == [t EXCEPT !.stop_report = FALSE]
           y == [t EXCEPT !.cont_report = FALSE]
           C == Collect(task, c)
<1>1. \/ t.state = "ZOMBIE" /\ C = task_reap_slot(task, c)
      \/ C = Put(task, c, x)
      \/ C = Put(task, c, y)
  <2>1. Event(task, c) = "EXIT" => t.state = "ZOMBIE"
    BY Strings, Zenon DEF Event
  <2>2. \/ Event(task, c) = "EXIT" /\ C = task_reap_slot(task, c)
        \/ C = Put(task, c, x)
        \/ C = Put(task, c, y)
    BY DEF Collect, Put
  <2> QED BY <2>1, <2>2, Zenon
<1>2. /\ TableOK(task, next_pid - 1) /\ cur \in Slots /\ Local(task[cur])
      /\ task[cur].state = "RUNNING" /\ InUse(task[cur])
  BY SelfIs, Zenon
<1>3. c # cur
  BY <1>2, Zenon DEF TableOK, Named, Distinguished
<1> HIDE DEF C
<1>4. ASSUME t.state = "ZOMBIE", C = task_reap_slot(task, c)
      PROVE  TableOK(C, next_pid - 1) /\ Tamed(task, C) /\ C[cur] = task[cur]
  <2>1. IsReap(task, C)
    BY <1>2, <1>4, ReapSlotIs, Zenon DEF TableOK
  <2>2. C[cur] = task[cur]
    BY <1>2, <2>1, Strings, Zenon DEF IsReap
  <2> QED BY <1>2, <2>1, <2>2, ReapOK, Zenon
<1>5. ASSUME NEW u, u \in TaskRecord, C = Put(task, c, u),
             u.state = t.state /\ u.pid = t.pid /\ u.ppid = t.ppid /\ u.wait_kind = t.wait_kind
               /\ u.wait_pid = t.wait_pid /\ u.tf = t.tf /\ u.pending = t.pending
               /\ u.queue = t.queue /\ u.mask = t.mask /\ u.saved_mask = t.saved_mask
               /\ u.saved_tf = t.saved_tf /\ u.active = t.active
      PROVE  TableOK(C, next_pid - 1) /\ Tamed(task, C) /\ C[cur] = task[cur]
  <2>1. Local(t)
    BY <1>2, Zenon DEF TableOK, Tab
  <2>2. Local(u)
    BY <1>5, <2>1, Zenon DEF Local, SignalsOK, CallOK
  <2>3. IsPut(task, c, u, C)
    BY <1>2, <1>5, <2>2, PutIs, Zenon DEF TableOK
  <2>4. Tame(t, u)
    BY <1>5, Zenon DEF Tame, Alive
  <2>5. Tamed(task, C)
    BY <2>3, <2>4, SoftTwice, Zenon DEF Tamed, IsPut
  <2>6. SameKin(task, C)
    BY <1>5, <2>3, Zenon DEF SameKin, IsPut, InUse, Alive
  <2>7. Named(C, next_pid - 1) /\ Family(C)
    BY <1>2, <2>6, KinKeeps, Zenon DEF TableOK
  <2>8. Watched(task, C, {c})
    <3> SUFFICES ASSUME NEW p \in Slots, Waits(C[p])
                 PROVE  /\ Waits(task[p]) /\ C[p].wait_pid = task[p].wait_pid
                        /\ C[p].tf.opts = task[p].tf.opts
                        /\ \A d \in Slots : d \in {c} => ~Awaits(C[p], C[d])
      BY Zenon DEF Watched
    <3>1. /\ Waits(task[p]) /\ C[p].wait_pid = task[p].wait_pid /\ C[p].tf.opts = task[p].tf.opts
          /\ C[p].pid = task[p].pid
      BY <1>5, <2>3, Zenon DEF IsPut, Waits
    <3>2. task[p].state = "WAITING" /\ p # cur /\ InUse(task[p])
      BY <1>2, <3>1, Strings, Zenon DEF Waits, InUse
    <3>3. task[p].pid # task[cur].pid
      BY <1>2, <3>2, Zenon DEF TableOK, Named
    <3>4. C[c].ppid = task[cur].pid
      BY <1>5, <2>3, Zenon DEF IsPut
    <3> QED BY <3>1, <3>3, <3>4, Zenon DEF Awaits
  <2>9. \A i \in Slots : i \notin {c} => EventOf(C[i]) = EventOf(task[i])
    BY <2>3, Zenon DEF IsPut
  <2>10. Waiters(C)
    BY <1>2, <2>6, <2>8, <2>9, WaitersKeep, Zenon DEF TableOK
  <2>11. \A i \in Slots : Halted(C[i])
    BY <1>2, <1>5, <2>3, ZenonT(40) DEF TableOK, IsPut, Halted
  <2>12. C[cur] = task[cur]
    BY <1>2, <1>3, <2>3, Zenon DEF IsPut
  <2> QED BY <2>3, <2>5, <2>7, <2>10, <2>11, <2>12, Zenon DEF TableOK, IsPut
<1>6. t \in TaskRecord
  BY <1>2, Zenon DEF TableOK, Tab, Local
<1> HIDE DEF t
<1>7. /\ x \in TaskRecord
      /\ x.state = t.state /\ x.pid = t.pid /\ x.ppid = t.ppid /\ x.wait_kind = t.wait_kind
      /\ x.wait_pid = t.wait_pid /\ x.tf = t.tf /\ x.pending = t.pending
      /\ x.queue = t.queue /\ x.mask = t.mask /\ x.saved_mask = t.saved_mask
      /\ x.saved_tf = t.saved_tf /\ x.active = t.active
  BY <1>6, Zenon DEF TaskRecord
<1>8. /\ y \in TaskRecord
      /\ y.state = t.state /\ y.pid = t.pid /\ y.ppid = t.ppid /\ y.wait_kind = t.wait_kind
      /\ y.wait_pid = t.wait_pid /\ y.tf = t.tf /\ y.pending = t.pending
      /\ y.queue = t.queue /\ y.mask = t.mask /\ y.saved_mask = t.saved_mask
      /\ y.saved_tf = t.saved_tf /\ y.active = t.active
  BY <1>6, Zenon DEF TaskRecord
<1> HIDE DEF x, y
<1>9. TableOK(C, next_pid - 1) /\ Tamed(task, C) /\ C[cur] = task[cur]
  BY <1>1, <1>4, <1>5, <1>7, <1>8, Zenon
<1> QED BY <1>9 DEF C

LEMMA DropRuns ==
    ASSUME NEW C, NEW b, TableOK(C, b), cur \in Slots, C[cur].state = "RUNNING"
    PROVE  DropStaleSigchld(C, cur)[cur].state = "RUNNING"
<1> DEFINE P == Put(C, cur, task_signal_clear_pending(C[cur], SIGCHLD))
<1>1. IsCleared(C, cur, P)
  BY ClearOK, Zenon
<1>2. DropStaleSigchld(C, cur) = C \/ DropStaleSigchld(C, cur) = P
  BY Zenon DEF DropStaleSigchld, Put
<1> HIDE DEF P
<1> QED BY <1>1, <1>2, Zenon DEF IsCleared, OnlySignals

LEMMA TaskWaitOK ==
    ASSUME IInv, pc = "user", NEW call \in Call, call.op = "wait",
           call \in {self.tf} \union
             {[op |-> "wait", pid |-> w.pid, opts |-> w.opts, left |-> 0] : w \in calls.waits},
           task_wait(call), next_pid' = next_pid, calls' = calls
    PROVE  Good
<1> DEFINE c == Least(Waitable(call))
           C == Collect(task, c)
           D == DropStaleSigchld(C, cur)
           P == Put(task, cur, task_signal_clear_pending(task[cur], SIGCHLD))
           B == Block("CHILD", call)
<1>1. \/ Waitable(call) # {} /\ Reschedule(Returned(D), FALSE)
      \/ Children(call) = {} /\ Reschedule(Returned(P), FALSE)
      \/ Reschedule(Returned(task), FALSE)
      \/ Waitable(call) = {} /\ Children(call) # {} /\ Reschedule(B, TRUE)
  BY Zenon DEF task_wait, AfterCollect, Put, self
<1>2. /\ TableOK(task, next_pid - 1) /\ cur \in Slots /\ task[cur].state = "RUNNING"
  BY SelfIs, Zenon
<1>3. CASE Waitable(call) # {} /\ Reschedule(Returned(D), FALSE)
  <2>1. Waitable(call) \subseteq Nat
    <3>1. Slots \subseteq Nat
      BY SlotsAssumption DEF Slots
    <3>2. Waitable(call) \subseteq Slots
      BY SetsAre, Zenon DEF Waitable, Children
    <3> QED BY <3>1, <3>2, Zenon
  <2>2. c \in Waitable(call)
    BY <1>3, <2>1, LeastIs, Zenon
  <2> HIDE DEF c
  <2>3. c \in Slots /\ InUse(task[c]) /\ task[c].ppid = task[cur].pid
    BY <2>2, SetsAre, Zenon DEF Waitable, Children, task_wait_matches_filter
  <2>4. TableOK(C, next_pid - 1) /\ Tamed(task, C) /\ C[cur] = task[cur]
    BY <2>3, CollectOK, Zenon
  <2> HIDE DEF C
  <2>5. D[cur].state = "RUNNING"
    BY <1>2, <2>4, DropRuns, Zenon
  <2> DEFINE X == Returned(D)
  <2>6. TableOK(D, next_pid - 1) =>
          TableOK(X, next_pid - 1) /\ Tamed(D, X) /\ Tidied(D, X)
    BY <1>2, <2>5, ReturnedOK, Zenon
  <2>7. Reschedule(X, FALSE)
    BY <1>3, Zenon
  <2> HIDE DEF X
  <2> QED BY <2>4, <2>6, <2>7, DropTrapOK, Zenon
<1>4. CASE Children(call) = {} /\ Reschedule(Returned(P), FALSE)
  <2>1. IsCleared(task, cur, P) /\ TableOK(P, next_pid - 1)
    BY <1>2, ClearOK, Zenon
  <2> HIDE DEF P
  <2>2. P[cur].state = "RUNNING"
    BY <1>2, <2>1, Zenon DEF IsCleared, OnlySignals
  <2> DEFINE X == Returned(P)
  <2>3. TableOK(X, next_pid - 1) /\ Tamed(P, X) /\ Tidied(P, X)
    BY <1>2, <2>1, <2>2, ReturnedOK, Zenon
  <2>4. Reschedule(X, FALSE)
    BY <1>4, Zenon
  <2> HIDE DEF X
  <2>5. Tamed(task, task)
    BY TamedTwice, Zenon
  <2>6. IInv' /\ FrameStep /\ \A i \in Slots : i # cur => Mild(task[i], task'[i])
    BY <2>1, <2>3, <2>4, <2>5, ClearTrapOK, Zenon
  <2>7. WaitForNoChild
    BY <1>4, Zenon DEF WaitForNoChild
  <2>8. SigchldStep
    BY <2>6, <2>7, SetsAre, Zenon DEF SigchldStep, Mild
  <2> QED BY <2>6, <2>8, Zenon DEF Good
<1>5. CASE Reschedule(Returned(task), FALSE)
  <2> DEFINE X == Returned(task)
  <2>1. TableOK(X, next_pid - 1) /\ Tamed(task, X) /\ Reschedule(X, FALSE)
    BY <1>2, <1>5, ReturnedOK, Zenon
  <2> HIDE DEF X
  <2> QED BY <2>1, TameTrapOK, Zenon
<1>6. CASE Waitable(call) = {} /\ Children(call) # {} /\ Reschedule(B, TRUE)
  <2>1. TableOK(B, next_pid - 1) /\ Tamed(task, B)
    BY <1>6, BlockOK, Strings, Zenon
  <2> HIDE DEF B
  <2> QED BY <1>6, <2>1, TameTrapOK, Zenon
<1> QED BY <1>1, <1>3, <1>4, <1>5, <1>6, Zenon

LEMMA WaitStep ==
    ASSUME IInv, Wait PROVE Good
<1>1. PICK w \in calls.waits :
        task_wait([op |-> "wait", pid |-> w.pid, opts |-> w.opts, left |-> 0])
  BY Zenon DEF Wait
<1> DEFINE call == [op |-> "wait", pid |-> w.pid, opts |-> w.opts, left |-> 0]
<1>2. w.pid \in Int /\ w.opts \subseteq Options
  BY SelfIs DEF Repertoire
<1>3. call \in Call /\ call.op = "wait"
  BY <1>2 DEF Call
<1>4. call \in {self.tf} \union
        {[op |-> "wait", pid |-> v.pid, opts |-> v.opts, left |-> 0] : v \in calls.waits}
  BY Zenon
<1>5. task_wait(call) /\ next_pid' = next_pid /\ calls' = calls /\ pc = "user"
  BY <1>1, Zenon DEF Wait, InUser
<1> HIDE DEF call
<1> QED BY <1>3, <1>4, <1>5, TaskWaitOK, Zenon

LEMMA RetryStep ==
    ASSUME IInv, Retry PROVE Good
<1> DEFINE call == self.tf
<1>1. /\ pc = "user" /\ next_pid' = next_pid /\ calls' = calls
      /\ \/ call.op = "wait" /\ task_wait(call)
         \/ Reschedule(Returned(task), FALSE)
  BY Zenon DEF Retry
<1>2. CASE call.op = "wait" /\ task_wait(call)
  <2>1. call \in Call
    BY SelfIs DEF Local, TaskRecord, self
  <2>2. call \in {self.tf} \union
          {[op |-> "wait", pid |-> v.pid, opts |-> v.opts, left |-> 0] : v \in calls.waits}
    BY Zenon
  <2> HIDE DEF call
  <2> QED BY <1>1, <1>2, <2>1, <2>2, TaskWaitOK, Zenon
<1>3. CASE Reschedule(Returned(task), FALSE)
  <2> DEFINE X == Returned(task)
  <2>1. TableOK(X, next_pid - 1) /\ Tamed(task, X)
    BY <1>1, SelfIs, ReturnedOK, Zenon
  <2>2. Reschedule(X, FALSE)
    BY <1>3, Zenon
  <2> HIDE DEF X
  <2> QED BY <1>1, <2>1, <2>2, TameTrapOK, Zenon
<1> QED BY <1>1, <1>2, <1>3, Zenon

-----------------------------------------------------------------------------
\* sigaction and exec.

LEMMA ReapChildrenIs ==
    ASSUME NEW T, Tab(T), NEW p
    PROVE  IsReap(T, task_reap_sigchld_zombies(T, p))
<1> DEFINE Dropped(i) == T[i].state = "ZOMBIE" /\ T[i].ppid = T[p].pid
           R == [i \in Slots |-> IF Dropped(i) THEN Unused ELSE T[i]]
<1>1. task_reap_sigchld_zombies(T, p) = T \/ task_reap_sigchld_zombies(T, p) = R
  BY Zenon DEF task_reap_sigchld_zombies
<1>2. IsReap(T, T)
  BY Zenon DEF IsReap, Tab
<1>3. IsReap(T, R)
  <2>1. \A i \in Slots : R[i] = IF Dropped(i) THEN Unused ELSE T[i]
    BY Zenon
  <2>2. \A i \in Slots : T[i] \in TaskRecord /\ Unused \in TaskRecord
    BY UnusedIs, Zenon DEF Tab, Local
  <2>3. R \in [Slots -> TaskRecord]
    BY <2>2, Zenon
  <2> QED BY <2>1, <2>3, Zenon DEF IsReap
<1> QED BY <1>1, <1>2, <1>3, Zenon

LEMMA SigactionStep ==
    ASSUME IInv, Sigaction PROVE Good
<1>1. PICK a \in calls.actions :
        LET set == [task EXCEPT ![cur].act[a.sig] = a.act]
        IN Reschedule(IF a.sig = SIGCHLD
                      THEN DropStaleSigchld(task_reap_sigchld_zombies(set, cur), cur)
                      ELSE set, FALSE)
  BY Zenon DEF Sigaction
<1> DEFINE t == task[cur]
           f == [t.act EXCEPT ![a.sig] = a.act]
           u == [t EXCEPT !.act = f]
           U == Put(task, cur, u)
           C == task_reap_sigchld_zombies(U, cur)
           X == DropStaleSigchld(C, cur)
<1>2. U = [task EXCEPT ![cur].act[a.sig] = a.act]
  BY Zenon DEF Put
<1>3. /\ next_pid' = next_pid /\ calls' = calls /\ pc = "user"
      /\ Reschedule(X, FALSE) \/ Reschedule(U, FALSE)
  BY <1>1, <1>2, Zenon DEF Sigaction, InUser
<1>4. a.sig \in Signals /\ a.act \in Action
  BY SelfIs DEF Repertoire
<1>5. /\ t \in TaskRecord /\ t.mask \intersect Unblockable = {}
      /\ t.saved_mask \intersect Unblockable = {} /\ Local(t) /\ t.state # "WAITING"
  BY <1>3, SelfIs, MasksAre, Strings, Zenon
<1> HIDE DEF t
<1>6. f \in [Signals -> Action]
  <2>1. t.act \in [Signals -> Action]
    BY <1>5 DEF TaskRecord
  <2> QED BY <1>4, <2>1, Zenon
<1> HIDE DEF f
<1>7. /\ u \in TaskRecord /\ Plain(t, u) /\ Framed(t, u)
      /\ u.mask = t.mask /\ u.saved_mask = t.saved_mask
  BY <1>5, <1>6, Zenon DEF TaskRecord, Plain, Framed
<1> HIDE DEF u
<1>8. Local(u) /\ Soft(t, u)
  BY <1>5, <1>7, PlainIs, Zenon
<1>9. TableOK(U, next_pid - 1) /\ Tamed(task, U)
  BY <1>8, SelfIs, PutOK, Zenon DEF t
<1> HIDE DEF U
<1>10. CASE Reschedule(U, FALSE)
  BY <1>3, <1>9, <1>10, TameTrapOK, Zenon
<1>11. CASE Reschedule(X, FALSE)
  <2>1. IsReap(U, C)
    BY <1>9, ReapChildrenIs, Zenon DEF TableOK
  <2>2. TableOK(C, next_pid - 1) /\ Tamed(U, C)
    BY <1>9, <2>1, ReapOK, Zenon
  <2>3. Tamed(task, C)
    BY <1>9, <2>2, TamedTwice, Zenon
  <2> HIDE DEF C
  <2>4. Tamed(X, X) /\ Tidied(X, X)
    BY TamedTwice, Zenon DEF Tidied, Tidy
  <2> QED BY <1>3, <1>11, <2>2, <2>3, <2>4, DropTrapOK, Zenon
<1> QED BY <1>3, <1>10, <1>11, Zenon

\* The record of a task after exec.
Fresh(t) == [task_reset_signal_state_for_exec(t) EXCEPT !.saved_tf = NoCall]

LEMMA FreshIs ==
    ASSUME NEW t, Local(t), t.state = "RUNNING"
    PROVE  Local(Fresh(t)) /\ Nudged(t, Fresh(t)) /\ Fresh(t).state = "RUNNING" /\ ~Fresh(t).active
<1> DEFINE g == [s \in Signals |-> IF t.act[s].handler = "SIG_IGN"
                                   THEN [DefaultAction EXCEPT !.handler = "SIG_IGN"]
                                   ELSE DefaultAction]
           m == t.mask \ Unblockable
           x == [t EXCEPT !.pending = {}, !.queue = << >>]
           y == [x EXCEPT !.active = FALSE, !.saved_mask = {}]
           z == [y EXCEPT !.act = g, !.mask = m]
           u == [z EXCEPT !.saved_tf = NoCall]
<1>1. u = Fresh(t)
  BY Zenon DEF Fresh, task_reset_signal_state_for_exec
<1>2. t \in TaskRecord
  BY Zenon DEF Local
<1>3. g \in [Signals -> Action]
  <2>1. DefaultAction \in Action
    BY DEF DefaultAction, Action, Handlers
  <2>2. [DefaultAction EXCEPT !.handler = "SIG_IGN"] \in Action
    <3>1. "SIG_IGN" \in Handlers
      BY DEF Handlers
    <3> QED BY <2>1, <3>1 DEF Action
  <2> QED BY <2>1, <2>2, Zenon
<1>4. m \in SUBSET Signals /\ m \intersect Unblockable = {}
  BY <1>2 DEF TaskRecord
<1>5. << >> \in Seq(Signals)
  OBVIOUS
<1> HIDE DEF g, m
<1>6. /\ x \in TaskRecord /\ x.pending = {} /\ x.queue = << >> /\ x.state = t.state
      /\ x.pid = t.pid /\ x.ppid = t.ppid /\ x.wait_kind = t.wait_kind
      /\ x.stop_report = t.stop_report /\ x.cont_report = t.cont_report
  BY <1>2, <1>5, Zenon DEF TaskRecord
<1> HIDE DEF x
<1>7. y \in TaskRecord /\ Plain(x, y) /\ y.saved_mask = {} /\ y.active = FALSE
  BY <1>6, Zenon DEF TaskRecord, Plain
<1> HIDE DEF y
<1>8. /\ z \in TaskRecord /\ Plain(y, z) /\ z.saved_mask = y.saved_mask
      /\ z.active = y.active /\ z.mask = m
  BY <1>3, <1>4, <1>7, Zenon DEF TaskRecord, Plain
<1> HIDE DEF z
<1>9. /\ u \in TaskRecord /\ Plain(z, u) /\ u.saved_mask = z.saved_mask
      /\ u.active = z.active /\ u.mask = z.mask
  BY <1>8, CallsAre DEF TaskRecord, Plain
<1> HIDE DEF u
<1>10. /\ u.pending = {} /\ u.queue = << >> /\ u.state = t.state
       /\ u.pid = t.pid /\ u.ppid = t.ppid /\ u.wait_kind = t.wait_kind
       /\ u.stop_report = t.stop_report /\ u.cont_report = t.cont_report
       /\ u.mask = m /\ u.saved_mask = {} /\ u.active = FALSE
  BY <1>6, <1>7, <1>8, <1>9, Zenon DEF Plain
<1>11. SignalsOK(u)
  BY <1>4, <1>10, EmptyQueue DEF SignalsOK
<1>12. CallOK(u)
  BY <1>10, Strings, Zenon DEF Local, CallOK
<1>13. Nudged(t, u)
  BY <1>10, Strings, Zenon DEF Nudged
<1>14. Local(u) /\ Nudged(t, u) /\ u.state = "RUNNING" /\ ~u.active
  BY <1>9, <1>10, <1>11, <1>12, <1>13, Zenon DEF Local
<1> QED BY <1>1, <1>14, Zenon DEF u, z, y, x, m, g

LEMMA ExecStep ==
    ASSUME IInv, Exec PROVE Good
<1> DEFINE t == task[cur]
           u == Fresh(t)
           U == Put(task, cur, u)
<1>1. Reschedule(U, FALSE) /\ next_pid' = next_pid /\ calls' = calls /\ pc = "user"
  BY Zenon DEF Exec, Put, Fresh, InUser, self
<1>2. TableOK(task, next_pid - 1) /\ cur \in Slots /\ Local(t) /\ t.state = "RUNNING"
  BY <1>1, SelfIs, Zenon
<1>3. Local(u) /\ Nudged(t, u) /\ u.state = "RUNNING" /\ ~u.active
  BY <1>2, FreshIs, Zenon
<1> HIDE DEF u
<1>4. TableOK(U, next_pid - 1) /\ IsPut(task, cur, u, U)
  BY <1>2, <1>3, NudgeOK, PutIs, Zenon DEF TableOK
<1> HIDE DEF U
<1>5. Lone(U, cur)
  BY <1>4, LoneIs, Zenon DEF Lone, IsPut
<1>6. IInv' /\ \A i \in Slots : Tame(U[i], task'[i])
  BY <1>1, <1>4, <1>5, PlainTrapOK, Zenon
<1>7. \A i \in Slots : i # cur => Mild(task[i], task'[i])
  BY <1>4, <1>6, TameMild, Zenon DEF IsPut
<1>8. Framed(task[cur], task'[cur])
  <2>1. Framed(task[cur], u)
    BY <1>3, Zenon DEF Framed
  <2> QED BY <1>2, <1>4, <1>6, <2>1, TameMild, Zenon DEF IsPut
<1>9. FrameStep
  BY <1>7, <1>8, FramedSteps, Zenon DEF Mild
<1>10. SigchldStep
  BY <1>7, SetsAre, Zenon DEF SigchldStep, Mild
<1> QED BY <1>6, <1>9, <1>10, Zenon DEF Good

-----------------------------------------------------------------------------
\* fork.

Newborn(t, pid) ==
    [Unused EXCEPT !.state = "RUNNABLE", !.pid = pid, !.ppid = t.pid, !.pgid = t.pgid,
                   !.mask = t.mask \ Unblockable, !.act = t.act]

LEMMA NewbornIs ==
    ASSUME NEW t, Local(t), NEW pid \in Nat
    PROVE  LET u == Newborn(t, pid)
           IN /\ Local(u) /\ u.state = "RUNNABLE" /\ u.pid = pid /\ u.ppid = t.pid
              /\ u.pending = {} /\ u.active = FALSE
<1> DEFINE m == t.mask \ Unblockable
           x == [Unused EXCEPT !.state = "RUNNABLE", !.pid = pid]
           y == [x EXCEPT !.ppid = t.pid, !.pgid = t.pgid]
           u == [y EXCEPT !.mask = m, !.act = t.act]
<1>1. u = Newborn(t, pid)
  BY Zenon DEF Newborn
<1>2. t \in TaskRecord /\ Unused \in TaskRecord
  BY UnusedIs, Zenon DEF Local
<1>3. m \in SUBSET Signals /\ m \intersect Unblockable = {}
  BY <1>2 DEF TaskRecord
<1>4. /\ Unused.pending = {} /\ Unused.queue = << >> /\ Unused.active = FALSE
      /\ Unused.wait_kind = "NONE" /\ Unused.saved_mask = {} /\ Unused.cont_report = FALSE
  BY DEF Unused
<1> HIDE DEF m
<1>5. /\ x \in TaskRecord /\ x.state = "RUNNABLE" /\ x.pid = pid
      /\ x.pending = Unused.pending /\ x.queue = Unused.queue /\ x.active = Unused.active
      /\ x.wait_kind = Unused.wait_kind /\ x.saved_mask = Unused.saved_mask
      /\ x.cont_report = Unused.cont_report
  BY <1>2, StatesAre, Zenon DEF TaskRecord
<1> HIDE DEF x
<1>6. t.pid \in Int /\ t.pgid \in Int /\ t.act \in [Signals -> Action]
  BY <1>2 DEF TaskRecord
<1>7. /\ y \in TaskRecord /\ y.state = x.state /\ y.pid = x.pid /\ y.ppid = t.pid
      /\ y.pending = x.pending /\ y.queue = x.queue /\ y.active = x.active
      /\ y.wait_kind = x.wait_kind /\ y.saved_mask = x.saved_mask
      /\ y.cont_report = x.cont_report
  BY <1>5, <1>6, Zenon DEF TaskRecord
<1> HIDE DEF y
<1>8. /\ u \in TaskRecord /\ u.state = y.state /\ u.pid = y.pid /\ u.ppid = y.ppid
      /\ u.pending = y.pending /\ u.queue = y.queue /\ u.active = y.active
      /\ u.wait_kind = y.wait_kind /\ u.saved_mask = y.saved_mask /\ u.mask = m
      /\ u.cont_report = y.cont_report
  BY <1>3, <1>6, <1>7, Zenon DEF TaskRecord
<1> HIDE DEF u
<1>9. /\ u.state = "RUNNABLE" /\ u.pid = pid /\ u.ppid = t.pid /\ u.pending = {} /\ u.queue = << >>
      /\ u.active = FALSE /\ u.wait_kind = "NONE" /\ u.saved_mask = {} /\ u.mask = m
      /\ u.cont_report = FALSE
  BY <1>4, <1>5, <1>7, <1>8, Zenon
<1>10. SignalsOK(u)
  BY <1>3, <1>9, EmptyQueue DEF SignalsOK
<1>11. CallOK(u)
  BY <1>9, Strings, Zenon DEF CallOK
<1>12. Local(u)
  BY <1>8, <1>10, <1>11, Zenon DEF Local
<1> QED BY <1>1, <1>9, <1>12, Zenon DEF u, y, x, m

LEMMA ForkTable ==
    ASSUME NEW T, NEW b, TableOK(T, b), NEW v \in Slots, NEW i \in Slots,
           T[v].state = "RUNNING", ~InUse(T[i]),
           NEW u, Local(u), u.state = "RUNNABLE", u.pid = b + 1, u.ppid = T[v].pid, u.pending = {},
           NEW U, IsPut(T, i, u, U)
    PROVE  TableOK(U, b + 1)
<1>1. b \in Nat \ {0} /\ b + 1 \in Nat \ {0}
  <2>1. b \in Nat \ {0}
    BY Zenon DEF TableOK, Named
  <2> QED BY <2>1
<1>2. InUse(T[v]) /\ Alive(T[v]) /\ InUse(u) /\ Alive(u) /\ v # i
  BY Strings, Zenon DEF InUse, Alive
<1>3. U[i] = u /\ \A j \in Slots : j # i => U[j] = T[j]
  BY Zenon DEF IsPut
<1>4. \A j \in Slots : T[j].pid \in 0 .. b /\ T[j].ppid \in -1 .. b
  BY Zenon DEF TableOK, Named
<1>5. Named(U, b + 1)
  <2>1. ASSUME NEW j \in Slots PROVE U[j].pid \in 0 .. b + 1 /\ U[j].ppid \in -1 .. b + 1
    <3>1. CASE j # i
      <4>1. T[j].pid \in 0 .. b /\ T[j].ppid \in -1 .. b /\ U[j] = T[j]
        BY <1>3, <1>4, <3>1, Zenon
      <4> QED BY <1>1, <4>1
    <3>2. CASE j = i
      <4>1. T[v].pid \in 0 .. b /\ U[j].pid = b + 1 /\ U[j].ppid = T[v].pid
        BY <1>3, <1>4, <3>2, Zenon
      <4> QED BY <1>1, <4>1
    <3> QED BY <3>1, <3>2
  <2>2. ASSUME NEW j \in Slots, InUse(U[j]) PROVE Distinguished(U[j])
    <3>1. CASE j # i
      BY <1>3, <2>2, <3>1, Zenon DEF TableOK, Named
    <3>2. CASE j = i
      <4>1. T[v].pid \in 0 .. b /\ U[j].pid = b + 1 /\ U[j].ppid = T[v].pid
        BY <1>3, <1>4, <3>2, Zenon
      <4>2. U[j].pid >= 1 /\ U[j].pid # 1 /\ U[j].ppid # U[j].pid
        BY <1>1, <4>1
      <4> QED BY <4>2, Zenon DEF Distinguished, InitPid
    <3> QED BY <3>1, <3>2
  <2>3. ASSUME NEW j \in Slots, NEW k \in Slots, InUse(U[j]), InUse(U[k]), U[j].pid = U[k].pid
        PROVE  j = k
    <3>1. \A l \in Slots : T[l].pid # b + 1
      BY <1>1, <1>4
    <3>2. CASE j # i /\ k # i
      BY <1>3, <2>3, <3>2, Zenon DEF TableOK, Named
    <3>3. CASE j = i \/ k = i
      BY <1>3, <2>3, <3>1, <3>3, Zenon
    <3> QED BY <3>2, <3>3
  <2> QED BY <1>1, <2>1, <2>2, <2>3, Zenon DEF Named
<1>6. Family(U)
  <2>1. \A p \in Slots : Alive(T[p]) => U[p] = T[p]
    BY <1>3, Zenon DEF Alive, InUse
  <2> SUFFICES ASSUME NEW c \in Slots, InUse(U[c]), U[c].ppid > 0
               PROVE  \E p \in Slots : Alive(U[p]) /\ U[p].pid = U[c].ppid
    BY Zenon DEF Family
  <2>2. CASE c # i
    <3>1. U[c] = T[c]
      BY <1>3, <2>2, Zenon
    <3>2. PICK p \in Slots : Alive(T[p]) /\ T[p].pid = T[c].ppid
      BY <3>1, Zenon DEF TableOK, Family
    <3> QED BY <2>1, <3>1, <3>2, Zenon
  <2>3. CASE c = i
    BY <1>2, <1>3, <2>1, <2>3, Zenon
  <2> QED BY <2>2, <2>3
<1>7. Waiters(U)
  <2> SUFFICES ASSUME NEW p \in Slots, Waits(U[p])
               PROVE  /\ \E c \in Slots : InUse(U[c]) /\ Awaits(U[p], U[c])
                      /\ \A c \in Slots : InUse(U[c]) /\ Awaits(U[p], U[c]) =>
                            Silent(U[p], U[c])
    BY Zenon DEF Waiters
  <2>1. p # i /\ U[p] = T[p] /\ Waits(T[p]) /\ p # v
    BY <1>3, Strings, Zenon DEF Waits
  <2>2. T[p].pid # T[v].pid
    BY <1>2, <2>1, Strings, Zenon DEF TableOK, Named, Waits, InUse
  <2>3. ~Awaits(U[p], U[i])
    BY <1>3, <2>1, <2>2, Zenon DEF Awaits
  <2>4. PICK c \in Slots : InUse(T[c]) /\ Awaits(T[p], T[c])
    BY <2>1, Zenon DEF TableOK, Waiters
  <2>5. U[c] = T[c]
    BY <1>3, <2>4, Zenon
  <2>6. ASSUME NEW d \in Slots, InUse(U[d]), Awaits(U[p], U[d]) PROVE Silent(U[p], U[d])
    <3>1. U[d] = T[d]
      BY <1>3, <2>3, <2>6, Zenon
    <3> QED BY <2>1, <2>6, <3>1, Zenon DEF TableOK, Waiters
  <2> QED BY <2>1, <2>4, <2>5, <2>6, Zenon
<1>8. \A j \in Slots : Halted(U[j])
  BY <1>3, Zenon DEF TableOK, Halted
<1> QED BY <1>5, <1>6, <1>7, <1>8, Zenon DEF TableOK, IsPut

LEMMA ForkStep ==
    ASSUME IInv, Fork PROVE Good
<1> DEFINE u == Newborn(task[cur], next_pid)
           b == next_pid - 1
<1> HIDE DEF b
<1>1. PICK i \in Slots \ Used(task) : Reschedule(Put(task, i, u), FALSE)
  BY Zenon DEF Fork, Put, Newborn, self
<1>2. next_pid <= calls.pids /\ next_pid' = next_pid + 1 /\ calls' = calls /\ pc = "user"
  BY Zenon DEF Fork, InUser
<1>3. /\ TableOK(task, b) /\ Tab(task) /\ cur \in Slots /\ Local(task[cur])
      /\ task[cur].state = "RUNNING" /\ calls \in Repertoire
  BY <1>2, SelfIs, Zenon DEF b
<1>4. next_pid \in Nat /\ next_pid >= 2 /\ calls.pids \in Nat
  <2>1. next_pid \in Nat /\ next_pid >= 2
    BY Zenon DEF IInv, Processor
  <2> QED BY <1>3, <2>1 DEF Repertoire
<1>5. b + 1 = next_pid
  BY <1>4 DEF b
<1>6. i \in Slots /\ ~InUse(task[i])
  BY SetsAre, Zenon
<1>7. /\ Local(u) /\ u.state = "RUNNABLE" /\ u.pid = next_pid /\ u.ppid = task[cur].pid
      /\ u.pending = {} /\ u.active = FALSE
  BY <1>3, <1>4, NewbornIs, ZenonT(40)
<1> HIDE DEF u
<1>8. IsPut(task, i, u, Put(task, i, u))
  BY <1>3, <1>6, <1>7, PutIs, Zenon
<1> DEFINE U == Put(task, i, u)
<1> HIDE DEF U
<1>9. IsPut(task, i, u, U) /\ Reschedule(U, FALSE)
  BY <1>1, <1>8, Zenon DEF U
<1>10. TableOK(U, b + 1)
  <2>1. u.pid = b + 1
    BY <1>5, <1>7, Zenon
  <2> QED BY <1>3, <1>6, <1>7, <1>9, <2>1, ForkTable, Zenon
<1>11. Lone(U, cur)
  BY <1>7, <1>9, LoneIs, Strings, Zenon DEF Lone, IsPut
<1>12. TableOK(U, next_pid)
  BY <1>5, <1>10, Zenon
<1>13. next_pid + 1 \in Nat /\ next_pid + 1 >= 2 /\ next_pid + 1 <= calls.pids + 1
  BY <1>2, <1>4
<1>14. IInv' /\ \A j \in Slots : Settled(U[j], task'[j]) /\ Tame(U[j], task'[j])
  BY <1>2, <1>9, <1>11, <1>12, <1>13, TrapOK, Zenon
<1>15. \A j \in Slots : j # i => Mild(task[j], task'[j])
  BY <1>9, <1>14, TameMild, Zenon DEF IsPut
<1>16. Framed(task[i], task'[i])
  BY <1>6, <1>7, <1>9, <1>14, Zenon DEF IsPut, Tame, Framed
<1>17. FrameStep
  BY <1>15, <1>16, FramedSteps, Zenon DEF Mild
<1>18. ~task_parent_has_child_sigchld_event(U, i)
  <2>1. \A c \in Slots : U[c].ppid # U[i].pid
    <3>1. \A c \in Slots : task[c].ppid \in -1 .. b /\ task[c].pid \in 0 .. b
      BY <1>3, Zenon DEF TableOK, Named
    <3>2. b \in Int
      BY <1>4 DEF b
    <3>3. \A c \in Slots : task[c].ppid # b + 1 /\ task[c].pid # b + 1
      BY <3>1, <3>2
    <3> QED BY <1>3, <1>5, <1>7, <1>9, <3>3, Zenon DEF IsPut
  <2> QED BY <2>1, SetsAre, Zenon DEF task_parent_has_child_sigchld_event
<1>19. Tidied(U, task')
  BY <1>12, <1>14, TidyIs, Zenon DEF Tidied, TableOK, Tab
<1>20. SigchldStep
  BY <1>6, <1>15, <1>18, <1>19, NoNewEvent, SetsAre, Zenon DEF SigchldStep, Mild
<1> QED BY <1>14, <1>17, <1>20, Zenon DEF Good

-----------------------------------------------------------------------------
\* The clock.

Ticked(t) == [t EXCEPT !.wake = Less(t.wake), !.tf.left = Less(t.tf.left),
                       !.saved_tf.left = Less(t.saved_tf.left)]

LessCall(c) == [c EXCEPT !.left = Less(c.left)]

\* A tick does not touch these fields.
Untouched(t, u) ==
    u.state = t.state /\ u.pending = t.pending /\ u.active = t.active /\ u.saved_mask = t.saved_mask

LEMMA LessIs ==
    /\ \A n \in Nat : Less(n) \in Nat
    /\ \A c \in Call : LessCall(c) \in Call /\ LessCall(c).op = c.op /\ LessCall(c).opts = c.opts
<1>1. \A n \in Nat : Less(n) \in Nat
  BY DEF Less
<1>2. ASSUME NEW c \in Call
      PROVE  LessCall(c) \in Call /\ LessCall(c).op = c.op /\ LessCall(c).opts = c.opts
  <2>1. c.left \in Nat
    BY DEF Call
  <2>2. Less(c.left) \in Nat
    BY <1>1, <2>1, Zenon
  <2> QED BY <2>2 DEF LessCall, Call
<1> QED BY <1>1, <1>2, Zenon

LEMMA TickedIs ==
    ASSUME NEW t, Local(t)
    PROVE  Local(Ticked(t)) /\ Nudged(t, Ticked(t)) /\ Untouched(t, Ticked(t))
<1> DEFINE n == Less(t.wake)
           c == LessCall(t.tf)
           d == LessCall(t.saved_tf)
           x == [t EXCEPT !.wake = n]
           y == [x EXCEPT !.tf = c]
           u == [y EXCEPT !.saved_tf = d]
<1>1. t \in TaskRecord
  BY Zenon DEF Local
<1>2. t.wake \in Nat /\ t.tf \in Call /\ t.saved_tf \in Call
  BY <1>1 DEF TaskRecord
<1>3. n \in Nat /\ c \in Call /\ d \in Call /\ c.op = t.tf.op /\ c.opts = t.tf.opts
  BY <1>2, LessIs, Zenon
<1>4. u = Ticked(t)
  <2>1. x.tf = t.tf /\ y.saved_tf = t.saved_tf
    BY <1>1 DEF TaskRecord
  <2>2. Ticked(t) = [[x EXCEPT !.tf = [x.tf EXCEPT !.left = Less(t.tf.left)]]
                       EXCEPT !.saved_tf.left = Less(t.saved_tf.left)]
    BY DEF Ticked
  <2>3. [x EXCEPT !.tf = [x.tf EXCEPT !.left = Less(t.tf.left)]] = y
    BY <2>1, Zenon DEF LessCall
  <2>4. Ticked(t) = [y EXCEPT !.saved_tf = [y.saved_tf EXCEPT !.left = Less(t.saved_tf.left)]]
    BY <2>2, <2>3 DEF LessCall
  <2> QED BY <2>1, <2>4, Zenon DEF LessCall
<1> HIDE DEF n, c, d
<1>5. /\ x \in TaskRecord /\ Plain(t, x) /\ x.active = t.active /\ x.saved_mask = t.saved_mask
      /\ x.mask = t.mask /\ x.tf = t.tf /\ x.wait_pid = t.wait_pid
  BY <1>1, <1>3, Zenon DEF TaskRecord, Plain
<1> HIDE DEF x
<1>6. /\ y \in TaskRecord /\ Plain(x, y) /\ y.active = x.active /\ y.saved_mask = x.saved_mask
      /\ y.mask = x.mask /\ y.tf = c /\ y.wait_pid = x.wait_pid
  BY <1>3, <1>5 DEF TaskRecord, Plain
<1> HIDE DEF y
<1>7. /\ u \in TaskRecord /\ Plain(y, u) /\ u.active = y.active /\ u.saved_mask = y.saved_mask
      /\ u.mask = y.mask /\ u.tf = y.tf /\ u.wait_pid = y.wait_pid
  BY <1>3, <1>6 DEF TaskRecord, Plain
<1> HIDE DEF u
<1>8. /\ Plain(t, u) /\ u.active = t.active /\ u.saved_mask = t.saved_mask /\ u.mask = t.mask
      /\ u.tf.op = t.tf.op /\ u.tf.opts = t.tf.opts /\ u.wait_pid = t.wait_pid
  BY <1>3, <1>5, <1>6, <1>7, Zenon DEF Plain
<1>9. SignalsOK(u) /\ CallOK(u)
  BY <1>8, Zenon DEF Local, SignalsOK, CallOK, Plain
<1>10. Local(u) /\ Nudged(t, u) /\ Untouched(t, u)
  BY <1>7, <1>8, <1>9, Zenon DEF Local, Nudged, Untouched, Plain
<1> QED BY <1>4, <1>10, Zenon DEF u, y, x, n, c, d

\* The table after a tick, and after task_wake_sleepers.
LEMMA TickOK ==
    ASSUME NEW T, NEW b, TableOK(T, b)
    PROVE  LET K == Tick(T)
               U == task_wake_sleepers(K)
           IN /\ TableOK(U, b) /\ Tamed(K, U)
              /\ \A i \in Slots : Untouched(T[i], K[i])
<1> DEFINE K == Tick(T)
           U == task_wake_sleepers(K)
<1>1. \A i \in Slots : K[i] = Ticked(T[i])
  BY Zenon DEF Tick, Ticked
<1>2. \A i \in Slots : Local(T[i])
  BY Zenon DEF TableOK, Tab
<1>3. \A i \in Slots : Local(K[i]) /\ Nudged(T[i], K[i]) /\ Untouched(T[i], K[i])
  BY <1>1, <1>2, TickedIs, Zenon
<1>4. Tab(K)
  <2>1. K = [i \in Slots |-> Ticked(T[i])]
    BY Zenon DEF Tick, Ticked
  <2>2. \A i \in Slots : Ticked(T[i]) \in TaskRecord
    BY <1>2, TickedIs, Zenon DEF Local
  <2>3. K \in [Slots -> TaskRecord]
    BY <2>1, <2>2, Zenon
  <2> QED BY <1>3, <2>3, Zenon DEF Tab
<1>5. TableOK(K, b)
  BY <1>3, <1>4, NudgesOK, Zenon
<1> HIDE DEF K
<1>6. \A i \in Slots : U[i] = K[i] \/ (K[i].state = "WAITING" /\ U[i] = Woken(K[i]))
  BY Zenon DEF task_wake_sleepers
<1>7. ASSUME NEW i \in Slots PROVE Local(U[i]) /\ Soft(K[i], U[i])
  <2> HIDE DEF U
  <2> QED BY <1>3, <1>6, WokenIs, SoftTwice, Zenon
<1>8. U \in [Slots -> TaskRecord]
  <2>1. \A i \in Slots : U[i] \in TaskRecord
    <3> HIDE DEF U
    <3> QED BY <1>7, Zenon DEF Local
  <2>2. U = [i \in Slots |-> U[i]]
    BY Zenon DEF task_wake_sleepers
  <2> HIDE DEF U
  <2> QED BY <2>1, <2>2, Zenon
<1> HIDE DEF U
<1>9. Tab(U)
  BY <1>7, <1>8, Zenon DEF Tab
<1>10. TableOK(U, b) /\ Tamed(K, U)
  BY <1>5, <1>7, <1>9, NudgesOK, Zenon DEF Soft, Tamed
<1> QED BY <1>3, <1>10, Zenon DEF K, U

\* As Tame, for steps that may also start a task.
Gentle(t, u) ==
    Framed(t, u) /\ (Alive(u) => Alive(t) /\ (SIGCHLD \in t.pending => SIGCHLD \in u.pending))

LEMMA GentleIs ==
    /\ \A t, u : Tame(t, u) => Gentle(t, u)
    /\ \A t : Gentle(t, t)
    /\ \A t, u, w : Gentle(t, u) /\ Gentle(u, w) => Gentle(t, w)
    /\ \A t, u : Gentle(t, u) => Mild(t, u)
  BY Zenon DEF Tame, Gentle, Framed, Mild

LEMMA TickSteps ==
    ASSUME \A i \in Slots : Untouched(task[i], Tick(task)[i]),
           \A i \in Slots : Gentle(Tick(task)[i], task'[i])
    PROVE  SigchldStep /\ FrameStep
<1>1. FrameStep
  BY Zenon DEF FrameStep, Gentle, Framed, Untouched
<1>2. SigchldStep
  BY SetsAre, Zenon DEF SigchldStep, Gentle, Untouched
<1> QED BY <1>1, <1>2

LEMMA TimerStep ==
    ASSUME IInv, Timer PROVE Good
<1> DEFINE K == Tick(task)
           U == task_wake_sleepers(K)
<1>1. Reschedule(U, TRUE) /\ next_pid' = next_pid /\ calls' = calls
  BY Zenon DEF Timer
<1>2. TableOK(U, next_pid - 1) /\ Tamed(K, U) /\ \A i \in Slots : Untouched(task[i], K[i])
  BY SelfIs, TickOK, Zenon
<1> HIDE DEF U
<1>3. Lone(U, cur)
  BY <1>2, LoneIs, Zenon DEF Lone, Tamed, Tame, Untouched
<1>4. IInv' /\ \A i \in Slots : Tame(U[i], task'[i])
  BY <1>1, <1>2, <1>3, PlainTrapOK, Zenon
<1>5. \A i \in Slots : Gentle(K[i], task'[i])
  BY <1>2, <1>4, GentleIs, Zenon DEF Tamed
<1>6. SigchldStep /\ FrameStep
  BY <1>2, <1>5, TickSteps, Zenon
<1> QED BY <1>4, <1>6, Zenon DEF Good

-----------------------------------------------------------------------------
\* The ways a kernel loop leaves the processor: the loop goes on, or a task runs.

Still(T) == \A i \in Slots : T[i].state # "RUNNING"

LEMMA LaterOK ==
    ASSUME IInv, NEW U, TableOK(U, next_pid - 1), Still(U), task' = U, cur' = cur,
           next_pid' = next_pid, calls' = calls,
           pc' \in {"deliver", "idle", "idle_late"}, (pc' = "deliver") = (nxt' # 0),
           nxt' = 0 \/ (nxt' \in Slots /\ U[nxt'].state = "RUNNABLE")
    PROVE  IInv'
<1>1. TableOK(task', next_pid' - 1)
  BY Zenon
<1>2. Processor'
  <2>1. pc' \in Pcs /\ pc' # "user" /\ pc' # "kill"
    BY DEF Pcs
  <2>2. /\ calls' \in Repertoire /\ cur' \in Slots
        /\ next_pid' \in Nat /\ next_pid' >= 2 /\ next_pid' <= calls'.pids + 1
    BY Zenon DEF IInv, Processor
  <2> QED BY <2>1, <2>2, Zenon DEF Processor, Still
<1> QED BY <1>1, <1>2, Zenon DEF IInv, TableOK, Tab, Named, Family, Waiters

LEMMA SwitchOK ==
    ASSUME IInv, NEW U, TableOK(U, next_pid - 1), Still(U), NEW n \in Slots,
           U[n].state = "RUNNABLE", SwitchTo(U, n), next_pid' = next_pid, calls' = calls
    PROVE  IInv' /\ \A i \in Slots : Gentle(U[i], task'[i])
<1> DEFINE u == SetState(U[n], "RUNNING")
           W == Put(U, n, u)
<1>1. task' = W /\ cur' = n /\ nxt' = 0 /\ pc' = "user"
  BY Zenon DEF SwitchTo, Put, SetState
<1>2. Tab(U) /\ Local(U[n])
  BY Zenon DEF TableOK, Tab
<1>3. /\ Local(u) /\ Nudged(U[n], u) /\ u.state = "RUNNING"
      /\ u.active = U[n].active /\ u.saved_tf = U[n].saved_tf
      /\ u.saved_mask = U[n].saved_mask /\ u.pending = U[n].pending
  BY <1>2, SetStateIs, Zenon
<1> HIDE DEF u
<1>4. TableOK(W, next_pid - 1) /\ IsPut(U, n, u, W)
  BY <1>2, <1>3, NudgeOK, PutIs, Zenon
<1> HIDE DEF W
<1>5. Gentle(U[n], u)
  BY <1>3, Strings, Zenon DEF Gentle, Framed, Alive
<1>6. \A i \in Slots : Gentle(U[i], W[i])
  BY <1>4, <1>5, GentleIs, Zenon DEF IsPut
<1>7. TableOK(task', next_pid' - 1)
  BY <1>1, <1>4, Zenon
<1>8. Processor'
  <2>1. "user" \in Pcs /\ "user" # "deliver" /\ "user" # "kill"
    BY DEF Pcs
  <2>2. /\ calls' \in Repertoire /\ cur' \in Slots
        /\ next_pid' \in Nat /\ next_pid' >= 2 /\ next_pid' <= calls'.pids + 1
    BY <1>1, Zenon DEF IInv, Processor
  <2>3. \A i \in Slots : task'[i].state = "RUNNING" => i = cur'
    BY <1>1, <1>4, Zenon DEF IsPut, Still
  <2>4. task'[cur'].state = "RUNNING"
    BY <1>1, <1>3, <1>4, Zenon DEF IsPut
  <2> QED BY <1>1, <2>1, <2>2, <2>3, <2>4, Zenon DEF Processor
<1>9. IInv'
  BY <1>7, <1>8, Zenon DEF IInv, TableOK, Tab, Named, Family, Waiters
<1> QED BY <1>1, <1>6, <1>9, Zenon

LEMMA IdleStep ==
    ASSUME IInv, Idle PROVE Good
<1> DEFINE K == Tick(task)
           U == task_wake_sleepers(K)
           n == task_next_runnable(U, cur)
<1>1. /\ pc \in {"idle", "idle_late"} /\ next_pid' = next_pid /\ calls' = calls
      /\ \/ n = 0 /\ task' = U /\ cur' = cur /\ pc' = pc /\ nxt' = nxt
         \/ n # 0 /\ SwitchTo(U, n)
         \/ n # 0 /\ task' = U /\ nxt' = n /\ pc' = "deliver" /\ cur' = cur
  BY Zenon DEF Idle
<1>2. TableOK(U, next_pid - 1) /\ Tamed(K, U) /\ \A i \in Slots : Untouched(task[i], K[i])
  BY SelfIs, TickOK, Zenon
<1>3. cur \in Nat
  BY SelfIs DEF Slots
<1>4. n = 0 \/ (n \in Slots /\ U[n].state = "RUNNABLE")
  BY <1>3, NextIs, Zenon
<1> HIDE DEF n, U
<1>5. Still(U)
  <2>1. pc # "user" /\ pc # "kill"
    BY <1>1
  <2>2. \A i \in Slots : task[i].state # "RUNNING"
    BY <2>1, Zenon DEF IInv, Processor
  <2> QED BY <1>2, <2>2, Zenon DEF Still, Tamed, Tame, Untouched
<1>6. \A i \in Slots : Gentle(K[i], U[i])
  BY <1>2, GentleIs, Zenon DEF Tamed
<1>7. IInv' /\ \A i \in Slots : Gentle(U[i], task'[i])
  <2>1. CASE n = 0 /\ task' = U /\ cur' = cur /\ pc' = pc /\ nxt' = nxt
    <3>1. pc' \in {"deliver", "idle", "idle_late"} /\ (pc' = "deliver") = (nxt' # 0) /\ nxt' = 0
      <4>1. pc # "deliver"
        BY <1>1
      <4>2. nxt = 0
        BY <4>1, Zenon DEF IInv, Processor
      <4> QED BY <1>1, <2>1, <4>1, <4>2, Zenon
    <3> QED BY <1>1, <1>2, <1>5, <2>1, <3>1, LaterOK, GentleIs, Zenon
  <2>2. CASE n # 0 /\ SwitchTo(U, n)
    BY <1>1, <1>2, <1>4, <1>5, <2>2, SwitchOK, Zenon
  <2>3. CASE n # 0 /\ task' = U /\ nxt' = n /\ pc' = "deliver" /\ cur' = cur
    <3>1. /\ pc' \in {"deliver", "idle", "idle_late"} /\ (pc' = "deliver") = (nxt' # 0)
          /\ nxt' \in Slots /\ U[nxt'].state = "RUNNABLE"
      BY <1>4, <2>3, Zenon
    <3>2. IInv'
      BY <1>1, <1>2, <1>5, <2>3, <3>1, LaterOK, Zenon
    <3> QED BY <2>3, <3>2, GentleIs, Zenon
  <2> QED BY <1>1, <2>1, <2>2, <2>3
<1>8. \A i \in Slots : Gentle(K[i], task'[i])
  BY <1>6, <1>7, GentleIs, Zenon
<1>9. SigchldStep /\ FrameStep
  BY <1>2, <1>8, TickSteps, Zenon
<1> QED BY <1>7, <1>9, Zenon DEF Good

-----------------------------------------------------------------------------
\* Delivery.

LEMMA EnterIs ==
    ASSUME NEW t, Local(t), t.state = "RUNNABLE", NEW sig \in Signals
    PROVE  LET u == EnterHandler(t, sig)
           IN Local(u) /\ Nudged(t, u) /\ u.state = "RUNNABLE"
<1> DEFINE a == t.act[sig]
           c == IF "SA_RESTART" \in a.flags THEN t.tf ELSE NoCall
           e == IF "SA_RESETHAND" \in a.flags THEN DefaultAction ELSE a
           f == [t.act EXCEPT ![sig] = e]
           m == (t.mask \union a.mask
                   \union (IF "SA_NODEFER" \in a.flags THEN {} ELSE {sig})) \ Unblockable
           x == [t EXCEPT !.saved_tf = c, !.tf = NoCall]
           y == [x EXCEPT !.saved_mask = t.mask, !.active = TRUE]
           u == [y EXCEPT !.act = f, !.mask = m]
<1>1. t \in TaskRecord
  BY Zenon DEF Local
<1>2. /\ t.tf \in Call /\ t.act \in [Signals -> Action] /\ t.mask \in SUBSET Signals
      /\ t.mask \intersect Unblockable = {}
  <2>1. t.tf \in Call /\ t.act \in [Signals -> Action] /\ t.mask \in SUBSET Signals
    BY <1>1 DEF TaskRecord
  <2> QED BY <2>1, MasksAre, Zenon
<1>3. a \in Action /\ DefaultAction \in Action
  <2>1. DefaultAction \in Action
    BY DEF DefaultAction, Action, Handlers
  <2> QED BY <1>2, <2>1, Zenon
<1>4. c \in Call /\ e \in Action /\ f \in [Signals -> Action]
  <2>1. c \in Call /\ e \in Action
    BY <1>2, <1>3, CallsAre, Zenon
  <2> HIDE DEF e
  <2> QED BY <1>2, <2>1
<1>5. m \in SUBSET Signals /\ m \intersect Unblockable = {}
  <2>1. a.mask \in SUBSET Signals
    BY <1>3 DEF Action
  <2> HIDE DEF a
  <2> QED BY <1>2, <2>1
<1>6. u = EnterHandler(t, sig)
  <2>1. y.act = t.act
    BY <1>1 DEF TaskRecord
  <2>2. EnterHandler(t, sig) = [y EXCEPT !.act = [y.act EXCEPT ![sig] = e], !.mask = m]
    BY Zenon DEF EnterHandler
  <2> QED BY <2>1, <2>2, Zenon
<1> HIDE DEF c, f, m
<1>7. /\ x \in TaskRecord /\ Plain(t, x) /\ x.mask = t.mask
  BY <1>1, <1>4, CallsAre, Zenon DEF TaskRecord, Plain
<1> HIDE DEF x
<1>8. y \in TaskRecord /\ Plain(x, y) /\ y.saved_mask = t.mask
  BY <1>2, <1>7, Zenon DEF TaskRecord, Plain
<1> HIDE DEF y
<1>9. u \in TaskRecord /\ Plain(y, u) /\ u.saved_mask = y.saved_mask /\ u.mask = m
  BY <1>4, <1>5, <1>8, Zenon DEF TaskRecord, Plain
<1> HIDE DEF u
<1>10. Plain(t, u)
  BY <1>7, <1>8, <1>9, Zenon DEF Plain
<1>11. SignalsOK(u)
  BY <1>2, <1>5, <1>8, <1>9, <1>10, Zenon DEF Local, SignalsOK, Plain
<1>12. CallOK(u) /\ Nudged(t, u) /\ u.state = "RUNNABLE"
  BY <1>10, Strings, Zenon DEF Local, CallOK, Plain, Nudged
<1>13. Local(u) /\ Nudged(t, u) /\ u.state = "RUNNABLE"
  BY <1>9, <1>11, <1>12, Zenon DEF Local
<1> QED BY <1>6, <1>13, Zenon

\* Delivery spares every task but nxt, and a frame that is saved already.
LEMMA DeliverGood ==
    ASSUME IInv, pc = "deliver", IInv', \A i \in Slots : i # nxt => Gentle(task[i], task'[i]),
           task[nxt].active => Framed(task[nxt], task'[nxt])
    PROVE  Good
<1>1. FrameStep
  BY Zenon DEF FrameStep, Gentle, Framed
<1>2. SigchldStep
  BY SetsAre, Zenon DEF SigchldStep, Gentle
<1> QED BY <1>1, <1>2, Zenon DEF Good

\* The loop goes on after the slot n.
LEMMA TryAfterOK ==
    ASSUME IInv, NEW U, TableOK(U, next_pid - 1), Still(U), NEW n \in Slots, TryAfter(U, n),
           next_pid' = next_pid, calls' = calls
    PROVE  IInv' /\ task' = U
<1> DEFINE m == task_next_runnable(U, n)
<1>1. task' = U /\ nxt' = m /\ pc' = (IF m = 0 THEN "idle_late" ELSE "deliver") /\ cur' = cur
  BY Zenon DEF TryAfter
<1>2. n \in Nat
  BY DEF Slots
<1>3. m = 0 \/ (m \in Slots /\ U[m].state = "RUNNABLE")
  BY <1>2, NextIs, Zenon
<1> HIDE DEF m
<1>4. pc' \in {"deliver", "idle", "idle_late"} /\ (pc' = "deliver") = (nxt' # 0)
  BY <1>1
<1>5. nxt' = 0 \/ (nxt' \in Slots /\ U[nxt'].state = "RUNNABLE")
  BY <1>1, <1>3, Zenon
<1>6. IInv'
  BY <1>1, <1>4, <1>5, LaterOK, Zenon
<1> QED BY <1>1, <1>6

\* The outcomes of task_deliver_pending_signal, x being the task without the signal.
Outcome(sig, x) ==
    \/ /\ task' = Put(task, nxt, x) \/ task' = ContTask(Put(task, nxt, x), nxt)
       /\ cur' = cur /\ pc' = pc /\ nxt' = nxt
    \/ TryAfter(StopTask(Put(task, nxt, x), nxt), nxt)
    \/ TryAfter(task_force_exit(Put(task, nxt, x), nxt), nxt)
    \/ x.active /\ SwitchTo(Put(task, nxt, task_signal_enqueue(x, sig)), nxt)
    \/ ~x.active /\ SwitchTo(Put(task, nxt, EnterHandler(x, sig)), nxt)

LEMMA OutcomeIs ==
    ASSUME NEW sig, sig = PickSignal(task[nxt]), task_deliver_pending_signal(sig)
    PROVE  Outcome(sig, task_signal_clear_pending(task[nxt], sig))
<1> DEFINE x == task_signal_clear_pending(task[nxt], sig)
           a == x.act[sig]
           dfl == task_signal_default_action(sig)
<1>1. PickedTask = x
  BY Zenon DEF PickedTask
<1>2. Picked = Put(task, nxt, x)
  BY <1>1, Zenon DEF Picked, Put
<1>3. CASE \/ a.handler = "SIG_IGN"
           \/ a.handler = "SIG_DFL" /\ dfl \in {"IGNORE", "CONT"}
  BY <1>1, <1>2, <1>3, Zenon DEF task_deliver_pending_signal, Outcome
<1>4. CASE ~(\/ a.handler = "SIG_IGN"
             \/ a.handler = "SIG_DFL" /\ dfl \in {"IGNORE", "CONT"})
  <2>1. \/ TryAfter(StopTask(Picked, nxt), nxt)
        \/ TryAfter(task_force_exit(Picked, nxt), nxt)
        \/ PickedTask.active /\ SwitchTo([task EXCEPT ![nxt] = task_signal_enqueue(PickedTask, sig)], nxt)
        \/ ~PickedTask.active /\ SwitchTo([task EXCEPT ![nxt] = EnterHandler(PickedTask, sig)], nxt)
    BY <1>1, <1>4, Zenon DEF task_deliver_pending_signal, Nested
  <2> QED BY <1>1, <1>2, <2>1, Zenon DEF Outcome, Put
<1> QED BY <1>3, <1>4

LEMMA DeliverStep ==
    ASSUME IInv, Deliver PROVE Good
<1> DEFINE t == task[nxt]
           sig == PickSignal(t)
           b == next_pid - 1
           x == task_signal_clear_pending(t, sig)
           P == Put(task, nxt, x)
<1>1. /\ pc = "deliver" /\ next_pid' = next_pid /\ calls' = calls
      /\ \/ sig = 0 /\ SwitchTo(task, nxt)
         \/ sig # 0 /\ task_deliver_pending_signal(sig)
  BY Zenon DEF Deliver
<1>2. /\ TableOK(task, b) /\ nxt \in Slots /\ t.state = "RUNNABLE" /\ nxt # 0 /\ Tab(task)
      /\ Local(t) /\ Halted(t)
  BY <1>1, Zenon DEF IInv, Processor, TableOK, Tab
<1>3. Still(task)
  <2>1. pc # "user" /\ pc # "kill"
    BY <1>1
  <2> QED BY <2>1, Zenon DEF IInv, Processor, Still
<1> HIDE DEF b
<1>4. CASE sig = 0 /\ SwitchTo(task, nxt)
  <2>1. IInv' /\ \A i \in Slots : Gentle(task[i], task'[i])
    BY <1>1, <1>2, <1>3, <1>4, SwitchOK, Zenon DEF b
  <2> QED BY <1>1, <1>2, <2>1, DeliverGood, Zenon DEF Gentle
<1>5. CASE sig # 0 /\ task_deliver_pending_signal(sig)
  <2>1. sig \in t.pending
    BY <1>2, <1>5, PickIs, ZenonT(40)
  <2>2. sig \in Signals
    BY <1>2, <2>1 DEF Local, TaskRecord
  <2>3. sig # SIGKILL /\ sig # SIGSTOP
    BY <1>2, <2>1, Strings, Zenon DEF Local, SignalsOK, Halted
  <2>4. Outcome(sig, x)
    BY <1>5, OutcomeIs, Zenon
  <2>5. Local(x) /\ OnlySignals(t, x) /\ x.pending = t.pending \ {sig}
    BY <1>2, ClearedIs, Zenon DEF task_signal_clear_pending
  <2> HIDE DEF x, sig
  <2>6. /\ x.state = "RUNNABLE" /\ Framed(t, x) /\ x.active = t.active
        /\ SIGSTOP \notin x.pending /\ Nudged(t, x) /\ Alive(x)
    <3>1. x.state = "RUNNABLE" /\ x.active = t.active
      BY <1>2, <2>5, Zenon DEF OnlySignals
    <3>2. Framed(t, x)
      BY <2>5, TameMild, Zenon
    <3>3. SIGSTOP \notin t.pending
      BY <1>2, Strings, Zenon DEF Halted
    <3>4. SIGSTOP \notin x.pending
      BY <2>5, <3>3, Zenon
    <3>5. Nudged(t, x)
      BY <1>2, <2>5, <3>4, Strings, Zenon DEF OnlySignals, Nudged
    <3> QED BY <3>1, <3>2, <3>4, <3>5, Strings, Zenon DEF Alive
  <2>7. TableOK(P, b) /\ IsPut(task, nxt, x, P)
    BY <1>2, <2>5, <2>6, NudgeOK, PutIs, Zenon
  <2>8. Outcome(sig, x) /\ P = Put(task, nxt, x)
    BY <2>4
  <2> HIDE DEF P
  <2>9. P[nxt] = x /\ \A i \in Slots : i # nxt => P[i] = task[i]
    BY <2>7, Zenon DEF IsPut
  <2>10. Still(P)
    BY <1>3, <2>6, <2>9, Strings, Zenon DEF Still
  <2>11. ASSUME task' = P, cur' = cur, pc' = pc, nxt' = nxt PROVE Good
    <3>1. /\ pc' \in {"deliver", "idle", "idle_late"} /\ (pc' = "deliver") = (nxt' # 0)
          /\ nxt' \in Slots /\ P[nxt'].state = "RUNNABLE"
      BY <1>1, <1>2, <2>6, <2>9, <2>11, Zenon
    <3>2. IInv'
      BY <1>1, <2>7, <2>10, <2>11, <3>1, LaterOK, Zenon DEF b
    <3> QED BY <1>1, <2>6, <2>9, <2>11, <3>2, DeliverGood, GentleIs, Zenon
  <2>12. ASSUME NEW U, TableOK(U, b), Tamed(P, U), TryAfter(U, nxt) PROVE Good
    <3>1. Still(U)
      BY <2>10, <2>12, Zenon DEF Still, Tamed, Tame
    <3>2. IInv' /\ task' = U
      BY <1>1, <1>2, <2>12, <3>1, TryAfterOK, Zenon DEF b
    <3>3. \A i \in Slots : i # nxt => Gentle(task[i], task'[i])
      BY <2>9, <2>12, <3>2, GentleIs, Zenon DEF Tamed
    <3>4. Framed(task[nxt], task'[nxt])
      BY <1>2, <2>6, <2>9, <2>12, <3>2, TameMild, Zenon DEF Tamed
    <3> QED BY <1>1, <3>2, <3>3, <3>4, DeliverGood, Zenon
  <2>13. ASSUME NEW u, Local(u), Nudged(t, u), u.state = "RUNNABLE", t.active => Framed(t, u),
                SwitchTo(Put(task, nxt, u), nxt)
         PROVE  Good
    <3> DEFINE U == Put(task, nxt, u)
    <3>1. TableOK(U, b) /\ IsPut(task, nxt, u, U) /\ SwitchTo(U, nxt)
      BY <1>2, <2>13, NudgeOK, PutIs, Zenon
    <3> HIDE DEF U
    <3>2. U[nxt] = u /\ \A i \in Slots : i # nxt => U[i] = task[i]
      BY <3>1, Zenon DEF IsPut
    <3>3. Still(U)
      BY <1>3, <2>13, <3>2, Strings, Zenon DEF Still
    <3>4. IInv' /\ \A i \in Slots : Gentle(U[i], task'[i])
      BY <1>1, <1>2, <2>13, <3>1, <3>2, <3>3, SwitchOK, Zenon DEF b
    <3>5. t.active => Framed(task[nxt], task'[nxt])
      BY <1>2, <2>13, <3>2, <3>4, TameMild, Zenon DEF Gentle
    <3> QED BY <1>1, <3>2, <3>4, <3>5, DeliverGood, Zenon
  <2>14. CASE /\ task' = Put(task, nxt, x) \/ task' = ContTask(Put(task, nxt, x), nxt)
              /\ cur' = cur /\ pc' = pc /\ nxt' = nxt
    <3>1. ContTask(P, nxt) = P
      BY <1>2, <2>6, <2>7, <2>9, ContOK, Zenon
    <3> QED BY <2>8, <2>11, <2>14, <3>1, Zenon
  <2>15. CASE TryAfter(StopTask(Put(task, nxt, x), nxt), nxt)
    <3>1. Midway(P, b, nxt) /\ Alive(P[nxt])
      BY <2>6, <2>7, <2>9, Zenon DEF Midway, TableOK
    <3>2. TableOK(StopTask(P, nxt), b) /\ Tamed(P, StopTask(P, nxt))
      BY <1>2, <3>1, StopOK, Zenon
    <3> QED BY <2>8, <2>12, <2>15, <3>2, Zenon
  <2>16. CASE TryAfter(task_force_exit(Put(task, nxt, x), nxt), nxt)
    <3>1. TableOK(task_force_exit(P, nxt), b) /\ Tamed(P, task_force_exit(P, nxt))
      BY <1>2, <2>7, ForceExitOK, Zenon
    <3> QED BY <2>8, <2>12, <2>16, <3>1, Zenon
  <2>17. CASE x.active /\ SwitchTo(Put(task, nxt, task_signal_enqueue(x, sig)), nxt)
    <3> DEFINE u == task_signal_enqueue(x, sig)
    <3>1. Local(u) /\ OnlySignals(x, u) /\ Soft(x, u)
      BY <2>2, <2>3, <2>5, EnqueueSoft, Zenon
    <3> HIDE DEF u
    <3>2. Nudged(t, u) /\ u.state = "RUNNABLE"
      <4>1. u.state = "RUNNABLE" /\ SIGSTOP \notin u.pending
        BY <2>6, <3>1, Zenon DEF OnlySignals, Soft, Nudged
      <4> QED BY <1>2, <2>6, <3>1, <4>1, Strings, Zenon DEF Soft, Nudged
    <3>3. Framed(t, u)
      BY <2>6, <3>1, TameMild, Zenon
    <3> QED BY <2>13, <2>17, <3>1, <3>2, <3>3, Zenon DEF u
  <2>18. CASE ~x.active /\ SwitchTo(Put(task, nxt, EnterHandler(x, sig)), nxt)
    <3> DEFINE u == EnterHandler(x, sig)
    <3>1. Local(u) /\ Nudged(x, u) /\ u.state = "RUNNABLE"
      BY <2>2, <2>5, <2>6, EnterIs, Zenon
    <3> HIDE DEF u
    <3>2. Nudged(t, u)
      BY <1>2, <2>6, <3>1, Strings, Zenon DEF Nudged
    <3> QED BY <2>6, <2>13, <2>18, <3>1, <3>2, Zenon DEF u
  <2> QED BY <2>4, <2>14, <2>15, <2>16, <2>17, <2>18, Zenon DEF Outcome
<1> QED BY <1>1, <1>4, <1>5

-----------------------------------------------------------------------------
\* The first task, and the steps put together.

LEMMA InitOK ==
    ASSUME Init PROVE IInv
<1> DEFINE t == [Unused EXCEPT !.state = "RUNNING", !.pid = InitPid, !.pgid = InitPid]
<1>1. /\ task = [i \in Slots |-> IF i = 1 THEN t ELSE Unused]
      /\ cur = 1 /\ pc = "user" /\ nxt = 0 /\ next_pid = InitPid + 1 /\ calls \in Repertoires
  BY Zenon DEF Init
<1>2. /\ t \in TaskRecord /\ t.state = "RUNNING" /\ t.pid = 1 /\ t.ppid = 0
      /\ t.pending = {} /\ t.queue = << >> /\ t.mask = {} /\ t.saved_mask = {}
      /\ t.wait_kind = "NONE" /\ t.cont_report = FALSE
  <2>1. Unused \in TaskRecord
    BY UnusedIs, Zenon DEF Local
  <2>2. InitPid \in Nat /\ InitPid \in Int /\ InitPid = 1
    BY DEF InitPid
  <2>3. t \in TaskRecord
    <3> DEFINE x == [Unused EXCEPT !.state = "RUNNING", !.pid = InitPid]
    <3>1. x \in TaskRecord
      BY <2>1, <2>2, StatesAre, Zenon DEF TaskRecord
    <3>2. t = [x EXCEPT !.pgid = InitPid]
      BY Zenon
    <3> HIDE DEF x, t
    <3>3. [x EXCEPT !.pgid = InitPid] \in TaskRecord
      BY <2>2, <3>1, Zenon DEF TaskRecord
    <3> QED BY <3>2, <3>3, Zenon
  <2>4. t.state = "RUNNING" /\ t.pid = 1
    BY <2>1, <2>2 DEF TaskRecord
  <2>5. /\ t.ppid = 0 /\ t.pending = {} /\ t.queue = << >> /\ t.mask = {} /\ t.saved_mask = {}
        /\ t.wait_kind = "NONE" /\ t.cont_report = FALSE
    BY DEF Unused
  <2> QED BY <2>3, <2>4, <2>5
<1> HIDE DEF t
<1>3. SignalsOK(t)
  BY <1>2, EmptyQueue DEF SignalsOK
<1>4. Local(t)
  BY <1>2, <1>3, Strings, Zenon DEF Local, CallOK
<1>5. 1 \in Slots
  BY SlotsAssumption DEF Slots
<1>6. task[1] = t /\ \A i \in Slots : i # 1 => task[i] = Unused
  BY <1>1, <1>5, Zenon
<1>7. task \in [Slots -> TaskRecord]
  BY <1>1, <1>2, UnusedIs, Zenon DEF Local
<1>8. Tab(task)
  BY <1>4, <1>6, <1>7, UnusedIs, Zenon DEF Tab
<1>9. \A i \in Slots : Halted(task[i])
  BY <1>2, <1>6, UnusedIs, Zenon DEF Halted
<1>10. Named(task, 1)
  <2>1. \A i \in Slots : task[i].pid \in 0 .. 1 /\ task[i].ppid \in -1 .. 1
    <3>1. \A i \in Slots : task[i].pid \in {0, 1} /\ task[i].ppid = 0
      BY <1>2, <1>6, UnusedIs, Zenon
    <3> QED BY <3>1
  <2>2. Distinguished(t)
    BY <1>2 DEF Distinguished
  <2>3. \A i \in Slots : InUse(task[i]) => i = 1
    BY <1>6, UnusedIs, Zenon
  <2>4. 1 \in Nat \ {0}
    OBVIOUS
  <2> QED BY <1>6, <2>1, <2>2, <2>3, <2>4, Zenon DEF Named
<1>11. Family(task)
  <2>1. \A i \in Slots : task[i].ppid = 0
    BY <1>2, <1>6, UnusedIs, Zenon
  <2>2. ~(0 > 0)
    OBVIOUS
  <2> QED BY <2>1, <2>2, Zenon DEF Family
<1>12. Waiters(task)
  <2>1. \A i \in Slots : ~Waits(task[i])
    BY <1>2, <1>6, UnusedIs, Strings, Zenon DEF Waits
  <2> QED BY <2>1, Zenon DEF Waiters
<1>13. TableOK(task, next_pid - 1)
  <2>1. next_pid - 1 = 1
    BY <1>1 DEF InitPid
  <2> QED BY <1>8, <1>9, <1>10, <1>11, <1>12, <2>1, Zenon DEF TableOK
<1>14. Processor
  <2>1. calls \in Repertoire
    BY <1>1, RepertoireAssumption, Zenon
  <2>2. next_pid \in Nat /\ next_pid >= 2 /\ next_pid <= calls.pids + 1
    <3>1. calls.pids \in Nat \ {0}
      BY <2>1 DEF Repertoire
    <3> QED BY <1>1, <3>1 DEF InitPid
  <2>3. "user" \in Pcs /\ "user" # "deliver" /\ "user" # "kill"
    BY DEF Pcs
  <2>4. \A i \in Slots : task[i].state = "RUNNING" => i = 1
    BY <1>6, UnusedIs, Strings, Zenon
  <2> QED BY <1>1, <1>2, <1>5, <1>6, <2>1, <2>2, <2>3, <2>4, Zenon DEF Processor
<1> QED BY <1>13, <1>14, Zenon DEF IInv

LEMMA NextOK ==
    ASSUME IInv, [Next]_vars PROVE Good
<1>1. CASE Next
  BY <1>1, ForkStep, ExitStep, WaitStep, SleepStep, RetryStep, KillActStep, KillGroupStep,
     KillStepStep, SetpgidStep, SigactionStep, SigprocmaskStep, SigreturnStep, ExecStep,
     YieldStep, TimerStep, IdleStep, DeliverStep, Zenon DEF Next
<1>2. CASE UNCHANGED vars
  <2>1. /\ task' = task /\ cur' = cur /\ pc' = pc /\ nxt' = nxt /\ killing' = killing
        /\ next_pid' = next_pid /\ calls' = calls
    BY <1>2 DEF vars
  <2>2. IInv'
    BY <2>1, Zenon DEF IInv, TableOK, Tab, Named, Family, Waiters, Processor
  <2>3. \A i \in Slots : Mild(task[i], task'[i])
    BY <2>1, GentleIs, Zenon
  <2> QED BY <2>2, <2>3, MildSteps, Zenon DEF Good
<1> QED BY <1>1, <1>2

LEMMA Always == Spec => []IInv
<1>1. Init => IInv
  BY InitOK
<1>2. IInv /\ [Next]_vars => IInv'
  BY NextOK, Zenon DEF Good
<1> QED BY <1>1, <1>2, PTL DEF Spec

LEMMA TypeIs ==
    ASSUME IInv PROVE TypeOK
<1>1. \A i \in Slots : task[i] \in TaskRecord
  BY Zenon DEF IInv, TableOK, Tab, Local
<1>2. ASSUME NEW i \in Slots
      PROVE  /\ task[i].state \in {"UNUSED", "RUNNABLE", "RUNNING", "WAITING", "STOPPED", "ZOMBIE"}
             /\ task[i].wait_kind \in {"NONE", "CHILD", "SLEEP"}
             /\ task[i].act \in [Signals -> Action]
             /\ task[i].pending \subseteq Signals /\ task[i].mask \subseteq Signals
  <2>1. task[i] \in TaskRecord
    BY <1>1, Zenon
  <2> QED BY <2>1 DEF TaskRecord, States
<1>3. /\ next_pid \in Nat /\ next_pid >= 2 /\ next_pid <= calls.pids + 1 /\ calls \in Repertoire
      /\ cur \in Slots /\ pc \in Pcs /\ (pc = "deliver") = (nxt # 0) /\ (nxt = 0 \/ nxt \in Slots)
  BY Zenon DEF IInv, Processor
<1>4. calls.pids \in Nat
  BY <1>3 DEF Repertoire
<1>5. ASSUME NEW i \in Slots
      PROVE  task[i].pid \in 0 .. calls.pids /\ task[i].ppid \in -1 .. calls.pids
  <2>1. task[i].pid \in 0 .. next_pid - 1 /\ task[i].ppid \in -1 .. next_pid - 1
    BY Zenon DEF IInv, TableOK, Named
  <2>2. next_pid \in Nat /\ next_pid <= calls.pids + 1
    BY <1>3, Zenon
  <2> QED BY <1>4, <2>1, <2>2
<1>6. next_pid \in 2 .. calls.pids + 1
  BY <1>3, <1>4
<1>7. nxt \in 0 .. NSlots
  BY <1>3, SlotsAssumption DEF Slots
<1>8. pc \in {"user", "kill", "deliver", "idle", "idle_late"}
  BY <1>3 DEF Pcs
<1> QED BY <1>2, <1>3, <1>5, <1>6, <1>7, <1>8, Zenon DEF TypeOK

LEMMA RunnerIs ==
    ASSUME IInv PROVE OneRunner
<1>1. \A i \in Slots : CallOK(task[i])
  BY Zenon DEF IInv, TableOK, Tab, Local
<1>2. \A i, j \in Used(task) : task[i].pid = task[j].pid => i = j
  BY SetsAre, Zenon DEF IInv, TableOK, Named
<1>3. /\ \A i \in Slots : task[i].state = "RUNNING" => i = cur /\ pc \in {"user", "kill"}
      /\ pc = "user" => task[cur].state = "RUNNING"
      /\ pc = "deliver" => task[nxt].state = "RUNNABLE"
  BY Zenon DEF IInv, Processor
<1> QED BY <1>1, <1>2, <1>3, TypeIs, Zenon DEF OneRunner, CallOK, self

(***************************************************************************)
(* Every task whose ppid names a process has that process alive in the     *)
(* table, so that somebody can wait for it: the exit of a parent hands     *)
(* over all its children, zombies included (task_reparent_children), in    *)
(* every order of forks, exits, kills and reaping.  One task runs at a     *)
(* time, and it is the one the delivery loop left runnable.                *)
(***************************************************************************)
THEOREM ParentsLive == Spec => []ChildHasLiveParent
<1>1. ASSUME IInv PROVE ChildHasLiveParent
  <2>1. ASSUME NEW c \in Used(task), task[c].ppid > 0
        PROVE  task_parent_of(task, c) \in Live(task)
    <3>1. c \in Slots /\ InUse(task[c]) /\ Named(task, next_pid - 1) /\ Family(task)
      BY <1>1, SetsAre, Zenon DEF IInv, TableOK
    <3> QED BY <2>1, <3>1, ParentIs, SetsAre, Zenon
  <2> QED BY <1>1, <2>1, RunnerIs, Zenon DEF ChildHasLiveParent
<1> QED BY <1>1, Always, PTL

(***************************************************************************)
(* No lost wakeup in wait: a task blocked in task_wait has a child that it *)
(* waits for, and none of those children has an event that its options ask *)
(* for.  Whatever exits, stops, continues or is handed to init wakes the   *)
(* waiter in the same step.                                                *)
(***************************************************************************)
THEOREM WaitersWoken == Spec => []WaiterNotStuck
<1>1. ASSUME IInv PROVE WaiterNotStuck
  <2>1. ASSUME NEW p \in Slots, Waits(task[p])
        PROVE  LET kids == {c \in Used(task) :
                              task_wait_matches_filter(task, p, c, task[p].wait_pid)}
               IN /\ kids # {}
                  /\ \A c \in kids :
                       /\ Event(task, c) # "EXIT"
                       /\ Event(task, c) = "STOP" => "UNTRACED" \notin task[p].tf.opts
                       /\ Event(task, c) = "CONT" => "CONTINUED" \notin task[p].tf.opts
    <3> DEFINE kids == {c \in Used(task) :
                          task_wait_matches_filter(task, p, c, task[p].wait_pid)}
    <3>1. \A c : c \in kids <=> c \in Slots /\ InUse(task[c]) /\ Awaits(task[p], task[c])
      BY <2>1, MatchIs, SetsAre, Zenon
    <3> HIDE DEF kids
    <3>2. /\ \E c \in Slots : InUse(task[c]) /\ Awaits(task[p], task[c])
          /\ \A c \in Slots : InUse(task[c]) /\ Awaits(task[p], task[c]) => Silent(task[p], task[c])
      BY <1>1, <2>1, Zenon DEF IInv, TableOK, Waiters
    <3>3. kids # {} /\ \A c \in kids : Silent(task[p], task[c])
      BY <3>1, <3>2, Zenon
    <3> QED BY <3>3, SetsAre, Zenon DEF Silent, kids
  <2> QED BY <2>1, Zenon DEF WaiterNotStuck, Waits
<1> QED BY <1>1, Always, PTL

(***************************************************************************)
(* The pending bit mask and the queue of task.c agree for every task,      *)
(* whatever enqueue, clear, delivery and exec did, and a SIGSTOP never     *)
(* outlives the stop it caused.                                            *)
(***************************************************************************)
THEOREM QueuesSound == Spec => []PendingSound
<1>1. ASSUME IInv PROVE PendingSound
  <2>1. ASSUME NEW i \in Slots
        PROVE  /\ QueueMatchesMask(task[i])
               /\ SIGSTOP \in task[i].pending => task[i].state = "STOPPED"
    <3>1. SignalsOK(task[i]) /\ Halted(task[i])
      BY <1>1, Zenon DEF IInv, TableOK, Tab, Local
    <3>2. Cardinality(Held(task[i].queue)) = Len(task[i].queue)
      BY <3>1, CountIs, Zenon DEF SignalsOK
    <3>3. Held(task[i].queue) = {task[i].queue[k] : k \in 1 .. Len(task[i].queue)}
      BY Zenon DEF Held
    <3> QED BY <3>1, <3>2, <3>3, Zenon DEF SignalsOK, QueueMatchesMask, Halted
  <2> QED BY <2>1, Zenon DEF PendingSound
<1> QED BY <1>1, Always, PTL

(***************************************************************************)
(* A pending SIGCHLD is dropped only by its delivery, by the end of the    *)
(* task, by exec, by a wait that names no child, or when no child has      *)
(* anything left to report: reaping one child, or changing the action of   *)
(* SIGCHLD, never loses the notice of another child.                       *)
(***************************************************************************)
THEOREM NoticesKept == Spec => SigchldKept
<1>1. IInv /\ [Next]_vars => [SigchldStep]_vars
  BY NextOK, Zenon DEF Good
<1> QED BY <1>1, Always, PTL DEF Spec, SigchldKept, SigchldStep

(***************************************************************************)
(* While the handler of a task runs, its one saved trap frame and its      *)
(* saved mask are those of the interruption that started the handler: no   *)
(* second delivery, wakeup or timer interrupt overwrites what sigreturn    *)
(* restores.                                                               *)
(***************************************************************************)
THEOREM FramesKept == Spec => SavedFrameKept
<1>1. IInv /\ [Next]_vars => [FrameStep]_vars
  BY NextOK, Zenon DEF Good
<1> QED BY <1>1, Always, PTL DEF Spec, SavedFrameKept, FrameStep
=============================================================================

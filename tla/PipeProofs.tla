----------------------------- MODULE PipeProofs ------------------------------
(***************************************************************************)
(* The ring buffer of kernel/pipe.c implements the queue of PipeFifo, for  *)
(* every capacity, byte alphabet and set of calls.                         *)
(***************************************************************************)
EXTENDS PipeRing, TLAPS

IInv == pipe \in PipeRecord /\ got \in Seq(Byte) /\ RingConsistent

\* Advance is one conditional subtraction, since no call moves further than
\* the capacity.
LEMMA AdvanceWraps ==
    ASSUME NEW pos \in Positions, NEW n \in 0 .. PIPE_CAPACITY
    PROVE  /\ Advance(pos, n) \in Positions
           /\ Advance(pos, n) = IF pos + n < PIPE_CAPACITY THEN pos + n
                                ELSE pos + n - PIPE_CAPACITY
<1> USE PipeAssumption DEF Positions
<1>1. CASE pos + n < PIPE_CAPACITY
  BY <1>1 DEF Advance
<1>2. CASE pos + n >= PIPE_CAPACITY
  <2>1. pos + n = 1 * PIPE_CAPACITY + (pos + n - PIPE_CAPACITY)
    OBVIOUS
  <2>2. pos + n - PIPE_CAPACITY \in 0 .. PIPE_CAPACITY - 1
    BY <1>2
  <2>3. (pos + n) % PIPE_CAPACITY = pos + n - PIPE_CAPACITY
    BY <2>1, <2>2
  <2> QED BY <1>2, <2>2, <2>3 DEF Advance
<1> QED BY <1>1, <1>2

LEMMA AdvanceAdds ==
    ASSUME NEW pos \in Positions, NEW m \in Nat, NEW n \in Nat,
           m + n <= PIPE_CAPACITY
    PROVE  Advance(Advance(pos, m), n) = Advance(pos, m + n)
<1> USE PipeAssumption DEF Positions
<1>1. m \in 0 .. PIPE_CAPACITY /\ n \in 0 .. PIPE_CAPACITY
      /\ m + n \in 0 .. PIPE_CAPACITY
  OBVIOUS
<1>2. Advance(pos, m) \in Positions
  BY <1>1, AdvanceWraps
<1>3. Advance(pos, m) = IF pos + m < PIPE_CAPACITY THEN pos + m
                        ELSE pos + m - PIPE_CAPACITY
  BY <1>1, AdvanceWraps
<1>4. Advance(pos, m + n) = IF pos + (m + n) < PIPE_CAPACITY THEN pos + (m + n)
                            ELSE pos + (m + n) - PIPE_CAPACITY
  BY <1>1, AdvanceWraps, Zenon
<1>5. Advance(Advance(pos, m), n)
        = IF Advance(pos, m) + n < PIPE_CAPACITY THEN Advance(pos, m) + n
          ELSE Advance(pos, m) + n - PIPE_CAPACITY
  BY <1>1, <1>2, AdvanceWraps, Zenon
<1> QED BY <1>1, <1>3, <1>4, <1>5

\* Ahead inverts Advance.
LEMMA AheadOfAdvance ==
    ASSUME NEW pos \in Positions, NEW n \in Positions
    PROVE  Ahead(pos, Advance(pos, n)) = n
<1>1. n \in 0 .. PIPE_CAPACITY
  BY PipeAssumption DEF Positions
<1>2. Advance(pos, n) = IF pos + n < PIPE_CAPACITY THEN pos + n
                        ELSE pos + n - PIPE_CAPACITY
  BY <1>1, AdvanceWraps
<1>3. CASE pos + n < PIPE_CAPACITY
  <2>1. Advance(pos, n) = pos + n
    BY <1>2, <1>3
  <2> QED BY <2>1, PipeAssumption DEF Ahead, Positions
<1>4. CASE pos + n >= PIPE_CAPACITY
  <2>1. Advance(pos, n) = pos + n - PIPE_CAPACITY
    BY <1>2, <1>4, PipeAssumption DEF Positions
  <2>2. ~(pos + n - PIPE_CAPACITY >= pos)
    BY PipeAssumption DEF Positions
  <2> QED BY <2>1, <2>2, PipeAssumption DEF Ahead, Positions
<1> QED BY <1>3, <1>4, PipeAssumption DEF Positions

\* Seen from the write position, the bytes still in the ring come last.
LEMMA AheadOfOld ==
    ASSUME NEW r \in Positions, NEW c \in 0 .. PIPE_CAPACITY, NEW j \in Nat, j < c
    PROVE  Ahead(Advance(r, c), Advance(r, j)) = j - c + PIPE_CAPACITY
<1> USE PipeAssumption DEF Positions
<1> DEFINE w == Advance(r, c)
           k == Advance(r, j)
<1>1. w = IF r + c < PIPE_CAPACITY THEN r + c ELSE r + c - PIPE_CAPACITY
  BY AdvanceWraps
<1>2. k = IF r + j < PIPE_CAPACITY THEN r + j ELSE r + j - PIPE_CAPACITY
  <2>1. j \in 0 .. PIPE_CAPACITY
    OBVIOUS
  <2> QED BY <2>1, AdvanceWraps
<1> HIDE DEF w, k
<1>3. CASE r + c < PIPE_CAPACITY
  <2>1. w = r + c /\ k = r + j
    BY <1>1, <1>2, <1>3
  <2>2. ~(k >= w)
    BY <2>1
  <2> QED BY <2>1, <2>2 DEF Ahead, w, k
<1>4. CASE r + c >= PIPE_CAPACITY /\ r + j < PIPE_CAPACITY
  <2>1. w = r + c - PIPE_CAPACITY /\ k = r + j
    BY <1>1, <1>2, <1>4
  <2>2. k >= w
    BY <2>1
  <2> QED BY <2>1, <2>2 DEF Ahead, w, k
<1>5. CASE r + j >= PIPE_CAPACITY
  <2>1. w = r + c - PIPE_CAPACITY /\ k = r + j - PIPE_CAPACITY
    BY <1>1, <1>2, <1>5
  <2>2. ~(k >= w)
    BY <2>1
  <2> QED BY <2>1, <2>2 DEF Ahead, w, k
<1> QED BY <1>3, <1>4, <1>5

-----------------------------------------------------------------------------
\* The fields of a pipe_t that satisfies the invariant.
LEMMA Fields ==
    ASSUME IInv
    PROVE  /\ pipe.used \in BOOLEAN
           /\ pipe.data \in [Positions -> Byte]
           /\ pipe.rpos \in Positions
           /\ pipe.wpos \in Positions
           /\ pipe.count \in 0 .. PIPE_CAPACITY
           /\ pipe.readers \in Nat
           /\ pipe.writers \in Nat
           /\ pipe.wpos = Advance(pipe.rpos, pipe.count)
           /\ pipe.used => pipe.readers + pipe.writers > 0
BY DEF IInv, PipeRecord, RingConsistent

\* A write puts its bytes after the old ones and moves none of those.
LEMMA WriteAppends ==
    ASSUME IInv, NEW src \in Seq(Byte), Write(src)
    PROVE  LET n == WriteCount(pipe, Len(src))
           IN /\ IInv'
              /\ n = IF Len(src) <= PIPE_CAPACITY - pipe.count THEN Len(src)
                     ELSE PIPE_CAPACITY - pipe.count
              /\ pipe'.used = pipe.used
              /\ pipe'.readers = pipe.readers
              /\ pipe'.writers = pipe.writers
              /\ pipe'.count = pipe.count + n
              /\ \A i \in 1 .. pipe.count : Contents'[i] = Contents[i]
              /\ \A i \in 1 .. n : Contents'[pipe.count + i] = src[i]
<1> DEFINE n == WriteCount(pipe, Len(src))
           new == [k \in Positions |->
                     IF Ahead(pipe.wpos, k) < n
                     THEN src[Ahead(pipe.wpos, k) + 1] ELSE pipe.data[k]]
<1>0. /\ pipe.used /\ pipe \in PipeRecord /\ Len(src) \in Nat
      /\ \A i \in 1 .. Len(src) : src[i] \in Byte
      /\ PIPE_CAPACITY \in Nat \ {0}
  BY PipeAssumption DEF Write, IInv
<1>f. /\ pipe.data \in [Positions -> Byte]
      /\ pipe.rpos \in Positions /\ pipe.wpos \in Positions
      /\ pipe.count \in 0 .. PIPE_CAPACITY
      /\ pipe.wpos = Advance(pipe.rpos, pipe.count)
      /\ pipe.readers + pipe.writers > 0
  BY <1>0, Fields
<1>1. /\ n \in Nat /\ n <= Len(src) /\ pipe.count + n <= PIPE_CAPACITY
      /\ n = IF Len(src) <= PIPE_CAPACITY - pipe.count THEN Len(src)
             ELSE PIPE_CAPACITY - pipe.count
  BY <1>0, <1>f DEF WriteCount, Lesser
<1>2. /\ pipe' = [pipe EXCEPT !.data = new, !.wpos = Advance(pipe.wpos, n),
                              !.count = pipe.count + n]
      /\ got' = << >>
  BY DEF Write, pipe_write
<1>3. /\ pipe'.used = pipe.used /\ pipe'.data = new /\ pipe'.rpos = pipe.rpos
      /\ pipe'.wpos = Advance(pipe.wpos, n) /\ pipe'.count = pipe.count + n
      /\ pipe'.readers = pipe.readers /\ pipe'.writers = pipe.writers
  <2> HIDE DEF new, n
  <2> QED BY <1>0, <1>2, Zenon DEF PipeRecord
<1>4. new \in [Positions -> Byte]
  <2> SUFFICES ASSUME NEW k \in Positions, Ahead(pipe.wpos, k) < n
               PROVE  src[Ahead(pipe.wpos, k) + 1] \in Byte
    BY <1>f
  <2>1. Ahead(pipe.wpos, k) \in Nat
    BY <1>f, PipeAssumption DEF Ahead, Positions
  <2> QED BY <1>0, <1>1, <2>1
<1>5. Advance(pipe.wpos, n) \in Positions /\ n \in 0 .. PIPE_CAPACITY
  <2>1. n \in 0 .. PIPE_CAPACITY
    BY <1>0, <1>1, <1>f
  <2> QED BY <1>f, <2>1, AdvanceWraps
<1>6. pipe' \in PipeRecord
  <2> HIDE DEF new, n
  <2>1. pipe.count + n \in 0 .. PIPE_CAPACITY
    BY <1>0, <1>1, <1>f
  <2>2. pipe' = [used |-> pipe.used, data |-> new, rpos |-> pipe.rpos,
                 wpos |-> Advance(pipe.wpos, n), count |-> pipe.count + n,
                 readers |-> pipe.readers, writers |-> pipe.writers]
    BY <1>0, <1>2, Zenon DEF PipeRecord
  <2> QED BY <1>0, <1>4, <1>5, <2>1, <2>2 DEF PipeRecord
<1>7. pipe'.wpos = Advance(pipe'.rpos, pipe'.count)
  <2> HIDE DEF n
  <2>1. pipe.count \in Nat
    BY <1>0, <1>f
  <2>2. Advance(Advance(pipe.rpos, pipe.count), n) = Advance(pipe.rpos, pipe.count + n)
    BY <1>1, <1>f, <2>1, AdvanceAdds
  <2> QED BY <1>3, <1>f, <2>2
<1>8. IInv'
  BY <1>0, <1>2, <1>3, <1>6, <1>7, <1>f DEF IInv, RingConsistent
<1>9. ASSUME NEW i \in 1 .. pipe.count
      PROVE  Contents'[i] = Contents[i]
  <2> DEFINE k == Advance(pipe.rpos, i - 1)
  <2>1. i - 1 \in 0 .. PIPE_CAPACITY
    BY <1>0, <1>f
  <2>2. k \in Positions
    BY <1>f, <2>1, AdvanceWraps
  <2>4. ~(Ahead(pipe.wpos, k) < n)
    <3>1. i - 1 \in Nat /\ i - 1 < pipe.count
      BY <1>f
    <3>2. Ahead(pipe.wpos, k) = (i - 1) - pipe.count + PIPE_CAPACITY
      BY <1>f, <3>1, AheadOfOld
    <3> HIDE DEF k, n
    <3> QED BY <1>0, <1>1, <1>f, <3>1, <3>2
  <2>5. new[k] = pipe.data[k]
    BY <2>2, <2>4
  <2>6. i \in 1 .. pipe'.count
    <3> HIDE DEF n
    <3> QED BY <1>0, <1>1, <1>3, <1>f
  <2> QED BY <1>3, <2>5, <2>6 DEF Contents
<1>10. ASSUME NEW i \in 1 .. n
       PROVE  Contents'[pipe.count + i] = src[i]
  <2> DEFINE k == Advance(pipe.rpos, (pipe.count + i) - 1)
  <2>1. k = Advance(pipe.wpos, i - 1)
    <3>1. i - 1 \in Nat /\ pipe.count \in Nat /\ pipe.count + (i - 1) <= PIPE_CAPACITY
          /\ (pipe.count + i) - 1 = pipe.count + (i - 1)
      BY <1>0, <1>1, <1>f
    <3> QED BY <1>f, <3>1, AdvanceAdds
  <2>2. i - 1 \in Positions
    BY <1>0, <1>1, <1>f DEF Positions
  <2>3. Ahead(pipe.wpos, k) = i - 1
    BY <1>f, <2>1, <2>2, AheadOfAdvance
  <2>4. k \in Positions
    <3>1. i - 1 \in 0 .. PIPE_CAPACITY
      BY <2>2, PipeAssumption DEF Positions
    <3> QED BY <1>f, <2>1, <3>1, AdvanceWraps
  <2>5. new[k] = src[i]
    <3> HIDE DEF k, n
    <3>1. Ahead(pipe.wpos, k) < n /\ Ahead(pipe.wpos, k) + 1 = i
      BY <1>1, <2>3
    <3> QED BY <2>4, <3>1
  <2>6. pipe.count + i \in 1 .. pipe'.count
    BY <1>1, <1>3, <1>f
  <2>7. \A j \in 1 .. pipe'.count :
          Contents'[j] = pipe'.data[Advance(pipe'.rpos, j - 1)]
    BY DEF Contents
  <2> HIDE DEF n, new
  <2> DEFINE j == pipe.count + i
  <2>8. j \in 1 .. pipe'.count /\ k = Advance(pipe.rpos, j - 1)
    BY <2>6
  <2> HIDE DEF j, k
  <2>9. Contents'[j] = pipe'.data[k]
    BY <1>3, <2>7, <2>8
  <2> QED BY <1>3, <2>5, <2>9 DEF j
<1> QED BY <1>1, <1>3, <1>8, <1>9, <1>10

\* A read takes the oldest bytes and leaves the others in order.
LEMMA ReadTakes ==
    ASSUME IInv, NEW len \in Nat, Read(len)
    PROVE  LET n == ReadCount(pipe, len)
           IN /\ IInv'
              /\ n = IF len <= pipe.count THEN len ELSE pipe.count
              /\ pipe'.used = pipe.used
              /\ pipe'.readers = pipe.readers
              /\ pipe'.writers = pipe.writers
              /\ pipe'.count = pipe.count - n
              /\ got' = [i \in 1 .. n |-> Contents[i]]
              /\ \A i \in 1 .. pipe'.count : Contents'[i] = Contents[n + i]
<1> DEFINE n == ReadCount(pipe, len)
<1>0. /\ pipe.used /\ pipe \in PipeRecord /\ PIPE_CAPACITY \in Nat \ {0}
  BY PipeAssumption DEF Read, IInv
<1>f. /\ pipe.data \in [Positions -> Byte]
      /\ pipe.rpos \in Positions /\ pipe.wpos \in Positions
      /\ pipe.count \in 0 .. PIPE_CAPACITY /\ pipe.count \in Nat
      /\ pipe.wpos = Advance(pipe.rpos, pipe.count)
      /\ pipe.readers + pipe.writers > 0
  BY <1>0, Fields
<1>1. /\ n \in Nat /\ n <= pipe.count /\ pipe.count - n \in Nat
      /\ n = IF len <= pipe.count THEN len ELSE pipe.count
  BY <1>0, <1>f DEF ReadCount, Lesser
<1>2. /\ pipe' = [pipe EXCEPT !.rpos = Advance(pipe.rpos, n),
                              !.count = pipe.count - n]
      /\ got' = [i \in 1 .. n |-> pipe.data[Advance(pipe.rpos, i - 1)]]
  BY DEF Read, pipe_read, ReadBytes
<1> HIDE DEF n
<1>3. pipe' = [used |-> pipe.used, data |-> pipe.data, rpos |-> Advance(pipe.rpos, n),
               wpos |-> pipe.wpos, count |-> pipe.count - n,
               readers |-> pipe.readers, writers |-> pipe.writers]
  BY <1>0, <1>2, Zenon DEF PipeRecord
<1>4. n \in 0 .. PIPE_CAPACITY /\ pipe.count - n \in 0 .. PIPE_CAPACITY
  BY <1>0, <1>1, <1>f
<1>5. Advance(pipe.rpos, n) \in Positions
  BY <1>4, <1>f, AdvanceWraps
<1>6. pipe' \in PipeRecord
  BY <1>0, <1>3, <1>4, <1>5 DEF PipeRecord
<1>7. pipe'.wpos = Advance(pipe'.rpos, pipe'.count)
  <2>1. Advance(Advance(pipe.rpos, n), pipe.count - n)
          = Advance(pipe.rpos, n + (pipe.count - n))
    <3>1. n + (pipe.count - n) <= PIPE_CAPACITY
      BY <1>0, <1>1, <1>f
    <3> QED BY <1>1, <1>f, <3>1, AdvanceAdds
  <2>2. n + (pipe.count - n) = pipe.count
    BY <1>1, <1>f
  <2> QED BY <1>3, <1>f, <2>1, <2>2
<1>8. \A i \in 1 .. pipe.count :
        /\ Advance(pipe.rpos, i - 1) \in Positions
        /\ Contents[i] = pipe.data[Advance(pipe.rpos, i - 1)]
  <2> SUFFICES ASSUME NEW i \in 1 .. pipe.count
               PROVE  /\ Advance(pipe.rpos, i - 1) \in Positions
                      /\ Contents[i] = pipe.data[Advance(pipe.rpos, i - 1)]
    OBVIOUS
  <2>1. i - 1 \in 0 .. PIPE_CAPACITY
    BY <1>0, <1>f
  <2> QED BY <1>f, <2>1, AdvanceWraps DEF Contents
<1>9. got' = [i \in 1 .. n |-> Contents[i]] /\ got' \in Seq(Byte)
  <2>1. \A i \in 1 .. n : i \in 1 .. pipe.count
    BY <1>1, <1>f
  <2>2. got' = [i \in 1 .. n |-> Contents[i]]
    BY <1>2, <1>8, <2>1
  <2>3. \A i \in 1 .. n : Contents[i] \in Byte
    BY <1>8, <1>f, <2>1
  <2> QED BY <1>1, <2>2, <2>3
<1>10. IInv'
  BY <1>0, <1>3, <1>6, <1>7, <1>9, <1>f DEF IInv, RingConsistent
<1>11. ASSUME NEW i \in 1 .. pipe'.count
       PROVE  Contents'[i] = Contents[n + i]
  <2>1. i - 1 \in Nat /\ n + (i - 1) <= PIPE_CAPACITY /\ n + i \in 1 .. pipe.count
        /\ (n + i) - 1 = n + (i - 1)
    BY <1>0, <1>1, <1>3, <1>f
  <2>2. Advance(Advance(pipe.rpos, n), i - 1) = Advance(pipe.rpos, n + (i - 1))
    BY <1>1, <1>f, <2>1, AdvanceAdds
  <2>3. Contents'[i] = pipe.data[Advance(Advance(pipe.rpos, n), i - 1)]
    BY <1>3 DEF Contents
  <2>4. Contents[n + i] = pipe.data[Advance(pipe.rpos, (n + i) - 1)]
    BY <1>8, <2>1
  <2> QED BY <2>1, <2>2, <2>3, <2>4
<1> QED BY <1>1, <1>3, <1>9, <1>10, <1>11 DEF n

-----------------------------------------------------------------------------
LEMMA AdvanceZero == Advance(0, 0) = 0
<1>1. 0 \in Positions /\ 0 \in 0 .. PIPE_CAPACITY
  BY PipeAssumption DEF Positions
<1>2. Advance(0, 0) = IF 0 + 0 < PIPE_CAPACITY THEN 0 + 0 ELSE 0 + 0 - PIPE_CAPACITY
  BY <1>1, AdvanceWraps
<1> QED BY <1>2, PipeAssumption

LEMMA InitIInv == Init => IInv
<1> SUFFICES ASSUME Init PROVE IInv
  OBVIOUS
<1>1. FreePipe \in PipeRecord
  BY PipeAssumption DEF FreePipe, PipeRecord, Positions
<1>2. Advance(0, 0) = 0
  BY AdvanceZero
<1>3. FreePipe.wpos = 0 /\ FreePipe.rpos = 0 /\ FreePipe.count = 0
      /\ FreePipe.used = FALSE
  BY DEF FreePipe
<1> QED BY <1>1, <1>2, <1>3 DEF Init, IInv, RingConsistent

\* Giving up an end: the pipe keeps its bytes while another end is open, and is
\* zeroed when none is.
LEMMA DropEndOK ==
    ASSUME IInv, pipe.used, got' = << >>, NEW r \in Nat, NEW w \in Nat,
           NEW p \in PipeRecord, p.used, p.data = pipe.data, p.rpos = pipe.rpos,
           p.wpos = pipe.wpos, p.count = pipe.count, p.readers = r, p.writers = w,
           pipe' = pipe_maybe_release(p)
    PROVE  /\ IInv'
           /\ pipe'.readers = r /\ pipe'.writers = w
           /\ pipe'.used = (r + w > 0)
           /\ Contents' = IF r + w > 0 THEN Contents ELSE << >>
<1>1. CASE r = 0 /\ w = 0
  <2>1. pipe' = FreePipe
    BY <1>1 DEF pipe_maybe_release
  <2>2. IInv'
    <3>1. FreePipe \in PipeRecord
      BY PipeAssumption DEF FreePipe, PipeRecord, Positions
    <3>2. Advance(0, 0) = 0
      BY AdvanceZero
    <3>3. FreePipe.wpos = 0 /\ FreePipe.rpos = 0 /\ FreePipe.count = 0
          /\ FreePipe.used = FALSE
      BY DEF FreePipe
    <3> QED BY <2>1, <3>1, <3>2, <3>3 DEF IInv, RingConsistent
  <2>3. pipe'.count = 0 /\ pipe'.used = FALSE /\ pipe'.readers = 0 /\ pipe'.writers = 0
    BY <2>1 DEF FreePipe
  <2>4. Contents' = << >>
    BY <2>3 DEF Contents
  <2>5. (r + w > 0) = FALSE
    BY <1>1
  <2> QED BY <1>1, <2>2, <2>3, <2>4, <2>5, Zenon
<1>2. CASE ~(r = 0 /\ w = 0)
  <2>1. pipe' = p
    BY <1>2 DEF pipe_maybe_release
  <2>2. r + w > 0
    BY <1>2
  <2>3. /\ pipe'.used /\ pipe'.data = pipe.data /\ pipe'.rpos = pipe.rpos
        /\ pipe'.wpos = pipe.wpos /\ pipe'.count = pipe.count
        /\ pipe'.readers = r /\ pipe'.writers = w
    BY <2>1
  <2>4. pipe' \in PipeRecord
    BY <2>1
  <2>5. IInv'
    BY <2>2, <2>3, <2>4, Fields DEF IInv, RingConsistent
  <2>6. Contents' = Contents
    BY <2>3 DEF Contents
  <2> QED BY <2>2, <2>3, <2>5, <2>6, Zenon
<1> QED BY <1>1, <1>2

\* The second part of a concatenation.
LEMMA AppendedAt ==
    ASSUME NEW S, NEW s \in Seq(S), NEW t \in Seq(S), NEW i \in 1 .. Len(t)
    PROVE  (s \o t)[Len(s) + i] = t[i]
<1>1. Len(s) \in Nat /\ Len(t) \in Nat
  OBVIOUS
<1>2. Len(s) + i \in 1 .. Len(s) + Len(t) /\ ~(Len(s) + i <= Len(s))
      /\ (Len(s) + i) - Len(s) = i
  BY <1>1
<1> QED BY <1>1, <1>2

\* Every call keeps the invariant and is a call of the queue.
LEMMA StepRefines ==
    ASSUME IInv, [Next]_vars
    PROVE  IInv' /\ [Fifo!Next]_(Fifo!vars)
<1>r. pipe \in PipeRecord
  BY DEF IInv
<1>f. /\ pipe.used \in BOOLEAN /\ pipe.data \in [Positions -> Byte]
      /\ pipe.rpos \in Positions /\ pipe.wpos \in Positions
      /\ pipe.count \in 0 .. PIPE_CAPACITY /\ pipe.count \in Nat
      /\ pipe.readers \in Nat /\ pipe.writers \in Nat
      /\ pipe.wpos = Advance(pipe.rpos, pipe.count)
  BY Fields, PipeAssumption
<1>c. Contents \in Seq(Byte) /\ Len(Contents) = pipe.count
  <2>1. \A i \in 1 .. pipe.count : pipe.data[Advance(pipe.rpos, i - 1)] \in Byte
    <3> SUFFICES ASSUME NEW i \in 1 .. pipe.count
                 PROVE  pipe.data[Advance(pipe.rpos, i - 1)] \in Byte
      OBVIOUS
    <3>1. i - 1 \in 0 .. PIPE_CAPACITY
      BY <1>f, PipeAssumption
    <3>2. Advance(pipe.rpos, i - 1) \in Positions
      BY <1>f, <3>1, AdvanceWraps
    <3> QED BY <1>f, <3>2
  <2> QED BY <1>f, <2>1 DEF Contents
<1>1. CASE Alloc
  <2>1. pipe' = [used |-> TRUE, data |-> [k \in Positions |-> Zero], rpos |-> 0,
                 wpos |-> 0, count |-> 0, readers |-> 1, writers |-> 1]
        /\ got' = << >> /\ ~pipe.used
    BY <1>1, Zenon DEF Alloc, NewPipe, FreePipe
  <2>2. pipe' \in PipeRecord
    BY <2>1, PipeAssumption DEF PipeRecord, Positions
  <2>3. Advance(0, 0) = 0
    BY AdvanceZero
  <2>4. IInv'
    BY <2>1, <2>2, <2>3 DEF IInv, RingConsistent
  <2>5. Contents' = << >>
    BY <2>1 DEF Contents
  <2>6. Fifo!Open
    BY <2>1, <2>5 DEF Fifo!Open
  <2> QED BY <2>4, <2>6 DEF Fifo!Next
<1>2. CASE RefRead
  <2>1. pipe' = [pipe EXCEPT !.readers = pipe.readers + 1] /\ got' = << >>
        /\ pipe.used /\ pipe.readers < MaxEnds
    BY <1>2 DEF RefRead, pipe_ref_read
  <2> DEFINE r == pipe.readers + 1
  <2>n. r \in Nat
    BY <1>f
  <2> HIDE DEF r
  <2>e. pipe' = [pipe EXCEPT !.readers = r]
    BY <2>1 DEF r
  <2>m. pipe' \in PipeRecord
    BY <1>r, <2>n, <2>e DEF PipeRecord
  <2>2. /\ pipe'.used = pipe.used /\ pipe'.data = pipe.data /\ pipe'.rpos = pipe.rpos
        /\ pipe'.wpos = pipe.wpos /\ pipe'.count = pipe.count
        /\ pipe'.readers = r /\ pipe'.writers = pipe.writers
    BY <1>r, <2>e DEF PipeRecord
  <2>3. IInv'
    BY <1>f, <2>1, <2>2, <2>m DEF IInv, RingConsistent, r
  <2>4. Contents' = Contents
    BY <2>2 DEF Contents
  <2>5. Fifo!AddReader
    BY <2>1, <2>2, <2>4, Zenon DEF Fifo!AddReader, r
  <2> QED BY <2>3, <2>5 DEF Fifo!Next
<1>3. CASE RefWrite
  <2>1. pipe' = [pipe EXCEPT !.writers = pipe.writers + 1] /\ got' = << >>
        /\ pipe.used /\ pipe.writers < MaxEnds
    BY <1>3 DEF RefWrite, pipe_ref_write
  <2> DEFINE w == pipe.writers + 1
  <2>n. w \in Nat
    BY <1>f
  <2> HIDE DEF w
  <2>e. pipe' = [pipe EXCEPT !.writers = w]
    BY <2>1 DEF w
  <2>m. pipe' \in PipeRecord
    BY <1>r, <2>n, <2>e DEF PipeRecord
  <2>2. /\ pipe'.used = pipe.used /\ pipe'.data = pipe.data /\ pipe'.rpos = pipe.rpos
        /\ pipe'.wpos = pipe.wpos /\ pipe'.count = pipe.count
        /\ pipe'.readers = pipe.readers /\ pipe'.writers = w
    BY <1>r, <2>e DEF PipeRecord
  <2>3. IInv'
    BY <1>f, <2>1, <2>2, <2>m DEF IInv, RingConsistent, w
  <2>4. Contents' = Contents
    BY <2>2 DEF Contents
  <2>5. Fifo!AddWriter
    BY <2>1, <2>2, <2>4, Zenon DEF Fifo!AddWriter, w
  <2> QED BY <2>3, <2>5 DEF Fifo!Next
<1>4. CASE CloseRead
  <2> DEFINE p == [pipe EXCEPT !.readers = pipe.readers - 1]
  <2>1. pipe' = pipe_maybe_release(p) /\ got' = << >> /\ pipe.used /\ pipe.readers > 0
    BY <1>4 DEF CloseRead, pipe_has_readers, pipe_close_read
  <2>2. /\ p \in PipeRecord /\ p.used /\ p.data = pipe.data /\ p.rpos = pipe.rpos
        /\ p.wpos = pipe.wpos /\ p.count = pipe.count
        /\ p.readers = pipe.readers - 1 /\ p.writers = pipe.writers
        /\ pipe.readers - 1 \in Nat
    BY <1>r, <1>f, <2>1 DEF PipeRecord
  <2> HIDE DEF p
  <2>3. /\ IInv'
        /\ pipe'.readers = pipe.readers - 1 /\ pipe'.writers = pipe.writers
        /\ pipe'.used = (pipe.readers - 1 + pipe.writers > 0)
        /\ Contents' = IF pipe.readers - 1 + pipe.writers > 0
                       THEN Contents ELSE << >>
    BY <1>f, <2>1, <2>2, DropEndOK, Zenon
  <2>4. Fifo!DropReader
    BY <2>1, <2>3 DEF Fifo!DropReader, Fifo!DropEnd
  <2> QED BY <2>3, <2>4 DEF Fifo!Next
<1>5. CASE CloseWrite
  <2> DEFINE p == [pipe EXCEPT !.writers = pipe.writers - 1]
  <2>1. pipe' = pipe_maybe_release(p) /\ got' = << >> /\ pipe.used /\ pipe.writers > 0
    BY <1>5 DEF CloseWrite, pipe_has_writers, pipe_close_write
  <2>2. /\ p \in PipeRecord /\ p.used /\ p.data = pipe.data /\ p.rpos = pipe.rpos
        /\ p.wpos = pipe.wpos /\ p.count = pipe.count
        /\ p.readers = pipe.readers /\ p.writers = pipe.writers - 1
        /\ pipe.writers - 1 \in Nat
    BY <1>r, <1>f, <2>1 DEF PipeRecord
  <2> HIDE DEF p
  <2>3. /\ IInv'
        /\ pipe'.readers = pipe.readers /\ pipe'.writers = pipe.writers - 1
        /\ pipe'.used = (pipe.readers + (pipe.writers - 1) > 0)
        /\ Contents' = IF pipe.readers + (pipe.writers - 1) > 0
                       THEN Contents ELSE << >>
    BY <1>f, <2>1, <2>2, DropEndOK
  <2>4. Fifo!DropWriter
    BY <2>1, <2>3 DEF Fifo!DropWriter, Fifo!DropEnd
  <2> QED BY <2>3, <2>4 DEF Fifo!Next
<1>6. ASSUME NEW src \in Writes, Write(src)
      PROVE  IInv' /\ Fifo!Put(src)
  <2> DEFINE n == WriteCount(pipe, Len(src))
  <2>0. src \in Seq(Byte) /\ Len(src) \in Nat
    BY CallAssumption
  <2>1. /\ IInv'
        /\ n = IF Len(src) <= PIPE_CAPACITY - pipe.count THEN Len(src)
               ELSE PIPE_CAPACITY - pipe.count
        /\ pipe'.used = pipe.used /\ pipe'.readers = pipe.readers
        /\ pipe'.writers = pipe.writers /\ pipe'.count = pipe.count + n
        /\ \A i \in 1 .. pipe.count : Contents'[i] = Contents[i]
        /\ \A i \in 1 .. n : Contents'[pipe.count + i] = src[i]
    BY <1>6, <2>0, WriteAppends
  <2>2. pipe.used /\ got' = << >>
    BY <1>6 DEF Write
  <2> HIDE DEF n
  <2>3. n \in Nat /\ n <= Len(src)
    BY <1>f, <2>0, <2>1, PipeAssumption
  <2>4. SubSeq(src, 1, n) \in Seq(Byte) /\ Len(SubSeq(src, 1, n)) = n
        /\ \A i \in 1 .. n : SubSeq(src, 1, n)[i] = src[i]
    BY <2>0, <2>3
  <2> DEFINE pre == SubSeq(src, 1, n)
             app == Contents \o pre
  <2>5. /\ app \in Seq(Byte) /\ Len(app) = pipe.count + n
        /\ \A i \in 1 .. pipe.count : app[i] = Contents[i]
        /\ \A i \in 1 .. n : app[pipe.count + i] = src[i]
    <3> HIDE DEF pre
    <3>1. pre \in Seq(Byte) /\ Len(pre) = n /\ \A i \in 1 .. n : pre[i] = src[i]
      BY <2>4 DEF pre
    <3>2. app \in Seq(Byte) /\ Len(app) = pipe.count + n
      BY <1>c, <3>1
    <3>3. ASSUME NEW i \in 1 .. pipe.count
          PROVE  app[i] = Contents[i]
      BY <1>c, <1>f, <2>3, <3>1
    <3>4. ASSUME NEW i \in 1 .. n
          PROVE  app[pipe.count + i] = pre[i]
      <4>1. i \in 1 .. Len(pre)
        BY <3>1
      <4>2. (Contents \o pre)[Len(Contents) + i] = pre[i]
        <5>1. Contents \in Seq(Byte) /\ pre \in Seq(Byte)
          BY <1>c, <3>1, Zenon
        <5> HIDE DEF app
        <5> QED BY <4>1, <5>1, AppendedAt, ZenonT(40)
      <4> QED BY <1>c, <4>2
    <3> QED BY <3>1, <3>2, <3>3, <3>4, Zenon
  <2>6. Contents' = [i \in 1 .. pipe.count + n |-> pipe'.data[Advance(pipe'.rpos, i - 1)]]
    BY <2>1 DEF Contents
  <2>7. ASSUME NEW i \in 1 .. pipe.count + n
        PROVE  Contents'[i] = app[i]
    <3> HIDE DEF app
    <3>1. CASE i <= pipe.count
      BY <1>f, <2>1, <2>5, <3>1
    <3>2. CASE i > pipe.count
      <4>1. i - pipe.count \in 1 .. n /\ pipe.count + (i - pipe.count) = i
        BY <1>f, <2>3, <3>2
      <4> QED BY <2>1, <2>5, <4>1
    <3> QED BY <1>f, <3>1, <3>2
  <2>8. Contents' = app
    <3> HIDE DEF app
    <3>1. app = [i \in 1 .. pipe.count + n |-> app[i]]
      BY <1>f, <2>3, <2>5
    <3> QED BY <2>6, <2>7, <3>1
  <2> QED BY <1>c, <2>1, <2>2, <2>8 DEF Fifo!Put
<1>7. ASSUME NEW len \in Lengths, Read(len)
      PROVE  IInv' /\ Fifo!Get(len)
  <2> DEFINE n == ReadCount(pipe, len)
  <2>0. len \in Nat
    BY CallAssumption
  <2>1. /\ IInv'
        /\ n = IF len <= pipe.count THEN len ELSE pipe.count
        /\ pipe'.used = pipe.used /\ pipe'.readers = pipe.readers
        /\ pipe'.writers = pipe.writers /\ pipe'.count = pipe.count - n
        /\ got' = [i \in 1 .. n |-> Contents[i]]
        /\ \A i \in 1 .. pipe'.count : Contents'[i] = Contents[n + i]
    BY <1>7, <2>0, ReadTakes
  <2>2. pipe.used
    BY <1>7 DEF Read
  <2> HIDE DEF n
  <2>3. n \in Nat /\ n <= pipe.count
    BY <1>f, <2>0, <2>1
  <2>4. got' = SubSeq(Contents, 1, n)
    BY <1>c, <1>f, <2>1, <2>3
  <2> DEFINE rest == SubSeq(Contents, n + 1, pipe.count)
  <2>5. rest = [i \in 1 .. pipe.count - n |-> Contents[n + i]]
    BY <1>c, <1>f, <2>3
  <2>6. Contents' = [i \in 1 .. pipe.count - n |-> pipe'.data[Advance(pipe'.rpos, i - 1)]]
    BY <2>1 DEF Contents
  <2>7. Contents' = rest
    <3> HIDE DEF rest
    <3> QED BY <2>1, <2>5, <2>6
  <2> QED BY <1>c, <2>1, <2>2, <2>4, <2>7 DEF Fifo!Get
<1>8. CASE UNCHANGED vars
  <2>1. IInv'
    BY <1>8 DEF vars, IInv, RingConsistent
  <2>2. Contents' = Contents
    BY <1>8 DEF vars, Contents
  <2> QED BY <1>8, <2>1, <2>2 DEF vars, Fifo!vars
<1> QED BY <1>1, <1>2, <1>3, <1>4, <1>5, <1>6, <1>7, <1>8 DEF Next, Fifo!Next

-----------------------------------------------------------------------------
\* The three indices of a pipe_t agree in every reachable state.
THEOREM RingAlwaysConsistent == Spec => [](TypeOK /\ RingConsistent)
<1>1. IInv => TypeOK /\ RingConsistent
  BY DEF IInv, TypeOK
<1>2. IInv /\ [Next]_vars => IInv'
  BY StepRefines
<1> QED BY <1>1, <1>2, InitIInv, PTL DEF Spec

\* pipe.c implements the queue: what readers get is what writers put, in order,
\* whatever the capacity and however reads and writes straddle the wrap.
THEOREM RingImplementsQueue == Spec => ImplementsFifo
<1>1. Init => Fifo!Init
  <2> SUFFICES ASSUME Init PROVE Fifo!Init
    OBVIOUS
  <2>1. pipe.used = FALSE /\ pipe.count = 0 /\ pipe.readers = 0 /\ pipe.writers = 0
    BY DEF Init, FreePipe
  <2>2. Contents = << >>
    BY <2>1 DEF Contents
  <2> QED BY <2>1, <2>2 DEF Init, Fifo!Init
<1>2. IInv /\ [Next]_vars => IInv' /\ [Fifo!Next]_(Fifo!vars)
  BY StepRefines
<1> QED BY <1>1, <1>2, InitIInv, PTL DEF Spec, ImplementsFifo, Fifo!Spec
=============================================================================

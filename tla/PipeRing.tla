------------------------------ MODULE PipeRing -------------------------------
(***************************************************************************)
(* One pipe_t of kernel/pipe.c under any sequence of calls, and the proof  *)
(* obligation that the ring buffer implements the queue of PipeFifo.       *)
(***************************************************************************)
EXTENDS PipeOps

CONSTANTS
    MaxEnds,   \* bound on the read ends and on the write ends
    Writes,    \* the byte strings passed to pipe_write
    Lengths    \* the lengths passed to pipe_read

ASSUME CallAssumption ==
    /\ MaxEnds \in Nat \ {0}
    /\ Writes \subseteq Seq(Byte)
    /\ Lengths \subseteq Nat

VARIABLES
    pipe,   \* the pipe_t
    got     \* the bytes the last call returned

vars == <<pipe, got>>

Init == pipe = FreePipe /\ got = << >>

Alloc == ~pipe.used /\ pipe' = NewPipe /\ got' = << >>

RefRead == /\ pipe.used /\ pipe.readers < MaxEnds
           /\ pipe' = pipe_ref_read(pipe) /\ got' = << >>

RefWrite == /\ pipe.used /\ pipe.writers < MaxEnds
            /\ pipe' = pipe_ref_write(pipe) /\ got' = << >>

CloseRead == /\ pipe_has_readers(pipe)
             /\ pipe' = pipe_close_read(pipe) /\ got' = << >>

CloseWrite == /\ pipe_has_writers(pipe)
              /\ pipe' = pipe_close_write(pipe) /\ got' = << >>

Write(src) == pipe.used /\ pipe' = pipe_write(pipe, src) /\ got' = << >>

Read(len) == /\ pipe.used
             /\ pipe' = pipe_read(pipe, len)
             /\ got' = ReadBytes(pipe, len)

Next == \/ Alloc \/ RefRead \/ RefWrite \/ CloseRead \/ CloseWrite
        \/ \E src \in Writes : Write(src)
        \/ \E len \in Lengths : Read(len)

Spec == Init /\ [][Next]_vars

-----------------------------------------------------------------------------
TypeOK == pipe \in PipeRecord /\ got \in Seq(Byte)

\* The write position is always count bytes after the read position, and a free
\* pipe is empty with no ends: the three redundant indices of pipe_t agree.
RingConsistent ==
    /\ pipe.wpos = Advance(pipe.rpos, pipe.count)
    /\ ~pipe.used => pipe = FreePipe
    /\ pipe.used => pipe.readers + pipe.writers > 0

\* The bytes in the ring, oldest first.
Contents == [i \in 1 .. pipe.count |-> pipe.data[Advance(pipe.rpos, i - 1)]]

Fifo == INSTANCE PipeFifo WITH
            Capacity <- PIPE_CAPACITY, open <- pipe.used, q <- Contents,
            readers <- pipe.readers, writers <- pipe.writers

\* The ring of pipe_read and pipe_write, with its wrap-around and its reuse
\* after release, behaves as the queue: no byte lost, duplicated or reordered.
ImplementsFifo == Fifo!Spec
=============================================================================

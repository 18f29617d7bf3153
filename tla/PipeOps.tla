------------------------------- MODULE PipeOps -------------------------------
(***************************************************************************)
(* kernel/pipe.c: one pipe_t as a record and the functions on it.          *)
(***************************************************************************)
EXTENDS Integers, Sequences

CONSTANTS
    PIPE_CAPACITY,   \* bytes the ring holds
    Byte,            \* the byte values
    Zero             \* the byte memset writes

ASSUME PipeAssumption ==
    /\ PIPE_CAPACITY \in Nat \ {0}
    /\ Zero \in Byte

Positions == 0 .. PIPE_CAPACITY - 1

PipeRecord == [used : BOOLEAN, data : [Positions -> Byte], rpos : Positions,
               wpos : Positions, count : 0 .. PIPE_CAPACITY,
               readers : Nat, writers : Nat]

\* A zeroed pipe_t: what pipe_init leaves and pipe_maybe_release restores.
FreePipe == [used |-> FALSE, data |-> [k \in Positions |-> Zero],
             rpos |-> 0, wpos |-> 0, count |-> 0, readers |-> 0, writers |-> 0]

\* pipe_alloc on the slot it found.
NewPipe == [FreePipe EXCEPT !.used = TRUE, !.readers = 1, !.writers = 1]

\* The position n bytes after pos.
Advance(pos, n) == (pos + n) % PIPE_CAPACITY

\* How far position k lies after pos.
Ahead(pos, k) == IF k >= pos THEN k - pos ELSE k - pos + PIPE_CAPACITY

Lesser(a, b) == IF a <= b THEN a ELSE b

pipe_maybe_release(p) == IF p.readers = 0 /\ p.writers = 0 THEN FreePipe ELSE p

pipe_ref_read(p) == IF p.used THEN [p EXCEPT !.readers = p.readers + 1] ELSE p

\* Mutant: the write end counted as a read end.
pipe_ref_write_swapped(p) == pipe_ref_read(p)

pipe_ref_write(p) == IF p.used THEN [p EXCEPT !.writers = p.writers + 1] ELSE p

pipe_close_read(p) ==
    IF p.used /\ p.readers > 0
    THEN pipe_maybe_release([p EXCEPT !.readers = p.readers - 1]) ELSE p

pipe_close_write(p) ==
    IF p.used /\ p.writers > 0
    THEN pipe_maybe_release([p EXCEPT !.writers = p.writers - 1]) ELSE p

pipe_has_readers(p) == p.used /\ p.readers > 0

pipe_has_writers(p) == p.used /\ p.writers > 0

\* pipe_read: how many bytes it returns, which ones, and the ring after it.
ReadCount(p, len) == IF p.used THEN Lesser(len, p.count) ELSE 0

ReadBytes(p, len) ==
    [i \in 1 .. ReadCount(p, len) |-> p.data[Advance(p.rpos, i - 1)]]

pipe_read(p, len) ==
    [p EXCEPT !.rpos = Advance(p.rpos, ReadCount(p, len)),
              !.count = p.count - ReadCount(p, len)]

\* pipe_write: how many of len bytes fit, and the ring after it.
WriteCount(p, len) == IF p.used THEN Lesser(len, PIPE_CAPACITY - p.count) ELSE 0

pipe_write(p, src) ==
    LET n == WriteCount(p, Len(src))
    IN [p EXCEPT !.data = [k \in Positions |->
                             IF Ahead(p.wpos, k) < n
                             THEN src[Ahead(p.wpos, k) + 1] ELSE p.data[k]],
                 !.wpos = Advance(p.wpos, n),
                 !.count = p.count + n]
=============================================================================

------------------------------ MODULE PipeFifo -------------------------------
(***************************************************************************)
(* What a pipe promises, without the ring: a queue of at most Capacity     *)
(* bytes with a number of read ends and write ends.  A write appends what  *)
(* fits, a read takes from the front, and when the last end goes the pipe  *)
(* is free and empty.                                                      *)
(***************************************************************************)
EXTENDS Integers, Sequences

CONSTANTS
    Capacity,   \* bytes the queue holds
    MaxEnds,    \* bound on either kind of end
    Writes,     \* the byte strings written
    Lengths     \* the lengths asked for

VARIABLES
    open,      \* the pipe is allocated
    q,         \* the bytes in it, oldest first
    readers,   \* open read ends
    writers,   \* open write ends
    got        \* the bytes the last call returned

vars == <<open, q, readers, writers, got>>

Init == open = FALSE /\ q = << >> /\ readers = 0 /\ writers = 0 /\ got = << >>

Open == /\ ~open
        /\ open' = TRUE /\ q' = << >> /\ readers' = 1 /\ writers' = 1
        /\ got' = << >>

AddReader == /\ open /\ readers < MaxEnds
             /\ readers' = readers + 1
             /\ got' = << >>
             /\ UNCHANGED <<open, q, writers>>

AddWriter == /\ open /\ writers < MaxEnds
             /\ writers' = writers + 1
             /\ got' = << >>
             /\ UNCHANGED <<open, q, readers>>

DropEnd(r, w) ==
    /\ open
    /\ readers' = r /\ writers' = w
    /\ open' = (r + w > 0)
    /\ q' = IF r + w > 0 THEN q ELSE << >>
    /\ got' = << >>

DropReader == readers > 0 /\ DropEnd(readers - 1, writers)

DropWriter == writers > 0 /\ DropEnd(readers, writers - 1)

Put(src) ==
    LET room == Capacity - Len(q)
        n == IF Len(src) <= room THEN Len(src) ELSE room
    IN /\ open
       /\ q' = q \o SubSeq(src, 1, n)
       /\ got' = << >>
       /\ UNCHANGED <<open, readers, writers>>

Get(len) ==
    LET n == IF len <= Len(q) THEN len ELSE Len(q)
    IN /\ open
       /\ got' = SubSeq(q, 1, n)
       /\ q' = SubSeq(q, n + 1, Len(q))
       /\ UNCHANGED <<open, readers, writers>>

Next == \/ Open \/ AddReader \/ AddWriter \/ DropReader \/ DropWriter
        \/ \E src \in Writes : Put(src)
        \/ \E len \in Lengths : Get(len)

Spec == Init /\ [][Next]_vars
=============================================================================

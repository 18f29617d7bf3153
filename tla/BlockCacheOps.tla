---------------------------- MODULE BlockCacheOps ----------------------------
(***************************************************************************)
(* kernel/block_cache.c: a write-back cache of sectors over one device,    *)
(* and the device itself as the cache sees it.  One line holds one block   *)
(* (the eight sectors of a block are cached one by one; a block is one     *)
(* location here).  Every operator maps a machine s to the machine after   *)
(* the call; s.ok becomes FALSE when the call returns an error, and the    *)
(* callers stop there, as the code does.                                   *)
(*                                                                         *)
(*   s.disk   what the device would return to a read now                   *)
(*   s.plat   what survives a loss of power: a write is only in the        *)
(*            device's own cache until the next flush command              *)
(*   s.line   the valid cache lines, by last_use, oldest first: location,  *)
(*            dirty flag, data                                             *)
(*   s.fault, s.fuel   the fault this call meets, and the number of device *)
(*            commands before it; s.ios counts the commands                *)
(***************************************************************************)
EXTENDS Naturals, Sequences, SequencesExt

CONSTANTS NLines     \* BLOCK_CACHE_LINES

\* Op is called only when what came before it returned no error.
Then(s, Op(_)) == IF s.ok THEN Op(s) ELSE s

Lost(s) == s.hit /\ s.fault = "crash"

(***************************************************************************)
(* One command to the device: Done is the machine when it completes.       *)
(* "fail": the driver gives up and nothing was done.  "late": the driver   *)
(* gives up but the device did carry the command out.  "crash": the power  *)
(* fails before it, and nothing after it happens.                          *)
(***************************************************************************)
Device(s, Done(_)) ==
    LET n == [s EXCEPT !.ios = @ + 1]
        r == [n EXCEPT !.hit = TRUE, !.ok = FALSE]
    IN  IF Lost(s) THEN [s EXCEPT !.ok = FALSE]
        ELSE IF s.fault = "none" \/ s.hit \/ s.fuel > 0
             THEN Done([n EXCEPT !.fuel = IF @ > 0 THEN @ - 1 ELSE 0])
        ELSE IF s.fault = "late" THEN [Done(r) EXCEPT !.ok = FALSE]
        ELSE r

backend_write(s, l, d) == Device(s, LAMBDA t : [t EXCEPT !.disk[l] = d])

backend_flush(s) == Device(s, LAMBDA t : [t EXCEPT !.plat = t.disk])

Cached(s, l) == {i \in DOMAIN s.line : s.line[i].lba = l}

LineData(s, l) == s.line[CHOOSE i \in Cached(s, l) : TRUE].data

cache_touch(s, i) == [s EXCEPT !.line = Append(RemoveAt(@, i), @[i])]

\* Mutant: the line counts as clean before the device has taken it.
cache_writeback_line_early(s, i) ==
    IF ~s.line[i].dirty THEN s
    ELSE backend_write([s EXCEPT !.line[i].dirty = FALSE], s.line[i].lba, s.line[i].data)

cache_writeback_line(s, i) ==
    IF ~s.line[i].dirty THEN s
    ELSE Then(backend_write(s, s.line[i].lba, s.line[i].data),
              LAMBDA t : [t EXCEPT !.line[i].dirty = FALSE])

(***************************************************************************)
(* A hit, or a miss that takes an invalid line, else the one used longest  *)
(* ago.  A read that fails is taken to leave the victim's buffer alone; a  *)
(* device that had begun to fill it would spoil a line still valid for its *)
(* old block (block_cache.c:209).                                          *)
(***************************************************************************)
cache_get_load(s, l) ==
    LET full == Len(s.line) = NLines
        Load(t) == Device(t, LAMBDA u : u)
        Take(t) == [t EXCEPT !.line = Append(IF full THEN Tail(@) ELSE @,
                        [lba |-> l, dirty |-> FALSE, data |-> t.disk[l]])]
    IN  IF Cached(s, l) # {} THEN cache_touch(s, CHOOSE i \in Cached(s, l) : TRUE)
        ELSE Then(Then(IF full THEN cache_writeback_line(s, 1) ELSE s, Load), Take)

block_cache_read(s, l) == cache_get_load(s, l)

block_cache_write(s, l, d) ==
    Then(cache_get_load(s, l), LAMBDA t :
         [t EXCEPT !.line[Len(t.line)].data = d, !.line[Len(t.line)].dirty = TRUE])

\* The code goes by line number; the device may complete the writes in any order.
block_cache_flush(s) ==
    LET Clean(t, i) == Then(t, LAMBDA u : cache_writeback_line(u, i))
    IN  Then(FoldLeft(Clean, s, [i \in DOMAIN s.line |-> i]), backend_flush)

(***************************************************************************)
(* Another device is attached (and this one attached again by the next     *)
(* access): the lines are flushed, with the result ignored, and cleared.   *)
(***************************************************************************)
block_cache_attach_inode(s) ==
    LET t == block_cache_flush(s)
    IN  [t EXCEPT !.line = <<>>, !.ok = ~Lost(t)]

(***************************************************************************)
(* Properties of a machine.                                                *)
(***************************************************************************)
\* A block is in at most one line, and a clean line is what the device holds.
Coherent(s) ==
    \A i \in DOMAIN s.line :
        /\ Cached(s, s.line[i].lba) = {i}
        /\ ~s.line[i].dirty => s.line[i].data = s.disk[s.line[i].lba]
=============================================================================

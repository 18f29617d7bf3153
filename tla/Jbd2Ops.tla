------------------------------- MODULE Jbd2Ops -------------------------------
(***************************************************************************)
(* The JBD2 journal of kernel/ext4.c: transactions collected in memory,    *)
(* committed to a ring of journal blocks, kept pending, written home by    *)
(* checkpoints, and replayed at mount.  s is a machine of BlockCacheOps    *)
(* whose field j is g_jbd2.  A block's content is a pair, so that a write  *)
(* of part of it has to keep the other part.                               *)
(*                                                                         *)
(* io_bypass (reads and writes below the transaction) is structural here:  *)
(* the operators on jblocks and home blocks go to the cache directly.      *)
(***************************************************************************)
EXTENDS Integers, FiniteSets, FiniteSetsExt, BlockCacheOps

CONSTANTS Blk,               \* file-system blocks
          FirstBlk, MaxLen,  \* the ring is journal blocks FirstBlk .. MaxLen - 1
          MAX_PENDING_TX, CHECKPOINT_BATCH, TX_MAX_BLOCKS, TX_MAX_REVOKES,
          TagsPerDesc, RevokesPerBlock,
          TargetFloor,       \* the least free target, 8 blocks
          MagicWord          \* JBD2_MAGIC_NUMBER, as the first word of a block

Home(b) == <<"home", b>>
JBlock(i) == <<"log", i>>

Ring == MaxLen - FirstBlk

CeilDiv(n, d) == (n + d - 1) \div d

Fail(s) == [s EXCEPT !.ok = FALSE]

Enospc(s) == [s EXCEPT !.ok = FALSE, !.j.enospc = TRUE]

\* The caller does not look at the result.
Ignore(s) == [s EXCEPT !.ok = ~Lost(s)]

-----------------------------------------------------------------------------
(* The ring.                                                               *)

next_block(c) == IF c + 1 >= MaxLen THEN FirstBlk ELSE c + 1

ring_advance(c, n) == FirstBlk + ((c - FirstBlk + n) % Ring)

ring_distance(from, to) == (to - from + Ring) % Ring

ring_free_blocks(j) ==
    IF j.pending = <<>> THEN Ring - 1
    ELSE Max({1, ring_distance(j.head, j.tail)}) - 1

target_free_blocks ==
    LET t == Max({TargetFloor, Ring \div 4}) IN IF t >= Ring THEN Ring - 1 ELSE t

tx_reserve_blocks ==
    LET total == TX_MAX_BLOCKS + CeilDiv(TX_MAX_BLOCKS, TagsPerDesc)
                 + CeilDiv(TX_MAX_REVOKES, RevokesPerBlock) + 1
    IN  IF total >= Ring THEN Ring - 1 ELSE total

\* Mutant: no room is kept for a transaction of the largest size.
pressure_min_free_blocks_target == target_free_blocks

pressure_min_free_blocks == Max({tx_reserve_blocks, target_free_blocks})

pending_log_blocks(p) == ring_distance(p.start, p.end)

\* The fewest oldest transactions whose blocks make up for what is missing.
checkpoint_batch_for_need(j, min) ==
    LET cap == Min({Len(j.pending), CHECKPOINT_BATCH})
        Got(n) == FoldLeft(LAMBDA a, p : a + Max({1, pending_log_blocks(p)}),
                           ring_free_blocks(j), SubSeq(j.pending, 1, n))
        enough == {n \in 1 .. cap : Got(n) >= min}
    IN  IF enough = {} THEN cap ELSE Min(enough)

-----------------------------------------------------------------------------
(* Blocks, the superblock, pending transactions.                           *)

\* ext4_raw_write_bytes reads the sector before it writes it.
write_block(s, l, d) ==
    Then(block_cache_read(s, l), LAMBDA t : block_cache_write(t, l, d))

write_all(s, writes) ==
    FoldLeft(LAMBDA t, w : Then(t, LAMBDA u : write_block(u, w.l, w.d)), s, writes)

store_super(s) ==
    LET j == s.j
    IN  write_block(s, JBlock(0),
          [t |-> "super",
           seq |-> IF j.pending # <<>> THEN Head(j.pending).seq ELSE j.sequence,
           start |-> j.start, head |-> j.head])

refresh_start_tail(j) ==
    IF j.pending = <<>> THEN [j EXCEPT !.start = 0, !.tail = j.head]
    ELSE [j EXCEPT !.start = Head(j.pending).start, !.tail = Head(j.pending).start]

pending_push(s, p) ==
    [s EXCEPT !.j = refresh_start_tail([s.j EXCEPT !.pending = Append(@, p)])]

pending_pop(s) ==
    [s EXCEPT !.j = refresh_start_tail([s.j EXCEPT !.pending = Tail(@)])]

\* Mutant: the superblock moves on before the home blocks are flushed.
checkpoint_some_unflushed(s, budget) ==
    LET n == Min({budget, Len(s.j.pending)})
        HomeWrites(p) == [i \in DOMAIN p.dirty |->
                             [l |-> Home(p.dirty[i].b), d |-> p.dirty[i].v]]
        Drain(t, i) == Then(t, LAMBDA u :
                            Then(write_all(u, HomeWrites(Head(u.j.pending))), pending_pop))
    IN  IF s.j.active \/ s.j.pending = <<>> THEN s
        ELSE Then(Then(FoldLeft(Drain, s, [i \in 1 .. n |-> i]), store_super),
                  block_cache_flush)

\* Home writes of the oldest transactions; flush; superblock; flush.
checkpoint_some(s, budget) ==
    LET n == Min({budget, Len(s.j.pending)})
        HomeWrites(p) == [i \in DOMAIN p.dirty |->
                             [l |-> Home(p.dirty[i].b), d |-> p.dirty[i].v]]
        Drain(t, i) == Then(t, LAMBDA u :
                            Then(write_all(u, HomeWrites(Head(u.j.pending))), pending_pop))
    IN  IF s.j.active \/ s.j.pending = <<>> THEN s
        ELSE Then(Then(Then(FoldLeft(Drain, s, [i \in 1 .. n |-> i]),
                            block_cache_flush), store_super), block_cache_flush)

checkpoint_until_free(s, min0) ==
    LET min == IF min0 >= Ring THEN Ring - 1 ELSE min0
        Round(t, i) ==
            IF ~t.ok \/ t.j.pending = <<>> \/ ring_free_blocks(t.j) >= min THEN t
            ELSE checkpoint_some(t, Max({1, checkpoint_batch_for_need(t.j, min)}))
        Reached(t) == [t EXCEPT !.ok = t.ok /\ ring_free_blocks(t.j) >= min]
    IN  Reached(FoldLeft(Round, s, [i \in 1 .. (2 * MAX_PENDING_TX + 1) |-> i]))

\* aged: EXT4_JBD2_CHECKPOINT_AGE ticks have gone by since the last checkpoint.
maybe_checkpoint(s, aged) ==
    IF s.j.pending = <<>> THEN s
    ELSE IF ring_free_blocks(s.j) < pressure_min_free_blocks
         THEN checkpoint_until_free(s, pressure_min_free_blocks)
    ELSE IF Len(s.j.pending) >= CHECKPOINT_BATCH
         THEN checkpoint_some(s, CHECKPOINT_BATCH)
    ELSE IF aged THEN checkpoint_some(s, 1)
    ELSE s

\* ext4_periodic_maintenance, from the timer: it ignores the result.
periodic_maintenance(s, aged) ==
    IF s.j.active \/ s.j.pending = <<>> THEN s
    ELSE Ignore(maybe_checkpoint(s, aged))

jbd2_sync(s) ==
    LET Drain(t, i) == Then(t, LAMBDA u : checkpoint_some(u, CHECKPOINT_BATCH))
    IN  IF s.j.active THEN Fail(s)
        ELSE Then(Then(FoldLeft(Drain, s, s.j.pending), store_super), block_cache_flush)

-----------------------------------------------------------------------------
(* A transaction in memory.                                                *)

IndexOf(dirty, b) == {i \in DOMAIN dirty : dirty[i].b = b}

\* Home content under the pending transactions, then under the open one.
OverlayOf(b, v, dirty) ==
    FoldLeft(LAMBDA a, d : IF d.b = b THEN d.v ELSE a, v, dirty)

pending_overlay_read(j, b, v) ==
    FoldLeft(LAMBDA a, p : OverlayOf(b, a, p.dirty), v, j.pending)

disk_view(j, b, v) == OverlayOf(b, pending_overlay_read(j, b, v), j.dirty)

tx_clear(j) == [j EXCEPT !.active = FALSE, !.enospc = FALSE, !.dirty = <<>>,
                         !.revokes = <<>>, !.overflow = FALSE]

tx_start(s0, aged) ==
    LET s == [s0 EXCEPT !.j.enospc = FALSE]
        full == Len(s.j.pending) >= MAX_PENDING_TX
        Room(t) == IF ring_free_blocks(t.j) < pressure_min_free_blocks
                   THEN checkpoint_until_free(t, pressure_min_free_blocks) ELSE t
        Slot(t) == IF ~t.ok \/ Len(t.j.pending) >= MAX_PENDING_TX THEN Enospc(t) ELSE t
        OrEnospc(t) == IF t.ok THEN t ELSE Enospc(t)
        Open(t) == IF t.j.active THEN Fail(t)
                   ELSE [t EXCEPT !.j = [tx_clear(t.j) EXCEPT !.active = TRUE]]
        slot == Slot(IF full THEN checkpoint_some(s, CHECKPOINT_BATCH) ELSE s)
        room == Then(slot, LAMBDA t : OrEnospc(Room(t)))
    IN  Then(Then(room, LAMBDA t : maybe_checkpoint(t, aged)), Open)

tx_abort(s) == IF s.j.active THEN [s EXCEPT !.j = tx_clear(@)] ELSE s

\* Mutant: the block is copied from its home, not as the pending transactions left it.
alloc_dirty_raw(s, b) ==
    IF Len(s.j.dirty) >= TX_MAX_BLOCKS THEN Enospc(s)
    ELSE Then(block_cache_read(s, Home(b)), LAMBDA t :
              [t EXCEPT !.j.dirty = Append(@, [b |-> b, v |-> LineData(t, Home(b))])])

alloc_dirty(s, b) ==
    IF Len(s.j.dirty) >= TX_MAX_BLOCKS THEN Enospc(s)
    ELSE Then(block_cache_read(s, Home(b)), LAMBDA t :
              [t EXCEPT !.j.dirty = Append(@, [b |-> b,
                    v |-> disk_view(t.j, b, LineData(t, Home(b)))])])

tx_write_bytes(s, b, part, w) ==
    Then(IF IndexOf(s.j.dirty, b) = {} THEN alloc_dirty(s, b) ELSE s, LAMBDA t :
         LET i == CHOOSE k \in IndexOf(t.j.dirty, b) : TRUE
         IN  [t EXCEPT !.j.revokes = Remove(@, b),
                       !.j.dirty[i].v = [p \in 1 .. 2 |-> IF p \in part THEN w ELSE @[p]]])

note_revoke(s, b) ==
    LET d == [s EXCEPT !.j.dirty = SelectSeq(@, LAMBDA e : e.b # b)]
    IN  IF Contains(d.j.revokes, b) THEN d
        ELSE IF Len(d.j.revokes) < TX_MAX_REVOKES
             THEN [d EXCEPT !.j.revokes = Append(@, b)]
        ELSE [d EXCEPT !.j.overflow = TRUE]

-----------------------------------------------------------------------------
(* Commit.                                                                 *)

escape(v) == v[1] = MagicWord

\* crc32c over the sequence number and the block, when the journal has checksums.
data_checksum(j, seq, v) == IF j.csum THEN <<seq, v>> ELSE <<>>

Logged(v) == IF escape(v) THEN <<0, v[2]>> ELSE v

\* The sum is taken of the block as it was before Logged.
Tag(j, d) == [b |-> d.b, escape |-> escape(d.v),
              sum |-> data_checksum(j, j.sequence, d.v)]

Slice(q, n, k) == SubSeq(q, (k - 1) * n + 1, Min({k * n, Len(q)}))

tx_blocks(j) ==
    Len(j.dirty) + CeilDiv(Len(j.dirty), TagsPerDesc)
                 + CeilDiv(Len(j.revokes), RevokesPerBlock) + 1

(***************************************************************************)
(* The journal writes of a transaction that starts at block at, in the     *)
(* order the code makes them: for each descriptor its data blocks, then    *)
(* the descriptor in front of them; the revoke blocks; the commit block.   *)
(***************************************************************************)
tx_log(j, at) ==
    LET ndesc == CeilDiv(Len(j.dirty), TagsPerDesc)
        nrev == CeilDiv(Len(j.revokes), RevokesPerBlock)
        W(off, d) == [l |-> JBlock(ring_advance(at, off)), d |-> d]
        Chunk(k) ==
            LET ds == Slice(j.dirty, TagsPerDesc, k)
                off == (k - 1) * (TagsPerDesc + 1)
            IN  [i \in DOMAIN ds |-> W(off + i, [t |-> "data", v |-> Logged(ds[i].v)])]
                \o <<W(off, [t |-> "desc", seq |-> j.sequence,
                             tags |-> [i \in DOMAIN ds |-> Tag(j, ds[i])]])>>
        body == Len(j.dirty) + ndesc
    IN  FlattenSeq([k \in 1 .. ndesc |-> Chunk(k)])
        \o [k \in 1 .. nrev |->
               W(body + k - 1, [t |-> "revoke", seq |-> j.sequence,
                                bs |-> Slice(j.revokes, RevokesPerBlock, k)])]
        \o <<W(body + nrev, [t |-> "commit", seq |-> j.sequence])>>

(***************************************************************************)
(* The head is moved, and the superblock flushed, before the log blocks.   *)
(* checkpoint_some does nothing while a transaction is open, so neither    *)
(* the full queue nor a full ring can be relieved here: both refuse.       *)
(***************************************************************************)
tx_commit(s0, aged) ==
    LET s == [s0 EXCEPT !.j.enospc = FALSE]
        j == s.j
        end == ring_advance(j.head, tx_blocks(j))
        r1 == [s EXCEPT !.j.head = end,
                        !.j.start = IF j.pending = <<>> THEN j.head ELSE @]
        Log(t) == write_all(t, tx_log(j, j.head))
        Push(t) == pending_push(t, [seq |-> j.sequence, start |-> j.head,
                                    end |-> end, dirty |-> j.dirty])
        Advance(t) == [t EXCEPT !.j.sequence = @ + 1]
        Close(t) == [t EXCEPT !.j = tx_clear(@)]
        Relieve(t) ==
            IF Len(t.j.pending) >= CHECKPOINT_BATCH
               \/ ring_free_blocks(t.j) < pressure_min_free_blocks
            THEN Ignore(maybe_checkpoint(t, aged))
            ELSE t
        staged == Then(Then(r1, store_super), block_cache_flush)
        logged == Then(Then(staged, Log), block_cache_flush)
        queued == Then(Then(logged, Push), Advance)
        final == Then(Then(queued, store_super), block_cache_flush)
    IN  IF ~j.active THEN Fail(s)
        ELSE IF j.overflow THEN Enospc(s)
        ELSE IF j.dirty = <<>> /\ j.revokes = <<>> THEN [s EXCEPT !.j.active = FALSE]
        ELSE IF Len(j.pending) >= MAX_PENDING_TX THEN Enospc(s)
        ELSE IF tx_blocks(j) >= Ring THEN Enospc(s)
        ELSE IF tx_blocks(j) > ring_free_blocks(j) THEN Fail(s)
        ELSE Then(Then(final, Close), Relieve)

-----------------------------------------------------------------------------
(* Mount: load the superblock, scan the ring, apply what was committed.    *)

Junk == <<99, 99>>

DataOf(blk) == IF blk.t = "data" THEN blk.v ELSE Junk

\* csum and revoke are the features CSUM_V2 or CSUM_V3, and REVOKE, of the journal.
InitJ(csum, revoke) ==
    [csum |-> csum, revoke |-> revoke, active |-> FALSE, enospc |-> FALSE, overflow |-> FALSE,
     dirty |-> <<>>, revokes |-> <<>>, pending |-> <<>>,
     sequence |-> 0, start |-> 0, head |-> FirstBlk, tail |-> FirstBlk]

load_state(s) ==
    Then(block_cache_read(s, JBlock(0)), LAMBDA t :
         LET sb == LineData(t, JBlock(0))
         IN  [t EXCEPT !.j = [InitJ(s.j.csum, s.j.revoke) EXCEPT
                  !.sequence = sb.seq, !.start = sb.start, !.head = sb.head,
                  !.tail = IF sb.start # 0 THEN sb.start ELSE sb.head]])

\* One tag of a descriptor: x.cursor is at the tag's data block.
parse_tag(x, tag) ==
    IF ~x.s.ok THEN x
    ELSE LET t == block_cache_read(x.s, JBlock(x.cursor))
             v == DataOf(LineData(t, JBlock(x.cursor)))
             u == [b |-> tag.b, at |-> x.cursor, seq |-> x.seq, escape |-> tag.escape]
         IN  IF ~t.ok THEN [x EXCEPT !.s = t]
             ELSE IF tag.sum # <<>> /\ tag.sum # <<x.seq, v>>
                  THEN [x EXCEPT !.s = Fail(t)]
             ELSE [x EXCEPT !.s = t, !.cursor = next_block(@),
                            !.txu = IF tag.b \in x.txr THEN @
                                    ELSE Append(SelectSeq(@, LAMBDA e : e.b # tag.b), u)]

(***************************************************************************)
(* One round of the scan.  It stops at the first block that is not a       *)
(* header of the transaction looked for; updates and revokes of a          *)
(* transaction count only once its commit block is met.                    *)
(***************************************************************************)
replay_step(x, i) ==
    LET t == block_cache_read(x.s, JBlock(x.cursor))
        blk == LineData(t, JBlock(x.cursor))
        y == [x EXCEPT !.s = t]
        header == blk.t \in {"desc", "revoke", "commit"} /\ blk.seq = x.seq
    IN  IF x.stop \/ ~x.s.ok THEN x
        ELSE IF ~t.ok THEN y
        ELSE IF ~header THEN [y EXCEPT !.stop = TRUE]
        ELSE CASE blk.t = "desc" ->
                    FoldLeft(parse_tag, [y EXCEPT !.open = TRUE,
                                                  !.cursor = next_block(@)], blk.tags)
               [] blk.t = "revoke" /\ ~x.s.j.revoke -> [y EXCEPT !.s = Fail(t)]
               [] blk.t = "revoke" /\ x.s.j.revoke ->
                    [y EXCEPT !.open = TRUE, !.cursor = next_block(@),
                              !.txr = @ \cup ToSet(blk.bs)]
               [] blk.t = "commit" ->
                    IF ~x.open THEN [y EXCEPT !.s = Fail(t)]
                    ELSE [y EXCEPT !.revokes = @ \cup {[b |-> b, seq |-> x.seq] : b \in x.txr},
                                   !.updates = @ \o x.txu,
                                   !.txu = <<>>, !.txr = {}, !.open = FALSE,
                                   !.seq = @ + 1, !.cursor = next_block(@)]

apply_updates(x) ==
    LET Revoked(u) == \E r \in x.revokes : r.b = u.b /\ r.seq >= u.seq
        Image(t, u) == LET v == DataOf(LineData(t, JBlock(u.at)))
                       IN  IF u.escape THEN <<MagicWord, v[2]>> ELSE v
        One(t, u) == IF ~t.ok \/ Revoked(u) THEN t
                     ELSE Then(block_cache_read(t, JBlock(u.at)),
                               LAMBDA c : write_block(c, Home(u.b), Image(c, u)))
    IN  FoldLeft(One, x.s, x.updates)

\* The code gives up after 4 * MaxLen rounds; no scan gets past Ring + 1 of them,
\* since a block holds one sequence number and the one looked for only grows.
replay_if_needed(s) ==
    LET Scan(t) == FoldLeft(replay_step,
                    [s |-> t, cursor |-> t.j.start, seq |-> t.j.sequence,
                     updates |-> <<>>, revokes |-> {}, txu |-> <<>>, txr |-> {},
                     open |-> FALSE, stop |-> FALSE],
                    [i \in 1 .. Ring + 1 |-> i])
        Clean(u, x) == [u EXCEPT !.j = refresh_start_tail(
                           [u.j EXCEPT !.sequence = x.seq, !.head = x.cursor])]
        Apply(x) ==
            IF ~x.s.ok THEN x.s
            ELSE IF ~x.stop THEN Fail(x.s)
            ELSE Then(Then(Then(apply_updates(x), LAMBDA u : Clean(u, x)), store_super),
                      block_cache_flush)
    IN  Then(load_state(s), LAMBDA t : IF t.j.start = 0 THEN t ELSE Apply(Scan(t)))
=============================================================================

------------------------------- MODULE Journal -------------------------------
(***************************************************************************)
(* ext4's transactions (kernel/ext4.c) over the block cache, on a device   *)
(* that may fail a command or lose power at any command.  The callers are  *)
(* the file operations of kernel/fs.c: begin, writes and frees of blocks,  *)
(* then commit, or abort when anything failed; one at a time, since a      *)
(* system call is never preempted.  The volume has a JBD2 journal, as fs.c *)
(* makes it, or with checksums, or without the REVOKE feature, or it has   *)
(* the trailing redo log: kind never changes.                              *)
(***************************************************************************)
EXTENDS JlogOps

CONSTANTS Head0,             \* the journal's head at the first mount
          Kinds,             \* which of {"jbd2", "jbd2csum", "jbd2norevoke", "jlog"} to explore
          MaxTx, MaxOps,     \* transactions (by kind), operations in all of them
          MaxCrash, MaxFail, \* power losses, failed device commands
          MaxWork            \* transactions begun and faults together

VARIABLES kind, s,
          mode,    \* "down", "up", "refused" (the mount failed) or "mixed" (it
                   \* succeeded after a torn or a failed commit, and shows no
                   \* image of maybe)
          img,     \* the image the committed transactions have produced
          cur,     \* img and what the open transaction did
          maybe,   \* the images a mount may find
          torn,    \* power was lost with a block on the platter before one that
                   \* was written earlier: "commit", "replay" or "no"; "stale" is
                   \* "commit" after a mount that did not use that commit
          failed,  \* a device command has failed
          noroom,  \* a begin or a commit was refused without a device failure
          ntx, nops, ncrash, nfail

vars == <<kind, s, mode, img, cur, maybe, torn, failed, noroom, ntx, nops, ncrash, nfail>>

Jbd2 == kind # "jlog"

Locs == {Home(b) : b \in Blk}
        \cup (IF Jbd2 THEN {JBlock(i) : i \in 0 .. MaxLen - 1}
              ELSE {Hdr} \cup {Rec(i) : i \in 1 .. JLOG_MAX_RECORDS}
                         \cup {Dat(i) : i \in 1 .. JLOG_MAX_RECORDS})

\* A volume that was unmounted: zero blocks and an empty journal.
Fresh(l) ==
    CASE l[1] = "home" -> <<0, 0>>
      [] l = JBlock(0) -> [t |-> "super", seq |-> 1, start |-> 0, head |-> Head0]
      [] l[1] = "log" /\ l[2] > 0 -> [t |-> "none"]
      [] l = Hdr -> [state |-> "CLEAN", n |-> 0]
      [] l[1] = "rec" -> [part |-> {}]
      [] l[1] = "dat" -> 0

Boot(k, plat) ==
    [disk |-> plat, plat |-> plat, line |-> <<>>,
     fault |-> "none", fuel |-> 0, hit |-> FALSE, ios |-> 0, ok |-> TRUE,
     j |-> InitJ(k = "jbd2csum", k # "jbd2norevoke"), g |-> [active |-> FALSE, recs |-> <<>>]]

Init ==
    /\ kind \in Kinds
    /\ s = Boot(kind, [l \in Locs |-> Fresh(l)])
    /\ mode = "down"
    /\ img = [val |-> [b \in Blk |-> <<0, 0>>], free |-> {}]
    /\ cur = img
    /\ maybe = {img}
    /\ torn = "no" /\ failed = FALSE /\ noroom = FALSE
    /\ ntx = 0 /\ nops = 0 /\ ncrash = 0 /\ nfail = 0

Rest(t) == [t EXCEPT !.fault = "none", !.fuel = 0, !.hit = FALSE, !.ios = 0, !.ok = TRUE]

-----------------------------------------------------------------------------
(* What a read of block b returns, and the image that amounts to.          *)

Raw(t, b) == IF Cached(t, Home(b)) # {} THEN LineData(t, Home(b)) ELSE t.disk[Home(b)]

View(t, b) == IF Jbd2 THEN disk_view(t.j, b, Raw(t, b))
              ELSE IF t.g.active THEN jlog_view(t.g, b, Raw(t, b))
              ELSE Raw(t, b)

Shows(t, i) == \A b \in Blk \ i.free : View(t, b) = i.val[b]

-----------------------------------------------------------------------------
(* ext4_tx_begin, ext4_disk_write_bytes, ext4_tx_commit, ext4_tx_abort,    *)
(* ext4_sync_filesystem, and the mount's replay: by kind of journal.       *)

ext4_tx_begin(t, aged) == IF Jbd2 THEN tx_start(t, aged) ELSE jlog_begin(t)

disk_write_bytes(t, b, part, w) ==
    IF Jbd2 THEN tx_write_bytes(t, b, part, w) ELSE jlog_write(t, b, part, w)

free_block(t, b) == IF Jbd2 THEN note_revoke(t, b) ELSE t

ext4_tx_commit(t, aged) == IF Jbd2 THEN tx_commit(t, aged) ELSE jlog_commit(t)

ext4_tx_abort(t) == IF Jbd2 THEN tx_abort(t) ELSE jlog_abort(t)

sync_filesystem(t) == IF Jbd2 THEN jbd2_sync(t) ELSE block_cache_flush(t)

ext4_replay(t) == IF Jbd2 THEN replay_if_needed(t) ELSE jlog_replay(t)

InTx == s.j.active \/ s.g.active

-----------------------------------------------------------------------------
(* Every outcome of a call: without a fault, and with one at each of its   *)
(* device commands.  Behaviours lose power or meet failed commands; what   *)
(* is claimed of one is not claimed once both have happened.               *)

\* Whether the last checkpoint is long ago: that matters with something pending.
Ages == IF s.j.pending = <<>> THEN {FALSE} ELSE BOOLEAN

MayCrash == nfail = 0 /\ ncrash < MaxCrash

Outcomes(Op(_)) ==
    LET clean == Op(s)
        kinds == (IF MayCrash THEN {"crash"} ELSE {})
                 \cup (IF ncrash = 0 /\ nfail < MaxFail THEN {"fail", "late"} ELSE {})
    IN  {clean} \cup {Op([s EXCEPT !.fault = f, !.fuel = k]) :
                         f \in kinds, k \in 0 .. clean.ios - 1}

\* What the platter may hold when the power is lost in machine t.
Platters(t) ==
    LET moved == {l \in Locs : t.plat[l] # t.disk[l]}
    IN  {[l \in Locs |-> IF l \in T THEN t.disk[l] ELSE t.plat[l]] : T \in SUBSET moved}

\* A block of the commit's batch is on the platter and an earlier one is not,
\* where it matters: the commit block or, with checksums, any of them.
TornBy(plat) ==
    IF Jbd2
    THEN LET log == tx_log(s.j, s.j.head)
         IN  \E i, k \in DOMAIN log :
                /\ i < k /\ (s.j.csum \/ k = Len(log))
                /\ plat[log[k].l] = log[k].d
                /\ plat[log[i].l] # log[i].d
    ELSE /\ plat[Hdr] = [state |-> "COMMIT", n |-> Len(s.g.recs)]
         /\ \E i \in DOMAIN s.g.recs :
               \/ plat[Rec(i)] # [b |-> s.g.recs[i].b, part |-> s.g.recs[i].part]
               \/ plat[Dat(i)] # s.g.recs[i].w

\* The journal is empty on the platter and a block it was replayed to is not there.
Rewound(t, plat) == Jbd2 /\ plat[JBlock(0)].start = 0
                         /\ \E b \in Blk : plat[Home(b)] # t.disk[Home(b)]

\* Power is lost in machine t of the call named what.
PowerLoss(t, images, what) ==
    /\ \E plat \in Platters(t) :
          /\ s' = Boot(kind, plat)
          /\ torn' = IF torn = "stale" THEN torn
                     ELSE IF what = "commit" /\ TornBy(plat) THEN "commit"
                     ELSE IF what = "replay" /\ Rewound(t, plat) THEN "replay"
                     ELSE torn
    /\ mode' = "down"
    /\ maybe' = images
    /\ ncrash' = ncrash + 1
    /\ cur' = img
    /\ UNCHANGED <<kind, img, failed, noroom, ntx, nops, nfail>>

\* The call returned in machine t.
Returned(t) ==
    /\ s' = Rest(t)
    /\ failed' = (failed \/ t.hit)
    /\ nfail' = IF t.hit THEN nfail + 1 ELSE nfail
    /\ UNCHANGED <<kind, ncrash>>

(***************************************************************************)
(* The running system.                                                     *)
(***************************************************************************)
Begin ==
    /\ mode = "up" /\ ~InTx /\ ntx < MaxTx[kind] /\ ntx + ncrash + nfail < MaxWork
    /\ \E aged \in Ages :
       \E t \in Outcomes(LAMBDA x : ext4_tx_begin(x, aged)) :
          IF Lost(t) THEN PowerLoss(t, {img}, "")
          ELSE /\ Returned(t)
               /\ noroom' = (noroom \/ (~t.ok /\ ~t.hit))
               /\ ntx' = ntx + 1
               /\ UNCHANGED <<mode, img, cur, maybe, torn, nops>>

\* The operation failed inside the transaction: fs.c aborts it.
Undo(t) == [ext4_tx_abort([t EXCEPT !.ok = TRUE]) EXCEPT !.ok = FALSE]

Attempt(t) == IF t.ok \/ Lost(t) THEN t ELSE Undo(t)

\* A block that was free is written whole, any other one in part.
Write(b, p) ==
    LET part == IF b \in cur.free THEN {1, 2} ELSE {p}
        after == [val |-> [cur.val EXCEPT ![b] = [q \in 1 .. 2 |-> IF q \in part THEN ntx ELSE @[q]]],
                  free |-> cur.free \ {b}]
    IN  /\ mode = "up" /\ InTx /\ nops < MaxOps
        /\ \E t \in Outcomes(LAMBDA x : Attempt(disk_write_bytes(x, b, part, ntx))) :
              IF Lost(t) THEN PowerLoss(t, {img}, "")
              ELSE /\ Returned(t)
                   /\ cur' = IF t.ok THEN after ELSE img
                   /\ nops' = nops + 1
                   /\ UNCHANGED <<mode, img, maybe, torn, noroom, ntx>>

FreeBlk(b) ==
    /\ mode = "up" /\ InTx /\ nops < MaxOps /\ b \notin cur.free
    /\ Returned(free_block(s, b))
    /\ cur' = [cur EXCEPT !.free = @ \cup {b}]
    /\ nops' = nops + 1
    /\ UNCHANGED <<mode, img, maybe, torn, noroom, ntx>>

(***************************************************************************)
(* A commit that fails is aborted by the caller; what reads return is then *)
(* the old image or the new one.                                           *)
(***************************************************************************)
Commit ==
    /\ mode = "up" /\ InTx
    /\ \E aged \in (IF Jbd2 THEN BOOLEAN ELSE {FALSE}) :
       \E t \in Outcomes(LAMBDA x : Attempt(ext4_tx_commit(x, aged))) :
          IF Lost(t) THEN PowerLoss(t, {img, cur}, "commit")
          ELSE /\ Returned(t)
               /\ noroom' = (noroom \/ (~t.ok /\ ~t.hit /\ ~s.j.overflow))
               /\ img' = IF t.ok \/ (t.hit /\ Shows(t, cur)) THEN cur ELSE img
               /\ cur' = img'
               /\ maybe' = {img'}
               /\ UNCHANGED <<mode, torn, ntx, nops>>

Abort ==
    /\ mode = "up" /\ InTx
    /\ \E t \in Outcomes(Undo) :
          IF Lost(t) THEN PowerLoss(t, {img}, "")
          ELSE /\ Returned(t)
               /\ cur' = img
               /\ UNCHANGED <<mode, img, maybe, torn, noroom, ntx, nops>>

Between(Op(_), up) ==
    /\ mode = "up" /\ ~InTx
    /\ \E t \in Outcomes(Op) :
          IF Lost(t) THEN PowerLoss(t, {img}, "")
          ELSE /\ Returned(t)
               /\ mode' = IF t.ok THEN up ELSE "up"
               /\ UNCHANGED <<img, cur, maybe, torn, noroom, ntx, nops>>

Sync == Between(sync_filesystem, "up")

\* The timer's checkpoint.
Maintain ==
    /\ Jbd2
    /\ \E aged \in Ages : Between(LAMBDA x : periodic_maintenance(x, aged), "up")

\* Another device is read through the cache in between.
Detour == Between(block_cache_attach_inode, "up")

Unmount == Between(sync_filesystem, "down")

Mount ==
    /\ mode = "down"
    /\ \E t \in Outcomes(ext4_replay) :
          LET found == {i \in maybe : Shows(t, i)}
          IN  IF Lost(t) THEN PowerLoss(t, maybe, "replay")
              ELSE /\ Returned(t)
                   /\ mode' = IF ~t.ok THEN IF t.hit THEN "down" ELSE "refused"
                              ELSE IF (torn # "no" \/ failed) /\ found = {} THEN "mixed" ELSE "up"
                   /\ img' \in IF t.ok /\ found # {} THEN found ELSE {img}
                   /\ cur' = img'
                   /\ maybe' = IF t.ok THEN {img'} ELSE maybe
                   /\ torn' = IF mode' = "up" /\ torn = "replay" THEN "no"
                              ELSE IF mode' = "up" /\ torn = "commit" THEN "stale"
                              ELSE torn
                   /\ UNCHANGED <<noroom, ntx, nops>>

\* Power is lost while the system is idle or inside a transaction.
Crash ==
    /\ mode = "up" /\ MayCrash
    /\ PowerLoss(s, {img}, "")

Next ==
    \/ Mount \/ Unmount \/ Crash
    \/ Begin \/ Commit \/ Abort \/ Sync \/ Maintain \/ Detour
    \/ \E b \in Blk : \E p \in 1 .. 2 : Write(b, p)
    \/ \E b \in Blk : FreeBlk(b)

Spec == Init /\ [][Next]_vars

-----------------------------------------------------------------------------
(***************************************************************************)
(* Properties.                                                             *)
(***************************************************************************)
\* block_cache.c: no block is cached twice, and a clean line is what the device
\* holds, whatever write-backs, reads and flushes failed in between.
CacheCoherent == Coherent(s)

\* ext4_disk_read_bytes: what the running system reads is the committed image and
\* the open transaction's own writes: never a mixture left by a checkpoint, an
\* abort, a failed commit or a device switch.  (The redo log applies a commit in
\* place, so there a failed command may leave part of it.)
ReadsSeeCommitted ==
    mode = "up" /\ (failed => Jbd2) => Shows(s, cur)

\* The log to be scanned has a block that the replay refuses although a commit
\* wrote it: a descriptor of a block that was escaped after its checksum was taken,
\* or a revoke block in a journal that does not have the REVOKE feature.
Refusable(t) ==
    /\ Jbd2 /\ t.plat[JBlock(0)].start # 0
    /\ \E i \in FirstBlk .. MaxLen - 1 : \E blk \in {t.plat[JBlock(i)]} :
          /\ blk.t \in {"desc", "revoke"} /\ blk.seq >= t.plat[JBlock(0)].seq
          /\ \/ blk.t = "desc" /\ t.j.csum /\ \E k \in DOMAIN blk.tags : blk.tags[k].escape
             \/ blk.t = "revoke" /\ ~t.j.revoke

\* ext4_jbd2_replay_if_needed, ext4_journal_replay_if_needed: after a loss of
\* power, at whatever device command and however often, the mount succeeds and
\* shows the image of all transactions whose commit returned and at most the one
\* in flight, whole.  A mount that meets a block it cannot take (Refusable) may be
\* refused, and shows nothing wrong when it is not.  The other exceptions are the
\* two places where one flush covers blocks that have to reach the platter in
\* order: a commit record that got there
\* before what it commits (the journal with checksums then shows no wrong image,
\* if it mounts; the record may later be taken for that of the next transaction,
\* whose number is the same), and the empty journal there before the blocks replayed from it.
CrashAtomic ==
    mode = "down" /\ ~failed =>
        \E r \in {ext4_replay(s)} :
            /\ torn = "no" /\ ~Refusable(s) => r.ok
            /\ r.ok /\ (torn = "no" \/ (torn = "commit" /\ s.j.csum))
                 => \E i \in maybe : Shows(r, i)

\* ext4_jbd2_tx_start reserves for the largest transaction, so that without a
\* device failure a begin is never refused, and a commit only for too many revokes.
CommitHasRoom == ~noroom

\* progress.md:1560, "after successful replay, updates journal superblock", and
\* :1561, "once replay has been durably checkpointed": a replay interrupted by a
\* loss of power can be made again, and ends in the same image.
ReplayIsRepeatable ==
    mode = "down" /\ ~failed /\ torn \notin {"commit", "stale"} =>
        \E r \in {ext4_replay(s)} : r.ok => \E i \in maybe : Shows(r, i)

\* progress.md:1558, the replay "handles `JBD2_FLAG_ESCAPE` restoration", and :1700,
\* "tx writer emits on-disk JBD2 revoke blocks": the mount takes whatever log a
\* commit of this kernel has written whole.
ReplayTakesCommits ==
    mode = "down" /\ ~failed /\ torn = "no" => ext4_replay(s).ok
=============================================================================

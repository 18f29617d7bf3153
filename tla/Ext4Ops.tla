------------------------------ MODULE Ext4Ops ------------------------------
(***************************************************************************)
(* Blocks and inodes of a mounted ext4 volume (src/kernel/ext4.c):         *)
(* allocation from the group bitmaps, the block map of a file through      *)
(* direct and indirect pointers, and its map through an extent tree.       *)
(*                                                                         *)
(* An operator takes the whole state x of the file layer.  The part used   *)
(* here is                                                                 *)
(*   x.d      the volume as the running transaction sees it:               *)
(*            d.sb    superblock: readable?, free blocks, free inodes      *)
(*            d.gd    group descriptors: free blocks, free inodes, dirs    *)
(*            d.bm    blocks whose bit is set, d.im the same for inodes    *)
(*            d.ino   the inode table, d.blk the contents of each block    *)
(*   x.cb, x.ci   g_ext4.free_blocks_count and free_inodes_count.          *)
(* Every step that can fail returns [ok, x]; x keeps what was done before  *)
(* the failure, in memory and on the volume, as in the code.  Device reads *)
(* and writes do not fail here: the journal model covers those.            *)
(***************************************************************************)
EXTENDS Integers, Sequences, FiniteSets, SequencesExt, FiniteSetsExt

CONSTANTS NG,        \* groups
          BPG, IPG,  \* blocks and inodes per group
          RootIno, JournalIno, FirstIno,
          NDIR,      \* direct pointers (12)
          NPTR,      \* pointers in a block
          RootCap, NodeCap,  \* extent entries in an inode (4) and in a block
          MaxRuns,   \* EXT4_EXT_MUT_MAX_RUNS
          Units      \* bytes of a block, in the unit the model counts in

Group == 0 .. NG - 1
Block == 0 .. NG * BPG - 1
Ino == 1 .. NG * IPG
BlocksOf(g) == g * BPG .. (g + 1) * BPG - 1
InosOf(g) == g * IPG + 1 .. (g + 1) * IPG

Ok(x) == [ok |-> TRUE, x |-> x]
Fail(x) == [ok |-> FALSE, x |-> x]

\* Goes on with the result of a step, or with a value worked out once.
Then(r, Op(_)) == IF r.ok THEN Op(r) ELSE Fail(r.x)
Given(v, Op(_)) == Op(v)

\* What a block holds: file bytes, pointers, an extent node, directory records.
Bytes(s) == [k |-> "bytes", v |-> s]
Ptrs(s) == [k |-> "ptrs", v |-> s]
Zeros == [i \in 1 .. Units |-> 0]
NoPtrs == [i \in 1 .. NPTR |-> 0]
EmptyNode == [depth |-> 0, ents |-> <<>>]

\* A cached or stored inode (ext4_meta_t); ino = 0 is an invalid one.
NoMeta == [ino |-> 0, mode |-> "none", w |-> FALSE, links |-> 0, size |-> 0,
           ext |-> FALSE, ptr |-> [i \in 1 .. NDIR + 3 |-> 0],
           tree |-> EmptyNode, tgt |-> <<>>]

CeilDiv(n, k) == (n + k - 1) \div k

-----------------------------------------------------------------------------
(* Allocation *)

\* Mutant: only the count of blocks is written.
ext4_super_write_counts_blocks(x) == [x EXCEPT !.d.sb.fb = x.cb]

ext4_super_write_counts(x) ==
  [x EXCEPT !.d.sb.fb = x.cb, !.d.sb.fi = x.ci]

ext4_inode_store(x, m) == [x EXCEPT !.d.ino[m.ino] = m]

ext4_group_adjust_free(x, g, db, di) ==
  IF x.d.gd[g].fb + db < 0 \/ x.d.gd[g].fi + di < 0
    THEN Fail(x)
    ELSE Ok([x EXCEPT !.d.gd[g].fb = @ + db, !.d.gd[g].fi = @ + di])

\* The bit is set before the counts change; v is the block found.
ext4_alloc_block(x) ==
  LET gs == {g \in Group : x.d.gd[g].fb > 0 /\ ~ BlocksOf(g) \subseteq x.d.bm}
      take(g, b) == Then(ext4_group_adjust_free([x EXCEPT !.d.bm = @ \cup {b}], g, -1, 0),
        LAMBDA r : Ok(ext4_super_write_counts([r.x EXCEPT !.cb = @ - 1]))) @@ [v |-> b]
  IN  IF x.cb = 0 \/ gs = {} THEN Fail(x) @@ [v |-> 0]
      ELSE Given(Min(gs), LAMBDA g : take(g, Min(BlocksOf(g) \ x.d.bm)))

ext4_alloc_inode(x) ==
  LET gs == {g \in Group : /\ x.d.gd[g].fi > 0
                           /\ \E i \in InosOf(g) : i >= FirstIno /\ i \notin x.d.im}
      take(g, i) == Then(ext4_group_adjust_free([x EXCEPT !.d.im = @ \cup {i}], g, 0, -1),
        LAMBDA r : Ok(ext4_super_write_counts([r.x EXCEPT !.ci = @ - 1]))) @@ [v |-> i]
  IN  IF x.ci = 0 \/ gs = {} THEN Fail(x) @@ [v |-> 0]
      ELSE Given(Min(gs), LAMBDA g :
             take(g, Min({j \in InosOf(g) : j >= FirstIno /\ j \notin x.d.im})))

\* A block whose bit is clear already is left alone.
ext4_free_block(x, b) ==
  LET g == b \div BPG
      r == ext4_group_adjust_free([x EXCEPT !.d.bm = @ \ {b}], g, 1, 0)
  IN  IF b \notin Block THEN Fail(x)
      ELSE IF b \notin x.d.bm THEN Ok(x)
      ELSE Ok(ext4_super_write_counts([r.x EXCEPT !.cb = @ + 1]))

ext4_free_inode_bit(x, i) ==
  LET g == (i - 1) \div IPG
      r == ext4_group_adjust_free([x EXCEPT !.d.im = @ \ {i}], g, 0, 1)
  IN  IF i \notin Ino \/ i < FirstIno THEN Fail(x)
      ELSE IF i \notin x.d.im THEN Ok(x)
      ELSE Ok(ext4_super_write_counts([r.x EXCEPT !.ci = @ + 1]))

FreeAll(x, bs) ==
  FoldLeft(LAMBDA r, b : IF r.ok THEN ext4_free_block(r.x, b) ELSE r, Ok(x), bs)

-----------------------------------------------------------------------------
(* Pointers: NDIR direct, then one, two and three levels of NPTR.          *)

\* The slot of i_block and the index in each pointer block below it.
IndexPath(lb) ==
  LET r1 == lb - NDIR
      r2 == r1 - NPTR
      r3 == r2 - NPTR * NPTR
  IN  IF r1 < 0 THEN <<lb + 1>>
      ELSE IF r2 < 0 THEN <<NDIR + 1, r1 + 1>>
      ELSE IF r3 < 0 THEN <<NDIR + 2, (r2 \div NPTR) + 1, (r2 % NPTR) + 1>>
      ELSE <<NDIR + 3, (r3 \div (NPTR * NPTR)) + 1,
             ((r3 \div NPTR) % NPTR) + 1, (r3 % NPTR) + 1>>

ext4_map_block_direct(d, m, lb) ==
  LET p == IndexPath(lb)
  IN  FoldLeft(LAMBDA b, i : IF b = 0 THEN 0 ELSE d.blk[b].v[i], m.ptr[p[1]], Tail(p))

PutBlock(x, b, c) == [x EXCEPT !.d.blk[b] = c]

ext4_alloc_zero_block(x) ==
  Then(ext4_alloc_block(x), LAMBDA r : [r EXCEPT !.x = PutBlock(@, r.v, Ptrs(NoPtrs))])

ext4_indirect_set(x, b, i, p) == [x EXCEPT !.d.blk[b].v[i] = p]

\* Follows the path to a pointer, adding the pointer blocks that are missing.
RECURSIVE SetBelow(_, _, _, _)
SetBelow(x, b, path, p) ==
  LET i == Head(path)
      c == x.d.blk[b].v[i]
  IN  IF Len(path) = 1 THEN Ok(ext4_indirect_set(x, b, i, p))
      ELSE IF c # 0 THEN SetBelow(x, c, Tail(path), p)
      ELSE Then(ext4_alloc_zero_block(x), LAMBDA r :
             SetBelow(ext4_indirect_set(r.x, b, i, r.v), r.v, Tail(path), p))

\* m is the cached inode: a pointer block stays in it when a later one fails.
ext4_set_block_direct(x, m, lb, p) ==
  LET path == IndexPath(lb)
      s == path[1]
      below(top) == IF ~top.ok THEN Fail(top.x) @@ [m |-> m]
                    ELSE SetBelow(top.x, top.v, Tail(path), p) @@ [m |-> [m EXCEPT !.ptr[s] = top.v]]
  IN  IF Len(path) = 1 THEN Ok(x) @@ [m |-> [m EXCEPT !.ptr[s] = p]]
      ELSE below(IF m.ptr[s] # 0 THEN Ok(x) @@ [v |-> m.ptr[s]] ELSE ext4_alloc_zero_block(x))

ext4_ptr_block_is_empty(d, b) == d.blk[b].v = NoPtrs

\* Clears one pointer and frees each pointer block this leaves empty.
\* hit: the pointer's own block exists; old: what the pointer was.
RECURSIVE ClearBelow(_, _, _)
ClearBelow(x, b, path) ==
  LET i == Head(path)
      c == x.d.blk[b].v[i]
      prune(r) == IF r.hit /\ ext4_ptr_block_is_empty(r.x.d, c)
                    THEN [r EXCEPT !.x = ext4_free_block(ext4_indirect_set(@, b, i, 0), c).x]
                    ELSE r
  IN  IF Len(path) = 1
        THEN [x |-> ext4_indirect_set(x, b, i, 0), old |-> c, hit |-> TRUE]
      ELSE IF c = 0 THEN [x |-> x, old |-> 0, hit |-> FALSE]
      ELSE prune(ClearBelow(x, c, Tail(path)))

ext4_clear_block_direct(x, m, lb) ==
  LET path == IndexPath(lb)
      s == path[1]
      b == m.ptr[s]
      cleared == [m EXCEPT !.ptr[s] = 0]
      prune(r) == IF r.hit /\ ext4_ptr_block_is_empty(r.x.d, b)
                    THEN [x |-> ext4_free_block(r.x, b).x, m |-> cleared, old |-> r.old]
                    ELSE [x |-> r.x, m |-> m, old |-> r.old]
  IN  IF Len(path) = 1 THEN [x |-> x, m |-> cleared, old |-> b]
      ELSE IF b = 0 THEN [x |-> x, m |-> m, old |-> 0]
      ELSE prune(ClearBelow(x, b, Tail(path)))

\* ext4_free_indirect_subtree's blocks, in the order it frees them.
RECURSIVE SubtreeBlocks(_, _, _)
SubtreeBlocks(d, b, depth) ==
  IF b = 0 THEN <<>>
  ELSE IF depth = 0 THEN <<b>>
  ELSE FlattenSeq([i \in 1 .. NPTR |-> SubtreeBlocks(d, d.blk[b].v[i], depth - 1)]) \o <<b>>

-----------------------------------------------------------------------------
(* Extents.  A node is [depth, ents]; an entry [lb, len, pb] is a run of a *)
(* leaf, or with len = 0 names the child node in block pb.                 *)

ExtNode(n) == [k |-> "node", v |-> n]

RECURSIVE ExtentMapIn(_, _, _)
ExtentMapIn(d, n, lb) ==
  LET below == SelectSeq(n.ents, LAMBDA e : e.lb <= lb)
      e == Last(below)
  IN  IF below = <<>> THEN 0
      ELSE IF n.depth > 0 THEN ExtentMapIn(d, d.blk[e.pb].v, lb)
      ELSE IF lb < e.lb + e.len THEN e.pb + (lb - e.lb) ELSE 0

ext4_extent_map(d, m, lb) == ExtentMapIn(d, m.tree, lb)

RECURSIVE ext4_extent_collect_node(_, _)
ext4_extent_collect_node(d, n) ==
  IF n.depth = 0 THEN n.ents
  ELSE FlattenSeq([i \in 1 .. Len(n.ents) |->
                     ext4_extent_collect_node(d, d.blk[n.ents[i].pb].v)])

\* ext4_extent_free_tree_node's blocks; without free_data the index nodes only.
RECURSIVE ext4_extent_free_tree_node(_, _, _)
ext4_extent_free_tree_node(d, n, free_data) ==
  FlattenSeq([i \in 1 .. Len(n.ents) |->
    LET e == n.ents[i] IN
    IF n.depth > 0
      THEN ext4_extent_free_tree_node(d, d.blk[e.pb].v, free_data) \o <<e.pb>>
    ELSE IF free_data THEN [j \in 1 .. e.len |-> e.pb + j - 1] ELSE <<>>])

ext4_extent_merge_runs(runs) ==
  LET add(acc, r) ==
        LET p == Last(acc) IN
        IF acc # <<>> /\ p.lb + p.len = r.lb /\ p.pb + p.len = r.pb
          THEN [acc EXCEPT ![Len(acc)].len = @ + r.len]
          ELSE Append(acc, r)
  IN  FoldLeft(add, <<>>, runs)

Chunks(s, n) == [i \in 1 .. CeilDiv(Len(s), n) |->
                   SubSeq(s, (i - 1) * n + 1, IF i * n < Len(s) THEN i * n ELSE Len(s))]

\* One level of new nodes over the entries es: leaf blocks (depth 0) or index
\* blocks.  made: the blocks taken so far, freed again when one cannot be had.
BuildLevel(x, es, depth, made) ==
  LET add(r, chunk, a) ==
        IF ~a.ok THEN [r EXCEPT !.ok = FALSE, !.x = FreeAll(a.x, r.made).x]
        ELSE [ok |-> TRUE,
              x |-> PutBlock(a.x, a.v, ExtNode([depth |-> depth, ents |-> chunk])),
              made |-> Append(r.made, a.v),
              refs |-> Append(r.refs, [lb |-> chunk[1].lb, len |-> 0, pb |-> a.v])]
      one(r, chunk) == IF r.ok THEN add(r, chunk, ext4_alloc_block(r.x)) ELSE r
  IN  FoldLeft(one, [ok |-> TRUE, x |-> x, made |-> made, refs |-> <<>>], Chunks(es, NodeCap))

RECURSIVE BuildTree(_, _, _, _)
BuildTree(x, es, depth, made) ==
  IF Len(es) <= RootCap
    THEN Ok(x) @@ [root |-> [depth |-> depth, ents |-> es]]
    ELSE Then(BuildLevel(x, es, depth, made), LAMBDA r :
           BuildTree(r.x, r.refs, depth + 1, r.made))

\* The new tree is built beside the old one, stored, and then the old index
\* nodes are freed.
ext4_extent_rebuild(x, m, runs) ==
  LET swap(t, nm) ==
        FreeAll(ext4_inode_store(t.x, nm), ext4_extent_free_tree_node(t.x.d, m.tree, FALSE))
        @@ [m |-> nm]
  IN  Then(BuildTree(x, runs, 0, <<>>), LAMBDA t : swap(t, [m EXCEPT !.tree = t.root])) @@ [m |-> m]

ext4_extent_assign_block(x, m, lb, p) ==
  LET runs == ext4_extent_collect_node(x.d, m.tree)
      before == SelectSeq(runs, LAMBDA r : r.lb < lb)
      after == SelectSeq(runs, LAMBDA r : r.lb >= lb)
      clash == \/ before # <<>> /\ lb < Last(before).lb + Last(before).len
               \/ after # <<>> /\ Head(after).lb = lb
      new == before \o <<[lb |-> lb, len |-> 1, pb |-> p]>> \o after
  IN  IF clash \/ Len(runs) >= MaxRuns THEN Fail(x) @@ [m |-> m]
      ELSE ext4_extent_rebuild(x, m, ext4_extent_merge_runs(new))

ext4_extent_truncate_data(x, m, size) ==
  LET keep == CeilDiv(size, Units)
      runs == ext4_extent_collect_node(x.d, m.tree)
      cut(r) == [r EXCEPT !.len = Min({r.len, keep - r.lb})]
      kept == [i \in 1 .. Len(SelectSeq(runs, LAMBDA r : r.lb < keep)) |-> cut(runs[i])]
      gone(r) == LET n == IF r.lb < keep THEN cut(r).len ELSE 0
                 IN  [j \in 1 .. r.len - n |-> r.pb + n + j - 1]
  IN  Then(FreeAll(x, FlattenSeq([i \in 1 .. Len(runs) |-> gone(runs[i])])), LAMBDA f :
        ext4_extent_rebuild(f.x, m, ext4_extent_merge_runs(kept))) @@ [m |-> m]

-----------------------------------------------------------------------------
ext4_map_file_block(d, m, lb) ==
  IF m.ext THEN ext4_extent_map(d, m, lb) ELSE ext4_map_block_direct(d, m, lb)

\* The blocks a file holds, in the order they are freed: data and pointer or
\* index blocks.
FileBlocks(d, m) ==
  IF m.ext THEN ext4_extent_free_tree_node(d, m.tree, TRUE)
  ELSE SelectSeq(SubSeq(m.ptr, 1, NDIR), LAMBDA b : b # 0)
       \o FlattenSeq([l \in 1 .. 3 |-> SubtreeBlocks(d, m.ptr[NDIR + l], l)])

\* Mutant: the third-level and second-level trees are forgotten.
ext4_free_file_blocks_shallow(x, m) ==
  Then(FreeAll(x, IF m.ext THEN FileBlocks(x.d, m)
                  ELSE SelectSeq(SubSeq(m.ptr, 1, NDIR), LAMBDA b : b # 0)
                       \o SubtreeBlocks(x.d, m.ptr[NDIR + 1], 1)), LAMBDA f :
    f @@ [m |-> [m EXCEPT !.ptr = NoMeta.ptr, !.tree = EmptyNode, !.size = 0]]) @@ [m |-> m]

ext4_free_file_blocks(x, m) ==
  Then(FreeAll(x, FileBlocks(x.d, m)), LAMBDA f :
    f @@ [m |-> [m EXCEPT !.ptr = NoMeta.ptr, !.tree = EmptyNode, !.size = 0]]) @@ [m |-> m]
=============================================================================

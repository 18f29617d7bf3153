------------------------------ MODULE FsckOps ------------------------------
(***************************************************************************)
(* Making and checking a volume (fs_mkfs_ext4 and fs_fsck_ext4 of          *)
(* src/kernel/fs.c), both on a block device that is not mounted.           *)
(*                                                                         *)
(* The checker visits groups and inodes in order and knows only the        *)
(* bitmaps of the groups it has reached.  It stops at the first complaint  *)
(* its mode may not repair: "n" repairs nothing, "p" counters only, "y"    *)
(* also empties files whose blocks look wrong.  With metadata_csum (sb.csum)*)
(* the volume is mounted read-only, so the checksums mkfs computed stay    *)
(* right; they, the feature words and the journal superblock are left out  *)
(* but for the last comparison of the superblock's checksum.               *)
(***************************************************************************)
EXTENDS Ext4Files

CONSTANTS JBlocks,    \* length of the journal
          RecHdr,     \* the part of a record in front of the name: 8 bytes
          LenMod      \* 256, what a uint8_t wraps at

-----------------------------------------------------------------------------
(* mkfs *)

mkfs_group_has_super(g) ==
  g <= 1 \/ \E b \in {3, 5, 7}, n \in 1 .. 3 : g = b ^ n

\* In each group: superblock copy and descriptors, the two bitmaps, one block
\* of inode table; in group 0 then the root, lost+found and the journal.
mkfs_group_layout(g) ==
  LET lead == IF mkfs_group_has_super(g) THEN 2 ELSE 0
      used == lead + 3 + IF g = 0 THEN 2 + JBlocks ELSE 0
  IN  [meta |-> g * BPG .. g * BPG + lead + 2,
       table |-> g * BPG + lead + 2,
       used |-> g * BPG .. g * BPG + used - 1,
       fb |-> BPG - used,
       fi |-> IF g = 0 THEN IPG - FirstIno ELSE IPG,
       dirs |-> IF g = 0 THEN 2 ELSE 0]

RootBlock == mkfs_group_layout(0).table + 1
LostBlock == RootBlock + 1
JournalBlock == LostBlock + 1

MkfsSuper(csum) ==
  [ok |-> TRUE, csum |-> csum,
   fb |-> MapThenSumSet(LAMBDA g : mkfs_group_layout(g).fb, Group),
   fi |-> MapThenSumSet(LAMBDA g : mkfs_group_layout(g).fi, Group)]

MkfsGroups ==
  [g \in Group |-> [fb |-> mkfs_group_layout(g).fb, fi |-> mkfs_group_layout(g).fi,
                    dirs |-> mkfs_group_layout(g).dirs]]

MkfsBitmaps ==
  [bm |-> UNION {mkfs_group_layout(g).used : g \in Group}, im |-> 1 .. FirstIno]

MkfsDirs ==
  LET dot(i) == [ino |-> i, name |-> ".", len |-> RecLen(".")]
      dotdot(len) == [ino |-> RootIno, name |-> "..", len |-> len]
      rest == DirUnits - RecLen(".") - RecLen("..")
  IN  [b \in Block |->
         IF b = RootBlock
           THEN Records(<<dot(RootIno), dotdot(RecLen("..")),
                          [ino |-> FirstIno, name |-> "lost+found", len |-> rest]>>)
         ELSE IF b = LostBlock
           THEN Records(<<dot(FirstIno), dotdot(DirUnits - RecLen("."))>>)
         ELSE Bytes(Zeros)]

\* The three inodes that exist, each one extent.
MkfsInodes ==
  LET file(i, mode, links, first, n) ==
        [NoMeta EXCEPT !.ino = i, !.mode = mode, !.w = TRUE, !.links = links,
                       !.size = n * Units, !.ext = TRUE,
                       !.tree = [depth |-> 0, ents |-> <<[lb |-> 0, len |-> n, pb |-> first]>>]]
  IN  [i \in Ino |->
         IF i = RootIno THEN file(i, "dir", 3, RootBlock, 1)
         ELSE IF i = FirstIno THEN file(i, "dir", 2, LostBlock, 1)
         ELSE IF i = JournalIno THEN file(i, "reg", 1, JournalBlock, JBlocks)
         ELSE [NoMeta EXCEPT !.ino = i]]

\* What fs_mkfs_ext4 leaves on the device.
MkfsImage(csum) ==
  [sb |-> MkfsSuper(csum), gd |-> MkfsGroups, bm |-> MkfsBitmaps.bm, im |-> MkfsBitmaps.im,
   ino |-> MkfsInodes, blk |-> MkfsDirs]

-----------------------------------------------------------------------------
(* fsck *)

\* The bitmaps read so far when inode i is visited.
KnownBlocks(d, i) == {b \in d.bm : b \div BPG <= (i - 1) \div IPG}
KnownInos(d, i) == {j \in d.im : (j - 1) \div IPG <= (i - 1) \div IPG}

Visited(d) == {i \in d.im : d.ino[i].mode # "none"}

\* Mutant: one block past each run is visited too.
fsck_extent_walk_node_past(d, n) ==
  FlattenSeq([i \in DOMAIN ext4_extent_collect_node(d, n) |->
                LET e == ext4_extent_collect_node(d, n)[i]
                IN  [j \in 1 .. e.len + 1 |-> e.pb + j - 1]])

\* fsck_extent_walk_node: the data blocks under a node, not the index nodes.
fsck_extent_walk_node(d, n) ==
  FlattenSeq([i \in DOMAIN ext4_extent_collect_node(d, n) |->
                LET e == ext4_extent_collect_node(d, n)[i]
                IN  [j \in 1 .. e.len |-> e.pb + j - 1]])

\* A short symbolic link is read as block numbers: its characters give numbers
\* beyond any volume, here the first number that is no block.
fsck_iter_inode_data_blocks(d, m) ==
  IF m.ext THEN fsck_extent_walk_node(d, m.tree)
  ELSE IF ext4_is_inline_symlink(m) /\ m.size > 0 THEN <<NG * BPG>>
  ELSE SelectSeq(SubSeq(m.ptr, 1, NDIR), LAMBDA b : b # 0)

HasIndirect(m) == ~m.ext /\ \E l \in 1 .. 3 : m.ptr[NDIR + l] # 0

\* The p-th block of inode i passes: in range, allocated as far as known, new.
fsck_mark_data_block(d, i, seen, bs, p) ==
  /\ bs[p] \in KnownBlocks(d, i) \ {0}
  /\ bs[p] \notin seen
  /\ \A q \in 1 .. p - 1 : bs[q] # bs[p]

\* A name is taken to fit its record by the low eight bits of the room there is.
\* (With room a multiple of four, the length of the name and that rounded up to
\* four compare alike.)
NameFits(e) == RecLen(e.name) - RecHdr <= (e.len - RecHdr) % LenMod

fsck_scan_dir_block(d, i, es) ==
  /\ \A e \in Range(es) : NameFits(e)
  /\ \A e \in {r \in Range(es) : r.ino # 0} :
       /\ e.ino \in KnownInos(d, i)
       /\ e.name = "." => e.ino = i
  /\ \A e, f \in Range(es) :
       e.name = ".." /\ f.name = ".." /\ e.ino # 0 /\ f.ino # 0 => e.ino = f.ino

fsck_clear_inode_payload(m) ==
  [m EXCEPT !.ptr = NoMeta.ptr, !.tree = EmptyNode, !.tgt = NoMeta.tgt, !.size = 0]

\* s: go (no fatal complaint yet), d, the descriptors gd to be written at the
\* end of the groups, the blocks seen, and whether anything was repaired.
FsckInode(s, i, mode) ==
  LET m == s.d.ino[i]
      seen(bs, good) == IF HasIndirect(m) THEN s.seen ELSE s.seen \cup {bs[p] : p \in good}
      visit(bs, good, bad) ==
        IF \/ m.mode = "dir" /\ \E p \in good : ~fsck_scan_dir_block(s.d, i, s.d.blk[bs[p]].v)
           \/ bad /\ (mode # "y" \/ m.mode = "dir" \/ i = JournalIno)
          THEN [s EXCEPT !.go = FALSE]
        ELSE IF bad
          THEN [s EXCEPT !.d.ino[i] = fsck_clear_inode_payload(m), !.seen = seen(bs, good), !.fixed = TRUE]
        ELSE [s EXCEPT !.seen = seen(bs, good)]
      scan(bs, good) == visit(bs, good, HasIndirect(m) \/ good # DOMAIN bs)
      judge(bs) == scan(bs, {p \in DOMAIN bs : fsck_mark_data_block(s.d, i, s.seen, bs, p)})
  IN  IF ~s.go THEN s
      ELSE IF i >= FirstIno /\ (i \in s.d.im) # (m.mode # "none") THEN [s EXCEPT !.go = FALSE]
      ELSE IF i \notin Visited(s.d) THEN s
      ELSE judge(fsck_iter_inode_data_blocks(s.d, m))

\* Free counts first, then the bits of the group's own blocks, its inodes, and
\* the number of its directories.
FsckGroup(s, g, mode) ==
  LET fb == Cardinality(BlocksOf(g) \ s.d.bm)
      fi == Cardinality(InosOf(g) \ s.d.im)
      wrong == s.gd[g].fb # fb \/ s.gd[g].fi # fi
      s1 == IF wrong THEN [s EXCEPT !.gd[g].fb = fb, !.gd[g].fi = fi, !.fixed = TRUE] ELSE s
      inode(r, k) == FsckInode(r, g * IPG + k, mode)
      count(r, dirs) == IF ~r.go \/ dirs = r.gd[g].dirs THEN r
                        ELSE IF mode = "n" THEN [r EXCEPT !.go = FALSE]
                        ELSE [r EXCEPT !.gd[g].dirs = dirs, !.fixed = TRUE]
  IN  IF ~s.go THEN s
      ELSE IF (wrong /\ mode = "n") \/ ~ mkfs_group_layout(g).meta \subseteq s.d.bm
        THEN [s EXCEPT !.go = FALSE]
      ELSE Given(FoldLeft(inode, s1, [k \in 1 .. IPG |-> k]), LAMBDA r :
             count(r, Cardinality({i \in Visited(r.d) \cap InosOf(g) : r.d.ino[i].mode = "dir"})))

Dirs(d) == {i \in Visited(d) : d.ino[i].mode = "dir"}
DotDot(d, i) == LET p == ext4_dir_find_entry(d, d.ino[i], "..")
                IN  IF p = 0 THEN 0 ELSE Entries(d, d.ino[i])[p].ino

\* Every directory has both dots and a way up to the root.
FsckDirs(d) ==
  LET sound(dirs, up) ==
        /\ RootIno \in dirs
        /\ \A i \in dirs : ext4_dir_find_entry(d, d.ino[i], ".") # 0 /\ up[i] \in dirs
        /\ up[RootIno] = RootIno
        /\ FoldLeft(LAMBDA S, k : S \cup {i \in dirs : up[i] \in S}, {RootIno}, [k \in Ino |-> k]) = dirs
  IN  sound(Dirs(d), [i \in Dirs(d) |-> DotDot(d, i)])

\* How many live records, dots included, name the inode.
LinkRefs(d, j) ==
  MapThenSumSet(LAMBDA i : Cardinality({p \in DOMAIN Entries(d, d.ino[i]) :
                                          Entries(d, d.ino[i])[p].ino = j}), Dirs(d))

LinksWrong(d) ==
  {i \in Visited(d) : /\ i # JournalIno /\ (i >= FirstIno \/ i = RootIno)
                      /\ d.ino[i].links # LinkRefs(d, i)}

\* The counts are patched, and the checksum is compared and patched, in the buffer
\* the superblock was read into; by then it holds the last block of inode table,
\* which is not taken for a superblock with its checksum; that goes to block 0.
FsckSuper(d, mode) ==
  LET right == /\ ~d.sb.csum
               /\ d.sb.fb = Cardinality(Block \ d.bm)
               /\ d.sb.fi = Cardinality(Ino \ d.im)
  IN  IF right THEN [res |-> 0, d |-> d]
      ELSE IF mode = "n" THEN [res |-> -1, d |-> d]
      ELSE [res |-> 1, d |-> [d EXCEPT !.sb.ok = FALSE]]

fs_fsck_ext4(d, mode) ==
  LET group(r, k) == FsckGroup(r, k - 1, mode)
      relink(y, bad) == [y EXCEPT !.ino = [i \in Ino |-> IF i \in bad
                                                           THEN [@[i] EXCEPT !.links = LinkRefs(y, i)]
                                                           ELSE @[i]]]
      ended(sup, fixed) == IF sup.res = 0 /\ fixed THEN [sup EXCEPT !.res = 1] ELSE sup
      links(y, bad, fixed) == IF bad # {} /\ mode = "n" THEN [res |-> -1, d |-> y]
                              ELSE ended(FsckSuper(relink(y, bad), mode), fixed \/ bad # {})
      names(y, fixed) == IF ~FsckDirs(y) THEN [res |-> -1, d |-> y]
                         ELSE links(y, LinksWrong(y), fixed)
      start == [go |-> TRUE, d |-> d, gd |-> d.gd, seen |-> {}, fixed |-> FALSE]
  IN  IF ~d.sb.ok THEN [res |-> -1, d |-> d]
      ELSE Given(FoldLeft(group, start, [k \in 1 .. NG |-> k]), LAMBDA s :
             IF ~s.go THEN [res |-> -1, d |-> s.d] ELSE names([s.d EXCEPT !.gd = s.gd], s.fixed))
=============================================================================

------------------------------- MODULE Files -------------------------------
(***************************************************************************)
(* System calls on files as a state machine: a task works on paths of the  *)
(* memory file system and of one ext4 volume, keeps descriptors open, and  *)
(* an administrator mounts, unmounts, makes and checks the volume.         *)
(*                                                                         *)
(* x is the state of VfsOps.  fd holds the descriptors: k the inode_t the  *)
(* descriptor points at (0: closed), rw the access, and for the properties *)
(* the inode number at open time and whether that file, or a directory on  *)
(* its way to the mount point, has since been removed.  want is what the   *)
(* writes so far should have left in each regular file.  verdict is what   *)
(* the last check reported.                                                *)
(*                                                                         *)
(* A commit may be refused MaxRefuse times.  While memory is ahead of the  *)
(* volume after an abort (~MetaAgrees), no further file operation is       *)
(* taken; free counts alone being off stops nothing.                       *)
(***************************************************************************)
EXTENDS VfsOps

CONSTANTS Paths,       \* paths the task uses
          Targets,     \* targets of symbolic links
          OpenFlags,   \* combinations of O_CREAT, O_RDWR and O_TRUNC
          Fds, Offs, Lens, Sizes,
          Starts,      \* initial values of x, want and fd
          Modes,       \* modes the checker is run in
          MaxOps, MaxRefuse

VARIABLES x, fd, want, verdict, nops, nref
vars == <<x, fd, want, verdict, nops, nref>>

Closed == [k |-> 0, rw |-> FALSE, ino |-> 0, lost |-> FALSE]

Init == /\ \E s \in Starts : x = s.x /\ want = s.want /\ fd = s.fd
        /\ verdict = "none"
        /\ nops = 0 /\ nref = 0

-----------------------------------------------------------------------------
\* Descriptors whose file, or a directory above it, the step removed.
Lost(y) ==
  [f \in Fds |->
     LET gone == \E k \in Range(Chain(x, fd[f].k)) :
                   x.n[k].type # "none" /\ y.n[k].type = "none"
     IN  IF fd[f].k # 0 /\ gone THEN [fd[f] EXCEPT !.lost = TRUE] ELSE fd[f]]

Deleted(y, w) == [i \in Ino |-> IF y.d.ino[i].mode = "reg" THEN w[i] ELSE <<>>]

Ready(refuse) ==
  /\ nops < MaxOps
  /\ refuse => nref < MaxRefuse
  /\ x.mnt => MetaAgrees(x)

\* A file operation with result r, after which the files should hold w and the
\* descriptors be nfd; a call that changes nothing is not counted.
Take(r, w, nfd, refuse) ==
  LET same == r.x = x /\ nfd = fd
  IN  /\ x' = r.x
      /\ want' = Deleted(r.x, w)
      /\ fd' = nfd
      /\ nops' = IF same THEN nops ELSE nops + 1
      /\ nref' = IF refuse /\ ~same THEN nref + 1 ELSE nref
      /\ UNCHANGED verdict

FileOp(r, refuse) == Ready(refuse) /\ Take(r, want, Lost(r.x), refuse)

Mkdir(p, refuse) == FileOp(fs_create_dir(x, p, refuse), refuse)
Rmdir(p, refuse) == FileOp(fs_rmdir(x, p, refuse), refuse)
Unlink(p, refuse) == FileOp(fs_unlink(x, p, refuse), refuse)
Rename(p, q, refuse) == FileOp(fs_rename(x, p, q, refuse), refuse)
Link(p, q, refuse) == FileOp(fs_link(x, p, q, refuse), refuse)
Symlink(t, p, refuse) == FileOp(fs_symlink(x, t, p, refuse), refuse)
Chmod(p, w, refuse) == FileOp(fs_chmod(x, p, w, refuse), refuse)

\* sys_open: creation comes before the checks on type and access, so a call
\* that fails can leave a new file; O_TRUNC asks for write access.
Open(p, creat, rw, trunc, refuse) ==
  LET f == Min({g \in Fds : fd[g].k = 0})
      new(c) == [k |-> c.k, rw |-> rw, ino |-> c.x.n[c.k].ino, lost |-> FALSE]
      deny(nd) == rw /\ (nd.type = "dir" \/ ~nd.w)
      emptied(t, nd, d) ==
        IF ~t.ok THEN Take(t, want, fd, refuse)
        ELSE Take(t, IF nd.kind = "ext" THEN [want EXCEPT ![nd.ino] = <<>>] ELSE want,
                  [fd EXCEPT ![f] = d], refuse)
      found(c) ==
        IF ~c.ok \/ deny(c.x.n[c.k]) \/ (\A g \in Fds : fd[g].k # 0)
          THEN Take(c, want, fd, refuse)
        ELSE IF ~ (trunc /\ c.x.n[c.k].type = "file")
          THEN Take(c, want, [fd EXCEPT ![f] = new(c)], refuse)
        ELSE emptied(fs_truncate(c.x, c.k, 0, refuse), c.x.n[c.k], new(c))
      look(l) == IF l.k = 0 /\ creat THEN fs_create_file(l.x, p, refuse) ELSE [ok |-> l.k # 0] @@ l
  IN  Ready(refuse) /\ (trunc => rw) /\ found(look(fs_lookup(x, p)))

\* task_fd_close: a descriptor for writing stores the dirty pages, and goes
\* whether or not that succeeds.
Close(f, refuse) ==
  /\ fd[f].k # 0 /\ Ready(refuse)
  /\ \E r \in {IF fd[f].rw THEN pagecache_flush_inode(x, fd[f].k, refuse) ELSE Ok(x)} :
       Take(r, want, [fd EXCEPT ![f] = Closed], refuse)

\* pagecache_tick, or the reuse of its slot, stores the oldest dirty page.
Writeback(refuse) ==
  /\ x.pc # <<>> /\ MetaAgrees(x)
  /\ refuse => nref < MaxRefuse
  /\ x' = pagecache_entry_writeback(x, Head(x.pc), refuse).x
  /\ nref' = IF refuse THEN nref + 1 ELSE nref
  /\ UNCHANGED <<fd, want, verdict, nops>>

\* A call that, when it succeeds, leaves new in the file of node nd.
Changes(r, nd, new, refuse) ==
  Take(r, IF r.ok /\ nd.kind = "ext" THEN [want EXCEPT ![nd.ino] = new] ELSE want, fd, refuse)

\* lseek and write at the offset: the descriptor's number is what is written.
\* (Of a file that is no longer writable the call flushes the pages and tries
\* again, three times: neither does anything.)
Write(f, off, len) ==
  LET nd == x.n[fd[f].k]
      old == want[nd.ino]
      new == [i \in 1 .. Max({Len(old), off + len}) |->
                IF i - 1 \in off .. off + len - 1 THEN f
                ELSE IF i <= Len(old) THEN old[i] ELSE 0]
  IN  /\ Ready(FALSE)
      /\ fd[f].k # 0 /\ fd[f].rw
      /\ Changes(fs_write(x, fd[f].k, off, len, f), nd, new, FALSE)

\* fs_truncate with a size of its own, as the file layer offers it.
Truncate(f, size, refuse) ==
  LET nd == x.n[fd[f].k]
      old == want[nd.ino]
      new == [i \in 1 .. size |-> IF i <= Len(old) THEN old[i] ELSE 0]
  IN  /\ Ready(refuse)
      /\ fd[f].k # 0 /\ fd[f].rw
      /\ Changes(fs_truncate(x, fd[f].k, size, refuse), nd, new, refuse)

-----------------------------------------------------------------------------
\* A dirty page that cannot be stored makes the flush, and umount, fail.
Umount(refuse) ==
  LET r == fs_umount(x, {fd[f].k : f \in Fds} \ {0}, refuse)
  IN  /\ nops < MaxOps /\ x.mnt
      /\ refuse => nref < MaxRefuse
      /\ x.pc # <<>> => MetaAgrees(x)
      /\ Take(r, want, fd, refuse)

Mount ==
  LET r == fs_mount(x)
  IN  /\ nops < MaxOps /\ r.ok
      /\ x' = r.x
      /\ nops' = nops + 1
      /\ UNCHANGED <<fd, want, verdict, nref>>

Mkfs(csum) ==
  /\ nops < MaxOps /\ ~x.mnt
  /\ x' = [x EXCEPT !.d = MkfsImage(csum), !.drift = FALSE, !.starved = FALSE, !.emptied = FALSE,
                    !.dropped = {}]
  /\ want' = Deleted(x', want)
  /\ verdict' = "none"
  /\ nops' = nops + 1
  /\ UNCHANGED <<fd, nref>>

Fsck(mode) ==
  /\ nops < MaxOps /\ ~x.mnt
  /\ \E r \in {fs_fsck_ext4(x.d, mode)} :
       /\ x' = [x EXCEPT !.d = r.d,
                        !.emptied = @ \/ \E i \in Ino : r.d.ino[i].size # x.d.ino[i].size]
       /\ verdict' = CASE r.res = 0 -> "clean" [] r.res = 1 -> "repaired" [] r.res = -1 -> "failed"
  /\ nops' = nops + 1
  /\ UNCHANGED <<fd, want, nref>>

Next ==
  \/ \E r \in BOOLEAN :
       \/ \E p \in Paths :
            \/ Mkdir(p, r)
            \/ Rmdir(p, r)
            \/ Unlink(p, r)
            \/ \E q \in Paths : Rename(p, q, r)
            \/ \E q \in Paths : Link(p, q, r)
            \/ \E t \in Targets : Symlink(t, p, r)
            \/ \E w \in BOOLEAN : Chmod(p, w, r)
            \/ \E o \in OpenFlags : Open(p, o.creat, o.rw, o.trunc, r)
       \/ \E f \in Fds :
            \/ Close(f, r)
            \/ \E size \in Sizes : Truncate(f, size, r)
       \/ Writeback(r)
       \/ Umount(r)
  \/ \E f \in Fds, off \in Offs, len \in Lens : Write(f, off, len)
  \/ Mount
  \/ \E csum \in BOOLEAN : Mkfs(csum)
  \/ \E mode \in Modes : Fsck(mode)

Spec == Init /\ [][Next]_vars

-----------------------------------------------------------------------------
(* Properties *)

Live(d) == {i \in Ino : d.ino[i].mode # "none"}
Meta == UNION {mkfs_group_layout(g).meta : g \in Group}
HasBlocks(m) == m.mode # "none" /\ ~ext4_is_inline_symlink(m)
BlocksIn(d, i) == IF HasBlocks(d.ino[i]) THEN FileBlocks(d, d.ino[i]) ELSE <<>>

\* Every block is either free or belongs to exactly one owner, the group's own
\* structures or one place of one file's block map; the bitmap says which, on
\* any volume whose files the checker has not emptied.  This is what
\* allocation, truncation, the pointer and extent maps, and every error path
\* that gives blocks back have to keep together.
BlocksOwnedOnce ==
  LET all == FlattenSeq([i \in 1 .. NG * IPG |-> BlocksIn(x.d, i)])
  IN  ~x.emptied => /\ IsInjective(all)
                    /\ Range(all) \cap Meta = {}
                    /\ x.d.bm = Meta \cup Range(all)

\* The memory file system is a tree: a node is in the list of its parent, once,
\* under a name of its own, and every node hangs below the root.
MemTreeSound ==
  LET nodes == {k \in 1 .. MemMax : x.n[k].type # "none"}
      kids(k) == x.n[k].kids
  IN  /\ \A k \in nodes : 1 \in Range(Chain(x, k))
      /\ \A k \in nodes \ {1} : k \in Range(kids(x.n[k].parent))
      /\ \A k \in nodes :
           /\ \A c \in Range(kids(k)) : c \in nodes /\ x.n[c].parent = k
           /\ IsInjective([i \in DOMAIN kids(k) |-> x.n[kids(k)[i]].name])

\* Both file systems stay trees.  On the volume the directories form one from the
\* root: each has its dots, every name stands for a live inode, no name is there
\* twice, the records fill the block exactly, link counts are the number of names,
\* and an inode is allocated just when something names it.  (A lookup that met a
\* full inode cache may have let a second record of a name in.)
TreeSound ==
  LET d == x.d
      es(i) == Entries(d, d.ino[i])
      names(i) == [p \in {q \in DOMAIN es(i) : es(i)[q].ino # 0} |-> es(i)[p].name]
  IN  /\ MemTreeSound
      /\ FsckDirs(d) /\ LinksWrong(d) = {}
      /\ \A i \in Dirs(d) :
           /\ FoldLeft(LAMBDA n, e : n + e.len, 0, es(i)) = DirUnits
           /\ \A e \in Range(es(i)) : e.ino # 0 => e.ino \in Live(d) /\ e.len >= RecLen(e.name)
           /\ x.starved \/ IsInjective(names(i))
      /\ Live(d) \cup 1 .. FirstIno = d.im
      /\ \A i \in d.im : i >= FirstIno => d.ino[i].links > 0

\* The free counts: each group's descriptor always agrees with its bitmaps, and
\* the superblock with their sum unless an aborted transaction left the counts
\* in memory off.
CountsExact ==
  /\ \A g \in Group : /\ x.d.gd[g].fb = Cardinality(BlocksOf(g) \ x.d.bm)
                      /\ x.d.gd[g].fi = Cardinality(InosOf(g) \ x.d.im)
  /\ ~x.drift => /\ x.d.sb.fb = Cardinality(Block \ x.d.bm)
                 /\ x.d.sb.fi = Cardinality(Ino \ x.d.im)

\* A regular file reads back as the writes, truncations and holes so far say,
\* byte for byte, through its dirty pages or from the volume, whichever map it
\* uses and whatever else came and went, however its pages were stored or refused.
\* The exception is a file with unstored writes of which one name was unlinked
\* while another remained, or whose unlink was aborted.
ContentsAsWritten ==
  ~x.emptied =>
    \A i \in Ino \ x.dropped :
      x.d.ino[i].mode = "reg" /\ i # JournalIno => Contents(x, i) = want[i]

\* The same without the exception, as unlink(2), which progress.md:1260 refers to,
\* has it: removing a name takes nothing from a file that keeps another.
UnlinkKeepsWrites == x.dropped = {}

\* Without an abort, what the kernel caches of the mounted volume, inodes and
\* free counts, is what the volume holds, and no inode is cached twice.
CacheAgrees ==
  x.mnt /\ ~x.drift =>
    /\ Agrees(x)
    /\ \A j, k \in CacheIds : j # k /\ x.meta[j].ino = x.meta[k].ino => x.meta[j].ino = 0

\* An open descriptor keeps standing for the file it was opened on: its node is
\* not given to another file and does not vanish in an unmount, as long as the
\* file and the directories above it have not been removed.
DescriptorKeepsFile ==
  \A f \in Fds : fd[f].k # 0 /\ ~fd[f].lost =>
    /\ x.n[fd[f].k].type # "none"
    /\ x.n[fd[f].k].type = "file" => x.n[fd[f].k].ino = fd[f].ino

\* What the checker complains of although a sound volume may have it: directories
\* made since mkfs (their number in the descriptor is never kept), pointer blocks,
\* short symbolic links, names or blocks in a group it has not read yet, records
\* whose room for the name wraps at 256, and any superblock with a checksum.
Misjudged(d) ==
  \/ d.sb.csum
  \/ \E g \in Group : d.gd[g].dirs # Cardinality(Dirs(d) \cap InosOf(g))
  \/ \E i \in Live(d) : \/ HasIndirect(d.ino[i])
                        \/ ext4_is_inline_symlink(d.ino[i])
                        \/ ~ Range(fsck_iter_inode_data_blocks(d, d.ino[i])) \subseteq KnownBlocks(d, i)
  \/ \E i \in Dirs(d) : \E e \in Range(Entries(d, d.ino[i])) :
       ~NameFits(e) \/ (e.ino # 0 /\ e.ino \notin KnownInos(d, i))

\* fs_fsck_ext4 with -n on any volume the kernel has written, mounted or not: it
\* complains of free counts that an abort has spoilt, of what it misjudges, and of
\* nothing else; and it lets neither pass.
ComplaintsExplained ==
  x.d.sb.ok => (fs_fsck_ext4(x.d, "n").res # 0
                  <=> Misjudged(x.d) \/ x.d.sb.fb # Cardinality(Block \ x.d.bm)
                                     \/ x.d.sb.fi # Cardinality(Ino \ x.d.im))

\* After a check that reports repairs the superblock can be read and its free
\* counts are those of the bitmaps.
RepairFixesCounters ==
  verdict = "repaired" /\ ~x.mnt =>
    /\ x.d.sb.ok
    /\ x.d.sb.fb = Cardinality(Block \ x.d.bm)
    /\ x.d.sb.fi = Cardinality(Ino \ x.d.im)
=============================================================================

------------------------------- MODULE VfsOps -------------------------------
(***************************************************************************)
(* The file layer above both file systems (src/kernel/fs.c): path          *)
(* operations, the memory file system, and the transaction around every    *)
(* change to the mounted volume.                                           *)
(*                                                                         *)
(* Added to the state x of Ext4Files:                                      *)
(*   x.mnt      a volume is mounted                                        *)
(*   x.drift    an aborted transaction left memory ahead of the volume     *)
(*   x.emptied  the checker has emptied a file                             *)
(*   x.dropped  files that lost unstored writes to an unlink (these three  *)
(*              are model only).                                           *)
(* refuse says whether the commit is refused: the journal has no room or   *)
(* the device failed before anything became durable.                       *)
(***************************************************************************)
EXTENDS FsckOps

CONSTANTS DirMax,          \* DIR_MAX_CHILDREN
          FileCap, MaxCap  \* FILE_CAPACITY and the limit of 16 MiB

\* Cached inodes are what the volume holds, and so are the free counts.
MetaAgrees(x) ==
  \A k \in CacheIds \cup {MountPt} :
    x.meta[k].ino # 0 => /\ x.meta[k] = x.d.ino[x.meta[k].ino]
                         /\ x.n[k].ino = x.meta[k].ino
                         /\ x.n[k].size = x.meta[k].size \/ DirtyPages(x, k) # <<>>
Agrees(x) == MetaAgrees(x) /\ x.cb = x.d.sb.fb /\ x.ci = x.d.sb.fi

\* ext4_tx_begin .. ext4_tx_commit or ext4_tx_abort around an operation that
\* took x to r.x: an abort drops the blocks written, nothing else.  On a volume
\* with checksums (~write_enabled) every operation fails at its start.
Tx(x, r, refuse) ==
  LET back == [r.x EXCEPT !.d = x.d]
  IN  IF x.d.sb.csum THEN Fail(x)
      ELSE IF r.ok /\ ~refuse THEN r
      ELSE Fail([back EXCEPT !.drift = @ \/ ~Agrees(back)])

-----------------------------------------------------------------------------
(* The memory file system: its nodes are 1 .. MemMax.                      *)

inode_alloc(x, name, type) ==
  LET free == {k \in 1 .. MemMax : x.n[k].type = "none"}
  IN  IF free = {} THEN Fail(x) @@ [k |-> 0]
      ELSE Ok([x EXCEPT !.n[Min(free)] = [NoNode EXCEPT !.type = type, !.name = name]])
           @@ [k |-> Min(free)]

inode_free(x, k) == [x EXCEPT !.n[k] = NoNode]

dir_add_child(x, dir, k) ==
  IF x.n[dir].type # "dir" \/ Len(x.n[dir].kids) >= DirMax THEN Fail(x)
  ELSE Ok([x EXCEPT !.n[dir].kids = Append(@, k), !.n[k].parent = dir])

dir_remove_child(x, dir, k) ==
  IF k \notin Range(x.n[dir].kids) THEN Fail(x)
  ELSE Ok([x EXCEPT !.n[dir].kids = Remove(@, k), !.n[k].parent = 0])

mk_dir(x, parent, name) ==
  LET a == inode_alloc(x, name, "dir")
      r == dir_add_child(a.x, parent, a.k)
  IN  IF ~a.ok THEN a
      ELSE IF ~r.ok THEN Fail(inode_free(r.x, a.k)) @@ [k |-> 0]
      ELSE r @@ [k |-> a.k]

mk_file(x, parent, name) ==
  LET a == inode_alloc(x, name, "file")
      r == dir_add_child([a.x EXCEPT !.n[a.k].cap = FileCap, !.n[a.k].w = TRUE], parent, a.k)
  IN  IF ~a.ok THEN a
      ELSE IF ~r.ok THEN Fail(inode_free(r.x, a.k)) @@ [k |-> 0]
      ELSE r @@ [k |-> a.k]

memfs_ensure_capacity(x, k, need) ==
  LET sizes == {MaxCap} \cup {FileCap * 2 ^ i : i \in 0 .. MaxCap}
      cap == Min({c \in sizes : c >= need /\ c >= x.n[k].cap})
  IN  IF need <= x.n[k].cap THEN Ok(x)
      ELSE IF need > MaxCap THEN Fail(x)
      ELSE Ok([x EXCEPT !.n[k].cap = cap])

-----------------------------------------------------------------------------
(* The page cache between the file layer and the volume.  The pages of the *)
(* memory file system, and clean pages, are those of the file.             *)

\* Page p of the file in node k whose inode is m.
PageOf(x, k, m, p) ==
  LET held == SelectSeq(x.pc, LAMBDA e : e.k = k /\ e.p = p)
      file == ext4_read_file_at(x.d, m)
  IN  IF held # <<>> THEN Head(held).v
      ELSE [i \in 1 .. Units |-> IF p * Units + i <= Len(file) THEN file[p * Units + i] ELSE 0]

\* What reads of inode i return: the node's size and pages, where there is one.
\* After an abort that left the node ahead, and no page dirty: what the volume has.
Contents(x, i) ==
  LET ks == {k \in CacheIds : /\ x.meta[k].ino = i
                              /\ x.meta[k] = x.d.ino[i] \/ DirtyPages(x, k) # <<>>}
      m == x.d.ino[i]
      byte(k, j) == PageOf(x, k, m, (j - 1) \div Units)[((j - 1) % Units) + 1]
  IN  IF ks = {} THEN ext4_read_file_at(x.d, m)
      ELSE [j \in 1 .. x.n[Min(ks)].size |-> byte(Min(ks), j)]

\* val at the offsets off .. off + len - 1.
pagecache_write(x, k, off, len, val) ==
  LET first == off \div Units
      fill(y, p) == [i \in 1 .. Units |-> IF p * Units + i - 1 \in off .. off + len - 1 THEN val
                                         ELSE PageOf(y, k, y.meta[k], p)[i]]
      touch(y, p) == [y EXCEPT !.pc = Append(SelectSeq(@, LAMBDA e : e.k # k \/ e.p # p),
                                             [k |-> k, p |-> p, v |-> fill(y, p)])]
      held == FoldLeft(touch, x, [i \in 1 .. (off + len - 1) \div Units - first + 1 |-> first + i - 1])
  IN  [held EXCEPT !.n[k].size = Max({@, off + len})]

\* Each page is stored in a transaction of its own, up to the file's end, and
\* stays dirty when that fails.
pagecache_entry_writeback(x, e, refuse) ==
  LET off == e.p * Units
      n == Min({Units, x.n[e.k].size - off})
      stored(r) == [r EXCEPT !.ok = @ /\ r.done = n]
      clean(r) == IF r.ok THEN Ok([r.x EXCEPT !.pc = Remove(@, e)]) ELSE Fail(r.x)
  IN  IF n <= 0 THEN clean(Ok(x))
      ELSE clean(Tx(x, stored(ext4_write(x, e.k, off, SubSeq(e.v, 1, n))), refuse))

\* pagecache_flush_match: oldest first, up to the first that fails.
Flush(x, es, refuse) ==
  FoldLeft(LAMBDA r, e : IF r.ok THEN pagecache_entry_writeback(r.x, e, refuse) ELSE r, Ok(x), es)
pagecache_flush_inode(x, k, refuse) == Flush(x, DirtyPages(x, k), refuse)
pagecache_flush_all(x, refuse) == Flush(x, x.pc, refuse)

-----------------------------------------------------------------------------
(* Path operations.  A path is the sequence of its names; none is empty.   *)

lookup_parent(x, path) == fs_lookup(x, Front(path))

\* The parent directory and no child of that name: where a new name may go.
\* k is the parent, 0 when there is none or the name is taken.
NewName(x, path) ==
  LET in(p, c) == IF c.k # 0 THEN [c EXCEPT !.k = 0] ELSE [c EXCEPT !.k = p]
  IN  Given(lookup_parent(x, path), LAMBDA p :
        IF p.k = 0 \/ p.x.n[p.k].type # "dir" THEN [p EXCEPT !.k = 0]
        ELSE in(p.k, fs_lookup_child_mode(p.x, p.k, Last(path), FALSE, 0)))

fs_create_file(x, path, refuse) ==
  Given(NewName(x, path), LAMBDA p :
    IF p.k = 0 THEN Fail(p.x)
    ELSE IF p.x.n[p.k].kind = "ext" THEN Tx(p.x, ext4_create_file(p.x, p.k, Last(path)), refuse)
    ELSE mk_file(p.x, p.k, Last(path)))

fs_create_dir(x, path, refuse) ==
  Given(NewName(x, path), LAMBDA p :
    IF p.k = 0 THEN Fail(p.x)
    ELSE IF p.x.n[p.k].kind = "ext" THEN Tx(p.x, ext4_create_dir(p.x, p.k, Last(path)), refuse)
    ELSE mk_dir(p.x, p.k, Last(path)))

\* Hard links exist on the volume only, and only for what is not a directory.
fs_link(x, old, new, refuse) ==
  LET under(k, p) == IF p.k = 0 \/ p.x.n[p.k].kind # "ext" THEN Fail(p.x)
                     ELSE Tx(p.x, ext4_link(p.x, k, p.k, Last(new)), refuse)
  IN  Given(fs_lookup_nofollow(x, old), LAMBDA s :
        IF s.k = 0 \/ s.x.n[s.k].type # "file" \/ s.x.n[s.k].kind = "mem" THEN Fail(s.x)
        ELSE under(s.k, NewName(s.x, new)))

fs_symlink(x, t, path, refuse) ==
  Given(NewName(x, path), LAMBDA p :
    IF p.k = 0 \/ p.x.n[p.k].kind # "ext" THEN Fail(p.x)
    ELSE Tx(p.x, ext4_symlink(p.x, p.k, Last(path), t), refuse))

\* A file of the memory system that is full and not writable passes for one of
\* the images linked into the kernel and stays read-only.
fs_chmod(x, path, w, refuse) ==
  LET blob(nd) == nd.type = "file" /\ nd.cap = nd.size /\ ~nd.w
  IN  Given(fs_lookup_nofollow(x, path), LAMBDA c :
        IF c.k \in {0, 1} THEN Fail(c.x)
        ELSE IF c.x.n[c.k].kind = "ext" THEN Tx(c.x, ext4_chmod(c.x, c.k, w), refuse)
        ELSE IF blob(c.x.n[c.k]) THEN Ok(c.x)
        ELSE Ok([c.x EXCEPT !.n[c.k].w = w]))

mount_is_active(x, k) == x.mnt /\ k = MountPt

\* dir_remove_child and inode_free, as unlink and rmdir end in memory.
Drop(x, k) ==
  LET r == dir_remove_child(x, x.n[k].parent, k)
  IN  IF r.ok THEN Ok(inode_free(r.x, k)) ELSE r

\* The file's pages go even when other names of it remain.
fs_unlink(x, path, refuse) ==
  LET ext(k, r) == IF r.ok THEN Ok(pagecache_invalidate_inode(r.x, k)) ELSE r
      drops(y, k, i, r) ==
        LET hurt == DirtyPages(y, k) # <<>> /\ Contents(r.x, i) # Contents(y, i)
        IN  [r EXCEPT !.x.dropped = {j \in @ \cup (IF hurt THEN {i} ELSE {}) :
                                         r.x.d.ino[j].mode = "reg"}]
      at(y, k, nd) == IF nd.type # "file" \/ nd.parent = 0 THEN Fail(y)
                      ELSE IF nd.kind = "ext"
                        THEN drops(y, k, nd.ino, ext(k, Tx(y, ext4_unlink(y, k), refuse)))
                      ELSE Drop(y, k)
  IN  Given(fs_lookup_nofollow(x, path), LAMBDA c :
        IF c.k = 0 THEN Fail(c.x) ELSE at(c.x, c.k, c.x.n[c.k]))

fs_rmdir(x, path, refuse) ==
  LET at(y, k, nd) == IF nd.type # "dir" \/ nd.parent = 0 \/ mount_is_active(y, k) THEN Fail(y)
                      ELSE IF nd.kind = "ext" THEN Tx(y, ext4_rmdir(y, k), refuse)
                      ELSE IF nd.kids # <<>> THEN Fail(y)
                      ELSE Drop(y, k)
  IN  Given(fs_lookup_nofollow(x, path), LAMBDA c :
        IF c.k \in {0, 1} THEN Fail(c.x) ELSE at(c.x, c.k, c.x.n[c.k]))

\* The move inside the memory file system.
MemMove(x, k, np, name) ==
  LET r == dir_remove_child(x, x.n[k].parent, k)
  IN  IF Len(x.n[np].kids) >= DirMax THEN Fail(x)
      ELSE IF x.n[k].type = "dir" /\ k \in Range(Chain(x, np)) THEN Fail(x)
      ELSE IF ~r.ok THEN r
      ELSE dir_add_child([r.x EXCEPT !.n[k].name = name], np, k)

fs_rename(x, old, new, refuse) ==
  LET kind(y, k) == y.n[k].kind
      to(k, p) == IF p.k = 0 \/ kind(p.x, p.k) # kind(p.x, k) THEN Fail(p.x)
                  ELSE IF kind(p.x, k) = "ext" THEN Tx(p.x, ext4_rename(p.x, k, p.k, Last(new)), refuse)
                  ELSE MemMove(p.x, k, p.k, Last(new))
  IN  Given(fs_lookup_nofollow(x, old), LAMBDA c :
        IF c.k \in {0, 1} \/ c.x.n[c.k].parent = 0 \/ mount_is_active(c.x, c.k) THEN Fail(c.x)
        ELSE IF old = new THEN Ok(c.x)
        ELSE to(c.k, NewName(c.x, new)))

\* A file of the memory system has its size here and no contents.
fs_write(x, k, off, len, val) ==
  LET nd == x.n[k]
      e == memfs_ensure_capacity(x, k, off + len)
  IN  IF nd.type # "file" \/ ~nd.w THEN Fail(x)
      ELSE IF nd.kind = "ext" THEN Ok(pagecache_write(x, k, off, len, val))
      ELSE IF ~e.ok THEN e
      ELSE Ok([e.x EXCEPT !.n[k].size = Max({@, off + len})])

fs_truncate(x, k, size, refuse) ==
  LET nd == x.n[k]
      e == memfs_ensure_capacity(x, k, size)
      clean == pagecache_flush_inode(x, k, refuse)
  IN  IF nd.kind = "ext"
        THEN IF ~clean.ok THEN clean ELSE Tx(clean.x, ext4_truncate(clean.x, k, size), refuse)
      ELSE IF nd.type # "file" \/ ~nd.w \/ ~e.ok THEN Fail(x)
      ELSE Ok([e.x EXCEPT !.n[k].size = size])

-----------------------------------------------------------------------------
(* Mounting *)

ext4_mount(x) ==
  LET root == x.d.ino[RootIno]
      load == [x EXCEPT !.cb = x.d.sb.fb, !.ci = x.d.sb.fi, !.mnt = TRUE,
                        !.meta = [k \in DOMAIN @ |-> IF k = MountPt THEN root ELSE NoMeta],
                        !.n[MountPt].kind = "ext", !.n[MountPt].ino = RootIno,
                        !.n[MountPt].w = ~x.d.sb.csum, !.n[MountPt].size = root.size,
                        !.n[MountPt].cap = root.size]
  IN  IF ~x.d.sb.ok \/ root.mode # "dir" THEN Fail(x) ELSE Ok(load)

fs_mount(x) ==
  LET mp == x.n[MountPt]
  IN  IF mp.type # "dir" \/ mp.kind # "mem" \/ mp.kids # <<>> \/ mount_is_active(x, MountPt)
        THEN Fail(x)
        ELSE ext4_mount(x)

\* All of g_ext4 is zeroed, the cached nodes with it.
ext4_unmount(x) ==
  [x EXCEPT !.mnt = FALSE, !.cb = 0, !.ci = 0, !.pc = <<>>,
            !.meta = [k \in DOMAIN @ |-> NoMeta],
            !.n = [k \in DOMAIN @ |->
                     IF k \in CacheIds THEN NoNode
                     ELSE IF k = MountPt
                       THEN [@[k] EXCEPT !.kind = "mem", !.ino = 0, !.w = FALSE,
                                         !.size = 0, !.cap = 0]
                     ELSE @[k]]]

\* Mutant: only the mount point itself and its entries are seen.
task_inode_under_mount_top(x, k) == k = MountPt \/ x.n[k].parent = MountPt

task_inode_under_mount(x, k) == MountPt \in Range(Chain(x, k))

\* held: the nodes the open descriptors point at.
fs_umount(x, held, refuse) ==
  LET clean == pagecache_flush_all(x, refuse)
  IN  IF ~mount_is_active(x, MountPt) \/ \E k \in held : task_inode_under_mount(x, k) THEN Fail(x)
      ELSE IF ~clean.ok THEN clean
      ELSE Ok(ext4_unmount(clean.x))
=============================================================================

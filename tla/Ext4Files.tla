----------------------------- MODULE Ext4Files -----------------------------
(***************************************************************************)
(* Names and files of a mounted ext4 volume (src/kernel/ext4.c): directory *)
(* records, the cache of inodes, path lookup through symbolic links, and   *)
(* the operations the file layer calls inside a transaction.               *)
(*                                                                         *)
(* Added to the state x of Ext4Ops:                                        *)
(*   x.n       every inode_t, by number: the pool of the memory file       *)
(*             system, 1 its root and MountPt the mount point, and above   *)
(*             MemMax the slots of g_ext4.cache_nodes                      *)
(*   x.meta    root_meta (at MountPt) and cache_meta of each slot          *)
(*   x.pc      the dirty pages of files in pagecache.c, oldest first: node *)
(*             k, page p and its bytes v; a page is one block long         *)
(*   x.starved a lookup has met a full inode cache (model only).           *)
(* Names are compared, never spelled; a name's record length is RecLen,    *)
(* and a target of a symbolic link is a path, relative or from the root.   *)
(***************************************************************************)
EXTENDS Ext4Ops

CONSTANTS Names,       \* leaf names, plus "." and ".." in records
          RecLen(_),   \* record length a name needs
          DirUnits,    \* length of a directory block
          InlineMax,   \* longest target kept inside the inode (60 bytes)
          MemMax, MountPt, CacheMax, MaxDepth

CacheIds == MemMax + 1 .. MemMax + CacheMax
NodeIds == 1 .. MemMax + CacheMax

NoNode == [type |-> "none", kind |-> "mem", name |-> "", parent |-> 0, size |-> 0,
           cap |-> 0, w |-> FALSE, ino |-> 0, kids |-> <<>>]

ext4_mode_to_inode_type(mode) == IF mode = "dir" THEN "dir" ELSE "file"

\* Whether k is a directory of the mounted volume, with a usable inode.
ExtDir(x, k) == /\ k # 0
                /\ x.n[k].kind = "ext" /\ x.n[k].type = "dir"
                /\ x.meta[k].ino # 0 /\ x.meta[k].mode = "dir"

-----------------------------------------------------------------------------
(* Directory blocks: records [ino, name, len] that tile the block.         *)

Records(s) == [k |-> "dir", v |-> s]
DirBlock(d, dm) == ext4_map_file_block(d, dm, 0)
Entries(d, dm) == d.blk[DirBlock(d, dm)].v

\* Position of a live record, 0 when there is none.
ext4_dir_find_entry(d, dm, name) ==
  SelectInSeq(Entries(d, dm), LAMBDA e : e.ino # 0 /\ e.name = name)

ext4_dir_remove_entry(x, dm, name) ==
  LET cut(es, i) == IF i > 1 THEN RemoveAt([es EXCEPT ![i - 1].len = @ + es[i].len], i)
                    ELSE [es EXCEPT ![1].ino = 0]
      remove(es, i) == IF i = 0 THEN Fail(x) @@ [v |-> 0]
                       ELSE Ok(PutBlock(x, DirBlock(x.d, dm), Records(cut(es, i)))) @@ [v |-> es[i].ino]
  IN  remove(Entries(x.d, dm), ext4_dir_find_entry(x.d, dm, name))

ext4_dir_update_entry_ino(x, dm, name, ino) ==
  LET update(i) == IF i = 0 THEN Fail(x)
                   ELSE Ok([x EXCEPT !.d.blk[DirBlock(x.d, dm)].v[i].ino = ino])
  IN  update(ext4_dir_find_entry(x.d, dm, name))

\* The first record with room takes the name: a dead one whole, a live one by
\* its slack.  The directory does not grow.
ext4_dir_add_entry(x, dm, name, ino) ==
  LET need == RecLen(name)
      room(e) == IF e.ino = 0 THEN e.len >= need ELSE e.len - RecLen(e.name) >= need
      into(es, i, ideal) ==
        IF es[i].ino = 0
          THEN [es EXCEPT ![i] = [ino |-> ino, name |-> name, len |-> @.len]]
          ELSE InsertAt([es EXCEPT ![i].len = ideal], i + 1,
                        [ino |-> ino, name |-> name, len |-> es[i].len - ideal])
      add(es, i) == IF i = 0 THEN Fail(x)
                    ELSE Ok(PutBlock(x, DirBlock(x.d, dm), Records(into(es, i, RecLen(es[i].name)))))
  IN  Given(Entries(x.d, dm), LAMBDA es : add(es, SelectInSeq(es, room)))

\* ext4_dir_iter passes over dead records and the dots.
Listing(d, dm) ==
  {e \in Range(Entries(d, dm)) : e.ino # 0 /\ e.name \notin {".", ".."}}

ext4_dir_is_empty(d, dm) == Listing(d, dm) = {}

-----------------------------------------------------------------------------
(* The inode cache and lookup *)

\* A hit takes the name and parent of this lookup; a full cache finds nothing.
ext4_cache_get(x, ino, parent, name) ==
  LET hit == {k \in CacheIds : x.meta[k].ino = ino}
      free == {k \in CacheIds : x.meta[k].ino = 0}
      k == Min(free)
      m == x.d.ino[ino]
  IN  IF hit # {}
        THEN [x |-> [x EXCEPT !.n[Min(hit)].parent = parent, !.n[Min(hit)].name = name],
              k |-> Min(hit)]
      ELSE IF free = {} THEN [x |-> [x EXCEPT !.starved = TRUE], k |-> 0]
      ELSE [x |-> [x EXCEPT
                    !.meta[k] = [m EXCEPT !.ino = ino],
                    !.n[k] = [NoNode EXCEPT
                                !.type = ext4_mode_to_inode_type(m.mode), !.kind = "ext",
                                !.ino = ino, !.parent = parent, !.name = name,
                                !.w = ~x.d.sb.csum /\ m.mode = "reg" /\ m.w, !.size = m.size]],
            k |-> k]

\* Every slot of the inode is zeroed, whoever still points at it.
\* Mutant: the slot keeps the freed inode.
ext4_cache_invalidate_ino_keep(x, ino) == x

ext4_cache_invalidate_ino(x, ino) ==
  LET gone == {k \in CacheIds : x.meta[k].ino = ino}
  IN  [x EXCEPT !.meta = [k \in DOMAIN @ |-> IF k \in gone THEN NoMeta ELSE @[k]],
                !.n = [k \in DOMAIN @ |-> IF k \in gone THEN NoNode ELSE @[k]]]

RECURSIVE Ancestors(_, _, _)
Ancestors(x, k, fuel) ==
  IF k = 0 \/ fuel = 0 THEN <<>> ELSE <<k>> \o Ancestors(x, x.n[k].parent, fuel - 1)

\* k, its parent and so on, as the loops over inode->parent meet them.
Chain(x, k) == Ancestors(x, k, MemMax + CacheMax)

ext4_inode_abs_path(x, k) ==
  LET up == SelectSeq(Chain(x, k), LAMBDA j : x.n[j].parent # 0)
  IN  Reverse([i \in DOMAIN up |-> x.n[up[i]].name])

ext4_normalize_abs_path(path) ==
  FoldLeft(LAMBDA acc, c : IF c = "." THEN acc
                           ELSE IF c # ".." THEN Append(acc, c)
                           ELSE IF acc = <<>> THEN acc ELSE Front(acc), <<>>, path)

ext4_is_inline_symlink(m) == m.mode = "lnk" /\ ~m.ext /\ m.size <= InlineMax

ext4_read_symlink_target(d, m) ==
  IF ext4_is_inline_symlink(m) THEN m.tgt ELSE d.blk[ext4_map_file_block(d, m, 0)].v

dir_find_child(x, k, name) ==
  LET s == SelectSeq(x.n[k].kids, LAMBDA c : x.n[c].name = name)
  IN  IF s = <<>> THEN 0 ELSE s[1]

RECURSIVE Lookup(_, _, _, _)
ext4_lookup_child_internal(x, dir, name, follow, depth) ==
  LET dm == x.meta[dir]
      i == ext4_dir_find_entry(x.d, dm, name)
      onward(y, t) ==
        Lookup(y, ext4_normalize_abs_path((IF t.abs THEN <<>> ELSE ext4_inode_abs_path(y, dir)) \o t.path),
               TRUE, depth + 1)
      found(c) == IF c.k = 0 \/ ~follow \/ c.x.meta[c.k].mode # "lnk" THEN c
                  ELSE IF depth >= MaxDepth \/ c.x.meta[c.k].size = 0 THEN [c EXCEPT !.k = 0]
                  ELSE onward(c.x, ext4_read_symlink_target(c.x.d, c.x.meta[c.k]))
  IN  IF ~ExtDir(x, dir) \/ ~ \E e \in Listing(x.d, dm) : e.name = name THEN [x |-> x, k |-> 0]
      ELSE found(ext4_cache_get(x, Entries(x.d, dm)[i].ino, dir, name))

fs_lookup_child_mode(x, dir, name, follow, depth) ==
  IF dir = 0 \/ x.n[dir].type # "dir" THEN [x |-> x, k |-> 0]
  ELSE IF x.n[dir].kind = "ext" THEN ext4_lookup_child_internal(x, dir, name, follow, depth)
  ELSE [x |-> x, k |-> dir_find_child(x, dir, name)]

\* fs_lookup_internal: the links of the last component are followed on demand.
Lookup(x, path, follow, depth) ==
  FoldLeft(LAMBDA r, i :
             IF r.k = 0 THEN r
             ELSE fs_lookup_child_mode(r.x, r.k, path[i], i < Len(path) \/ follow, depth),
           [x |-> x, k |-> 1], [i \in DOMAIN path |-> i])

fs_lookup(x, path) == Lookup(x, path, TRUE, 0)
fs_lookup_nofollow(x, path) == Lookup(x, path, FALSE, 0)

-----------------------------------------------------------------------------
(* Operations, each inside a transaction that its caller ends              *)

\* Goes on if the name is free in parent, and with the node of an inode.
IfFree(x, parent, name, Op(_)) ==
  Given(ext4_lookup_child_internal(x, parent, name, FALSE, 0),
        LAMBDA l : IF l.k # 0 THEN Fail(l.x) ELSE Op(l.x))
Node(x, ino, parent, name, Op(_, _)) ==
  Given(ext4_cache_get(x, ino, parent, name),
        LAMBDA c : IF c.k = 0 THEN Fail(c.x) ELSE Ok(Op(c.x, c.k)) @@ [k |-> c.k])

ext4_create_file(x, parent, name) ==
  LET meta(i) == [NoMeta EXCEPT !.ino = i, !.mode = "reg", !.w = TRUE, !.links = 1]
      new(y, k) == [y EXCEPT !.n[k].w = TRUE, !.n[k].size = 0]
  IN  IfFree(x, parent, name, LAMBDA y :
      Then(ext4_alloc_inode(y), LAMBDA a :
      Then(ext4_dir_add_entry(ext4_inode_store(a.x, meta(a.v)), a.x.meta[parent], name, a.v), LAMBDA e :
      Node(e.x, a.v, parent, name, new))))

\* What ext4_create_dir and ext4_symlink give back when they fail midway.
Undo(x, b, ino) == ext4_free_inode_bit(IF b = 0 THEN x ELSE ext4_free_block(x, b).x, ino).x

ext4_create_dir(x, parent, name) ==
  LET meta(i, b) == [NoMeta EXCEPT !.ino = i, !.mode = "dir", !.w = TRUE, !.links = 2,
                                   !.size = Units, !.ptr[1] = b]
      dots(i, up) == <<[ino |-> i, name |-> ".", len |-> RecLen(".")],
                       [ino |-> up, name |-> "..", len |-> DirUnits - RecLen(".")]>>
      up(y) == ext4_inode_store(y, y.meta[parent])
      new(y, k) == y
      named(e, a, b) ==
        IF ~e.ok THEN Fail(Undo(e.x, b.v, a.v))
        ELSE Node(up([e.x EXCEPT !.meta[parent].links = @ + 1]), a.v, parent, name, new)
      made(a, b, pm) ==
        IF ~b.ok THEN Fail(Undo(b.x, 0, a.v))
        ELSE named(ext4_dir_add_entry(
                     ext4_inode_store(PutBlock(b.x, b.v, Records(dots(a.v, pm.ino))), meta(a.v, b.v)),
                     pm, name, a.v), a, b)
  IN  IfFree(x, parent, name, LAMBDA y :
      Then(ext4_alloc_inode(y), LAMBDA a : made(a, ext4_alloc_block(a.x), a.x.meta[parent])))

ext4_link(x, k, parent, name) ==
  LET linked(m, e) == IF ~e.ok THEN e ELSE Ok(ext4_inode_store([e.x EXCEPT !.meta[k] = m], m))
      add(y, m) == IF m.mode = "dir" THEN Fail(y)
                   ELSE linked(m, ext4_dir_add_entry(y, y.meta[parent], name, m.ino))
  IN  IfFree(x, parent, name, LAMBDA y : add(y, [y.meta[k] EXCEPT !.links = @ + 1]))

\* A target longer than InlineMax takes a block.
ext4_symlink(x, parent, name, t) ==
  LET long == t.len > InlineMax
      meta(i, b) == [NoMeta EXCEPT !.ino = i, !.mode = "lnk", !.w = TRUE, !.links = 1,
                                   !.size = t.len, !.ptr[1] = b, !.tgt = IF long THEN @ ELSE t]
      new(y, k) == [y EXCEPT !.n[k].w = FALSE]
      named(e, a, b) == IF ~e.ok THEN Fail(Undo(e.x, b.v, a.v))
                        ELSE Node(e.x, a.v, parent, name, new)
      target(b) == IF long THEN PutBlock(b.x, b.v, [k |-> "target", v |-> t]) ELSE b.x
      made(a, b) == IF ~b.ok THEN Fail(Undo(b.x, 0, a.v))
                    ELSE named(ext4_dir_add_entry(ext4_inode_store(target(b), meta(a.v, b.v)),
                                                  b.x.meta[parent], name, a.v), a, b)
  IN  IfFree(x, parent, name, LAMBDA y :
      Then(ext4_alloc_inode(y), LAMBDA a :
        made(a, IF long THEN ext4_alloc_block(a.x) ELSE Ok(a.x) @@ [v |-> 0])))

DirtyPages(x, k) == SelectSeq(x.pc, LAMBDA e : e.k = k)

\* Every page of the file goes, dirty or not.
pagecache_invalidate_inode(x, k) == [x EXCEPT !.pc = SelectSeq(@, LAMBDA e : e.k # k)]

\* The rest of ext4_unlink and ext4_rmdir once nothing names the inode: drop
\* its pages, give its blocks back, clear it and free its bit and its slot.
Release(x0, k, m) ==
  LET x == pagecache_invalidate_inode(x0, k)
      dead(f) == [f.m EXCEPT !.mode = "none", !.w = FALSE, !.ext = FALSE]
  IN  Then(IF ext4_is_inline_symlink(m)
             THEN Ok(x) @@ [m |-> [m EXCEPT !.tgt = NoMeta.tgt, !.size = 0]]
             ELSE ext4_free_file_blocks(x, m), LAMBDA f :
      Then(ext4_free_inode_bit(ext4_inode_store(f.x, dead(f)), m.ino), LAMBDA g :
        Ok(ext4_cache_invalidate_ino(g.x, m.ino))))

ext4_unlink(x, k) ==
  LET parent == x.n[k].parent
      m == [x.meta[k] EXCEPT !.links = IF @ > 0 THEN @ - 1 ELSE 0]
      removed(r) == IF ~r.ok \/ r.v # m.ino THEN Fail(r.x)
                    ELSE IF m.links = 0 THEN Release(r.x, k, m)
                    ELSE Ok(ext4_inode_store([r.x EXCEPT !.meta[k] = m, !.n[k].size = m.size], m))
  IN  IF ~ExtDir(x, parent) \/ m.mode = "dir" THEN Fail(x)
      ELSE removed(ext4_dir_remove_entry(x, x.meta[parent], x.n[k].name))

ext4_rmdir(x, k) ==
  LET parent == x.n[k].parent
      dm == x.meta[k]
      pm == [x.meta[parent] EXCEPT !.links = IF @ > 0 THEN @ - 1 ELSE 0]
      removed(r) == IF ~r.ok \/ r.v # dm.ino THEN Fail(r.x)
                    ELSE Release(ext4_inode_store([r.x EXCEPT !.meta[parent] = pm], pm), k,
                                 [dm EXCEPT !.links = 0])
  IN  IF ~ExtDir(x, parent) \/ ~ExtDir(x, k) THEN Fail(x)
      ELSE IF ~ext4_dir_is_empty(x.d, dm) THEN Fail(x)
      ELSE removed(ext4_dir_remove_entry(x, x.meta[parent], x.n[k].name))

\* Mutant: a moved directory keeps the ".." of the old parent.
ext4_rename_dotdot(x, k, np, name) ==
  LET op == x.n[k].parent
      store(y) == ext4_inode_store(ext4_inode_store(y, y.meta[op]), y.meta[np])
      relink(y) == store([y EXCEPT !.meta[op].links = IF @ > 0 THEN @ - 1 ELSE 0,
                                   !.meta[np].links = @ + 1])
      reparent(y, m) ==
        IF m.mode # "dir" \/ op = np THEN Ok(y)
        ELSE Ok(relink(y))
      added(e, m, old) ==
        IF ~e.ok THEN Fail(ext4_dir_add_entry(e.x, e.x.meta[op], old, m.ino).x)
        ELSE Then(reparent(e.x, m), LAMBDA y : Ok([y.x EXCEPT !.n[k].parent = np, !.n[k].name = name]))
      removed(r, m, old) ==
        IF ~r.ok \/ r.v # m.ino THEN Fail(r.x)
        ELSE added(ext4_dir_add_entry(r.x, r.x.meta[np], name, m.ino), m, old)
      move(y, m, old) ==
        IF m.mode = "dir" /\ k \in Range(Chain(y, np)) THEN Fail(y)
        ELSE removed(ext4_dir_remove_entry(y, y.meta[op], old), m, old)
  IN  IF ~ExtDir(x, op) \/ ~ExtDir(x, np) THEN Fail(x)
      ELSE IF op = np /\ x.n[k].name = name THEN Ok(x)
      ELSE IfFree(x, np, name, LAMBDA y : move(y, y.meta[k], y.n[k].name))

ext4_rename(x, k, np, name) ==
  LET op == x.n[k].parent
      store(y) == ext4_inode_store(ext4_inode_store(y, y.meta[op]), y.meta[np])
      relink(y) == store([y EXCEPT !.meta[op].links = IF @ > 0 THEN @ - 1 ELSE 0,
                                   !.meta[np].links = @ + 1])
      back(y, m, old) == ext4_dir_add_entry(y, y.meta[op], old, m.ino).x
      reparent(y, m, old) ==
        IF m.mode # "dir" \/ op = np THEN Ok(y)
        ELSE Given(ext4_dir_update_entry_ino(y, m, "..", y.meta[np].ino), LAMBDA u :
               IF u.ok THEN Ok(relink(u.x))
               ELSE Fail(back(ext4_dir_remove_entry(u.x, u.x.meta[np], name).x, m, old)))
      added(e, m, old) ==
        IF ~e.ok THEN Fail(back(e.x, m, old))
        ELSE Then(reparent(e.x, m, old), LAMBDA y : Ok([y.x EXCEPT !.n[k].parent = np, !.n[k].name = name]))
      removed(r, m, old) ==
        IF ~r.ok \/ r.v # m.ino THEN Fail(r.x)
        ELSE added(ext4_dir_add_entry(r.x, r.x.meta[np], name, m.ino), m, old)
      move(y, m, old) ==
        IF m.mode = "dir" /\ k \in Range(Chain(y, np)) THEN Fail(y)
        ELSE removed(ext4_dir_remove_entry(y, y.meta[op], old), m, old)
  IN  IF ~ExtDir(x, op) \/ ~ExtDir(x, np) THEN Fail(x)
      ELSE IF op = np /\ x.n[k].name = name THEN Ok(x)
      ELSE IfFree(x, np, name, LAMBDA y : move(y, y.meta[k], y.n[k].name))

ext4_chmod(x, k, w) ==
  LET m == [x.meta[k] EXCEPT !.w = w]
  IN  IF m.ino = 0 THEN Fail(x)
      ELSE IF m = x.meta[k] THEN Ok(x)
      ELSE Ok(ext4_inode_store([x EXCEPT !.meta[k] = m, !.n[k].w = m.mode = "reg" /\ w], m))

-----------------------------------------------------------------------------
(* Contents *)

ext4_read_file_at(d, m) ==
  [i \in 1 .. m.size |->
     LET p == ext4_map_file_block(d, m, (i - 1) \div Units)
     IN  IF p = 0 THEN 0 ELSE d.blk[p].v[((i - 1) % Units) + 1]]

\* Enters block b in the map of the file.
MapBlock(x, m, lb, b) ==
  IF m.ext THEN ext4_extent_assign_block(x, m, lb, b) ELSE ext4_set_block_direct(x, m, lb, b)

\* data from the offset off on; the inode's own size is ahead of the stored one
\* when the page cache has already taken the write.
ext4_write(x, k, off, data) ==
  LET len == Len(data)
      m0 == [x.meta[k] EXCEPT !.size = Max({@, x.n[k].size})]
      last == (off + len - 1) \div Units
      end(lb) == Min({(lb + 1) * Units, off + len}) - off
      fill(old, lb) == Bytes([i \in 1 .. Units |->
                                IF lb * Units + i - off \in 1 .. len THEN data[lb * Units + i - off]
                                ELSE old[i]])
      mapped(r, lb, b, s) ==
        IF s.ok THEN [go |-> TRUE, x |-> s.x, m |-> s.m, done |-> end(lb)]
        ELSE [r EXCEPT !.go = FALSE, !.x = ext4_free_block(s.x, b).x, !.m = s.m]
      fresh(r, lb, a) ==
        IF a.ok THEN mapped(r, lb, a.v, MapBlock(PutBlock(a.x, a.v, fill(Zeros, lb)), r.m, lb, a.v))
        ELSE [r EXCEPT !.go = FALSE, !.x = a.x]
      put(r, lb, p) ==
        IF p = 0 THEN fresh(r, lb, ext4_alloc_block(r.x))
        ELSE [r EXCEPT !.x = PutBlock(@, p, fill(@.d.blk[p].v, lb)), !.done = end(lb)]
      one(r, lb) == IF r.go THEN put(r, lb, ext4_map_file_block(r.x.d, r.m, lb)) ELSE r
      store(w, m) == ext4_inode_store([w.x EXCEPT !.meta[k] = m, !.n[k].size = m.size], m)
      written(w) ==
        IF w.done = 0 THEN Fail([w.x EXCEPT !.meta[k] = w.m]) @@ [done |-> 0]
        ELSE Ok(store(w, [w.m EXCEPT !.size = Max({@, off + w.done})])) @@ [done |-> w.done]
  IN  IF ~x.n[k].w \/ x.meta[k].mode # "reg" THEN Fail(x) @@ [done |-> 0]
      ELSE written(FoldLeft(one, [go |-> TRUE, x |-> x, m |-> m0, done |-> 0],
                            [i \in 1 .. last - (off \div Units) + 1 |-> (off \div Units) + i - 1]))

\* Mutant: the bytes behind the new end stay in the last block.
ZeroTail_skip(x, m, size) == x

ZeroTail(x, m, size) ==
  LET p == ext4_map_file_block(x.d, m, CeilDiv(size, Units) - 1)
      cut == size % Units
  IN  IF cut = 0 \/ p = 0 THEN x
      ELSE PutBlock(x, p, Bytes([i \in 1 .. Units |-> IF i > cut THEN 0 ELSE x.d.blk[p].v[i]]))

\* Block by block from the new end: the pointer goes, the inode is stored,
\* then the block is freed.
ClearFrom(x, m, size) ==
  LET from == CeilDiv(size, Units)
      n == CeilDiv(m.size, Units) - from
      free(c) == (IF c.old = 0 THEN Ok(c.x) ELSE ext4_free_block(ext4_inode_store(c.x, c.m), c.old))
                 @@ [m |-> c.m]
      one(r, lb) == IF r.ok THEN free(ext4_clear_block_direct(r.x, r.m, lb)) ELSE r
  IN  FoldLeft(one, Ok(x) @@ [m |-> m], [i \in 1 .. n |-> from + i - 1])

ext4_truncate(x, k, size) ==
  LET m == x.meta[k]
      tail(r) == IF size > 0 /\ size < m.size THEN ZeroTail(r.x, r.m, size) ELSE r.x
      store(y, nm) == ext4_inode_store([y EXCEPT !.meta[k] = nm, !.n[k].size = size], nm)
      cut(r) == IF ~r.ok THEN Fail([r.x EXCEPT !.meta[k] = r.m])
                ELSE Ok(store(tail(r), [r.m EXCEPT !.size = size]))
  IN  IF x.n[k].kind # "ext" \/ x.n[k].type # "file" \/ ~x.n[k].w \/ m.mode # "reg" THEN Fail(x)
      ELSE IF size = m.size THEN Ok(x)
      ELSE cut(IF size > m.size THEN Ok(x) @@ [m |-> m]
               ELSE IF size = 0 THEN ext4_free_file_blocks(x, m)
               ELSE IF m.ext THEN ext4_extent_truncate_data(x, m, size)
               ELSE ClearFrom(x, m, size))
=============================================================================

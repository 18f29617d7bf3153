------------------------------ MODULE MCFiles ------------------------------
(***************************************************************************)
(* Small instances of Files: two groups of ten blocks and four inodes, two *)
(* bytes to a block, one direct pointer and two to a pointer block, so     *)
(* that a handful of writes reaches every level of both block maps, the    *)
(* second group, and a full volume.                                        *)
(***************************************************************************)
EXTENDS Files

\* The one long name takes two units behind the header of its record, every other one.
MCRecLen(name) == IF name = "long" THEN 3 ELSE 2

MCPaths == {<<"a">>, <<"c">>, <<"c", "a">>,
            <<"m", "a">>, <<"m", "c">>, <<"m", "c", "a">>, <<"m", "a", "a">>}
MCTargets == {[abs |-> TRUE, path |-> <<"m", "c">>, len |-> 1],
              [abs |-> FALSE, path |-> <<"..", "m", "a">>, len |-> 3]}

MCOpenFlags == {[creat |-> FALSE, rw |-> FALSE, trunc |-> FALSE],
                [creat |-> TRUE, rw |-> TRUE, trunc |-> FALSE],
                [creat |-> FALSE, rw |-> TRUE, trunc |-> TRUE]}

\* Booted and freshly made: the volume is mounted on /m.
Boot ==
  [d |-> MkfsImage(FALSE), cb |-> 0, ci |-> 0,
   n |-> [k \in NodeIds |->
            IF k = 1 THEN [NoNode EXCEPT !.type = "dir", !.name = "/", !.kids = <<MountPt>>]
            ELSE IF k = MountPt THEN [NoNode EXCEPT !.type = "dir", !.name = "m", !.parent = 1]
            ELSE NoNode],
   meta |-> [k \in {MountPt} \cup CacheIds |-> NoMeta],
   mnt |-> FALSE, starved |-> FALSE, drift |-> FALSE, emptied |-> FALSE,
   pc |-> <<>>, dropped |-> {}]
Fresh == fs_mount(Boot).x
NoWant == [i \in Ino |-> <<>>]

Do(x0, o) ==
  LET path == o[2]
      k == fs_lookup(x0, path).k
  IN  CASE o[1] = "creat" -> fs_create_file(x0, path, FALSE).x
        [] o[1] = "mkdir" -> fs_create_dir(x0, path, FALSE).x
        [] o[1] = "unlink" -> fs_unlink(x0, path, FALSE).x
        [] o[1] = "link" -> fs_link(x0, path, o[3], FALSE).x
        [] o[1] = "symlink" -> fs_symlink(x0, o[3], path, FALSE).x
        [] o[1] = "write" -> pagecache_flush_all(fs_write(fs_lookup(x0, path).x, k, o[3], o[4], 1).x, FALSE).x
        [] o[1] = "umount" -> ext4_unmount(x0)
Script(x0, ops) == FoldLeft(Do, x0, ops)

\* The state a script leads to, with a descriptor open on path (or on none).
Start(s) ==
  LET k(y) == IF s.open = <<>> THEN 0 ELSE fs_lookup(y, s.open).k
      open(y, j) == [k |-> j, rw |-> TRUE, ino |-> y.n[j].ino, lost |-> FALSE]
      at(y, j) == [x |-> y, want |-> s.want,
                   fd |-> [f \in Fds |-> IF f = 1 /\ j # 0 THEN open(y, j) ELSE Closed]]
  IN  Given(Script(s.from, s.ops), LAMBDA y : at(y, k(y)))

Plan(x0, ops, path, w) == [from |-> x0, ops |-> ops, open |-> path, want |-> w]

\* A volume made by host tools, whose one file already maps by extents.
Seeded ==
  Given(fs_create_file(Fresh, <<"m", "a">>, FALSE).x, LAMBDA y :
    [y EXCEPT !.d.ino[4].ext = TRUE, !.meta[fs_lookup(y, <<"m", "a">>).k].ext = TRUE])

A == <<"m", "a">>
C == <<"m", "c">>
CA == <<"m", "c", "a">>
L == <<"m", "long">>

\* Both trees hold a directory with a file in it.
Shallow == Plan(Fresh, << <<"mkdir", <<"c">> >>, <<"creat", <<"c", "a">> >>,
                          <<"mkdir", C>>, <<"creat", CA>> >>, CA, NoWant)
\* A file with a direct block and one under the third pointer; two are free.
Deepest == Plan(Fresh, << <<"creat", A>>, <<"write", A, 1, 1>>, <<"write", A, 14, 1>> >>, A,
                 [NoWant EXCEPT ![4] = [i \in 1 .. 15 |-> IF i \in {2, 15} THEN 1 ELSE 0]])
\* Two runs that do not touch, so an index node over them.
Extents == Plan(Seeded, << <<"write", A, 0, 2>>, <<"write", A, 4, 2>> >>, A,
                 [NoWant EXCEPT ![4] = <<1, 1, 0, 0, 1, 1>>])
\* One file under two names in two directories.
Linked == Plan(Fresh, << <<"creat", A>>, <<"mkdir", C>>, <<"link", A, CA>> >>, CA, NoWant)
\* Three names and a full inode cache; the root directory has no room left.
Crowded == Plan(Fresh, << <<"creat", <<"m", "b">> >>, <<"creat", L>>, <<"mkdir", C>> >>, <<>>, NoWant)
\* A name that leads through a symbolic link.
Pointing == Plan(Fresh, << <<"mkdir", C>>, <<"creat", CA>>,
                            <<"symlink", A, [abs |-> TRUE, path |-> <<"m", "c">>, len |-> 1]>> >>,
                  <<>>, NoWant)
\* An aborted creation left a free count off, later unlinks wrote it out, and
\* the volume is unmounted.
Drifted == Plan(Fresh, << <<"creat", A>>, <<"creat", L>>, <<"creat", C>>, <<"creat", <<"m", "b">> >>,
                           <<"unlink", A>>, <<"unlink", L>>, <<"unlink", C>>, <<"umount">> >>, <<>>, NoWant)

MCStarts == {Start(s) : s \in {Shallow, Deepest, Extents, Linked, Crowded, Pointing, Drifted}}
=============================================================================

------------------------------- MODULE JlogOps -------------------------------
(***************************************************************************)
(* The redo log FuriOS keeps in the tail of the device for an ext4 volume  *)
(* without a JBD2 journal (the "FUJ1" area of kernel/ext4.c).  s is a      *)
(* machine of BlockCacheOps whose field g is g_journal.  The header's      *)
(* sequence number is written and never read back, and is left out.        *)
(***************************************************************************)
EXTENDS Jbd2Ops

CONSTANTS JLOG_MAX_RECORDS

Hdr == <<"hdr", 0>>
Rec(i) == <<"rec", i>>
Dat(i) == <<"dat", i>>

\* The machine holds the block only in part changed: read, merge, write.
raw_write(s, b, part, w) ==
    Then(block_cache_read(s, Home(b)), LAMBDA t :
         LET v == LineData(t, Home(b))
         IN  block_cache_write(t, Home(b), [p \in 1 .. 2 |-> IF p \in part THEN w ELSE v[p]]))

journal_write_header(s, state, n) == write_block(s, Hdr, [state |-> state, n |-> n])

journal_clear(s) == Then(journal_write_header(s, "CLEAN", 0), block_cache_flush)

jlog_begin(s) ==
    LET r == Then(journal_write_header(s, "PREP", 0), block_cache_flush)
    IN  IF s.g.active THEN Fail(s)
        ELSE [r EXCEPT !.g = [active |-> r.ok, recs |-> <<>>]]

jlog_write(s, b, part, w) ==
    LET i == Len(s.g.recs) + 1
        r == Then(write_block(s, Rec(i), [b |-> b, part |-> part]),
                  LAMBDA t : write_block(t, Dat(i), w))
    IN  IF i > JLOG_MAX_RECORDS THEN Fail(s)
        ELSE Then(r, LAMBDA t : [t EXCEPT !.g.recs = Append(@, [b |-> b, part |-> part, w |-> w])])

jlog_view(g, b, v) ==
    FoldLeft(LAMBDA a, r : IF r.b # b THEN a
                           ELSE [p \in 1 .. 2 |-> IF p \in r.part THEN r.w ELSE a[p]],
             v, g.recs)

jlog_apply(s, recs) ==
    FoldLeft(LAMBDA t, r : Then(t, LAMBDA u : raw_write(u, r.b, r.part, r.w)), s, recs)

jlog_commit(s) ==
    LET open == [s EXCEPT !.g.active = FALSE]
        sealed == Then(journal_write_header(open, "COMMIT", Len(s.g.recs)), block_cache_flush)
        home == Then(Then(sealed, LAMBDA t : jlog_apply(t, s.g.recs)), block_cache_flush)
    IN  IF ~s.g.active THEN Fail(s)
        ELSE Then(Then(home, journal_clear), LAMBDA t : [t EXCEPT !.g.recs = <<>>])

jlog_abort(s) ==
    IF ~s.g.active THEN s
    ELSE LET t == journal_clear([s EXCEPT !.ok = ~Lost(s)])
         IN  [t EXCEPT !.g = [active |-> FALSE, recs |-> <<>>], !.ok = ~Lost(t)]

jlog_replay(s) ==
    LET t == block_cache_read(s, Hdr)
        h == LineData(t, Hdr)
        Apply(u, i) ==
            Then(Then(u, LAMBDA a : block_cache_read(a, Rec(i))), LAMBDA a :
                 LET r == LineData(a, Rec(i))
                 IN  IF r.part = {} THEN Fail(a)     \* r.len == 0
                     ELSE Then(block_cache_read(a, Dat(i)), LAMBDA c :
                               raw_write(c, r.b, r.part, LineData(c, Dat(i)))))
    IN  IF ~t.ok THEN t
        ELSE IF h.state # "COMMIT" \/ h.n = 0 THEN journal_clear(t)
        ELSE Then(Then(FoldLeft(Apply, t, [i \in 1 .. h.n |-> i]), block_cache_flush),
                  journal_clear)
=============================================================================

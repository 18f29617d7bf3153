----------------------------- MODULE MCPageCache -----------------------------
(* Three pages over two slots, so that pages are evicted; two dirty pages are *)
(* at both marks, so that a write or a write fault meets the critical one.    *)
EXTENDS PageCache, TLC

CONSTANTS t1, t2, p1, p2, p3

TwoTasks == {t1, t2}

Interchangeable == Permutations(Task) \cup Permutations(FPage)
=============================================================================

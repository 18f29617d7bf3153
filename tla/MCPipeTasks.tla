---------------------------- MODULE MCPipeTasks ------------------------------
(* Tasks on small pipes: one pipe slot between two or three tasks.            *)
EXTENDS PipeTasks, TLC

CONSTANTS p1, p2, p3

TwoProcs == {p1, p2}

ThreeProcs == {p1, p2, p3}

Interchangeable == Permutations(Proc)

OnePipe == {1}

Short == {1}

ShortAndLong == {1, 3}

Good == {FALSE}

GoodAndBad == {FALSE, TRUE}
=============================================================================

---------------------------- MODULE PrivateMemory ----------------------------
(***************************************************************************)
(* What fork and private mappings promise: every task has a memory of its  *)
(* own, fork copies it, and a store changes one page of the task that      *)
(* runs.  Frames, sharing, page tables and the TLB do not exist here.      *)
(***************************************************************************)
EXTENDS Integers

CONSTANTS Task, Va, Value, Zero, Unmapped, Boot

VARIABLES
    view,     \* what each task finds at each page
    cur       \* the running task

Empty == [va \in Va |-> Unmapped]

Init == view = [t \in Task |-> Empty] /\ cur = Boot

Store(va, v) ==
    /\ view[cur][va] # Unmapped
    /\ view' = [view EXCEPT ![cur][va] = v]
    /\ UNCHANGED cur

\* Demand paging: new pages read as zero.
Map(va) ==
    /\ view[cur][va] = Unmapped
    /\ view' = [view EXCEPT ![cur][va] = Zero]
    /\ UNCHANGED cur

Unmap(va) == view' = [view EXCEPT ![cur][va] = Unmapped] /\ UNCHANGED cur

Fork(c) ==
    /\ c # cur /\ view[c] = Empty
    /\ view' = [view EXCEPT ![c] = view[cur]]
    /\ UNCHANGED cur

\* exec: the old memory goes, the pages of the program come.
Exec(pages) ==
    /\ view' = [view EXCEPT ![cur] = [va \in Va |-> IF va \in pages THEN Zero ELSE Unmapped]]
    /\ UNCHANGED cur

\* A reaped task loses its memory; if it was running, another runs next.
Reap(t, n) ==
    /\ t = cur \/ n = cur
    /\ t # n
    /\ view' = [view EXCEPT ![t] = Empty]
    /\ cur' = n

Switch(n) == cur' = n /\ UNCHANGED view

Next ==
    \/ \E va \in Va : Map(va) \/ Unmap(va) \/ \E v \in Value : Store(va, v)
    \/ \E c \in Task : Fork(c) \/ Switch(c)
    \/ \E pages \in SUBSET Va : Exec(pages)
    \/ \E t, n \in Task : Reap(t, n)

Spec == Init /\ [][Next]_<<view, cur>>
=============================================================================

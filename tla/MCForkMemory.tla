---------------------------- MODULE MCForkMemory -----------------------------
(* Three task slots, two-page stacks, one-page tables, ten heap pages.        *)
EXTENDS ForkMemory

MCPrograms == {<<0, 0, 2>>, <<1, 0, 1>>, <<2, 1, 2>>}
=============================================================================

------------------------------ MODULE MCJournal ------------------------------
EXTENDS Journal, TLC

CONSTANTS b1, b2

MCBlk == {b1, b2}

MCKinds == {"jbd2", "jbd2csum", "jbd2norevoke", "jlog"}

MCMaxTx == [jbd2 |-> 3, jbd2csum |-> 2, jbd2norevoke |-> 1, jlog |-> 3]

\* The blocks of the file system differ in nothing but their names.
Symmetry == Permutations(MCBlk)
=============================================================================

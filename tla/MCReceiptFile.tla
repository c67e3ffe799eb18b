---------------------------- MODULE MCReceiptFile ----------------------------
EXTENDS ReceiptFile, TLC

Symmetry == Permutations(Writers)

\* One kill or one failed operation, with steps of the users or without.
OneMishap == kills + faults <= 1
=============================================================================

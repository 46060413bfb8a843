------------------------------ MODULE MCDialogues ------------------------------
EXTENDS Dialogues, TLC

Symmetry == Permutations(Events)
=============================================================================

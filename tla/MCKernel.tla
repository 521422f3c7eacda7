------------------------------ MODULE MCKernel ------------------------------
EXTENDS KernelInv, TLC
Symmetry == Permutations(CmdThread) \cup Permutations(CmdProc)
=============================================================================

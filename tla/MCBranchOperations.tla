-------------------------- MODULE MCBranchOperations --------------------------
EXTENDS BranchOperations, TLC
CONSTANTS f1, d1, z1
=============================================================================

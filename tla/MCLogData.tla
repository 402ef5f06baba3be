------------------------------ MODULE MCLogData ------------------------------
(* Model checking of LogData.  The files are interchangeable.              *)
EXTENDS LogData, TLC

FileSymmetry == Permutations(Inodes)
=============================================================================

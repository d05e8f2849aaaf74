---------------------------- MODULE MCFileSystem ----------------------------
(* Small instances of FileSystem.                                          *)
EXTENDS FileSystem, TLC

CONSTANTS v1, v2

TwoValues == {v1, v2}
ValueSymmetry == Permutations(Values)
=============================================================================

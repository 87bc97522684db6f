---------------------------- MODULE MCBlockAlloc ----------------------------
(***************************************************************************)
(* BlockAlloc on a few blocks and two inodes.  Blocks are interchangeable, *)
(* and so are inodes.                                                      *)
(***************************************************************************)
EXTENDS BlockAlloc, TLC

Interchangeable == Permutations(Blocks) \cup Permutations(Inodes)
=============================================================================

---------------------------- MODULE DatabufShmMC ----------------------------
(***************************************************************************)
(* DatabufShm for TLC: the creators are interchangeable.                   *)
(***************************************************************************)
EXTENDS DatabufShm, TLC

CreatorSymmetry == Permutations(Creator)
=============================================================================

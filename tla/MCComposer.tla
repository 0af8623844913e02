----------------------------- MODULE MCComposer -----------------------------
(***************************************************************************)
(* Composer for TLC.  Anchor names are only compared, so any permutation of *)
(* them is a symmetry.                                                      *)
(***************************************************************************)
EXTENDS Composer, TLC

AnchorSymmetry == Permutations(Anchors)
=============================================================================

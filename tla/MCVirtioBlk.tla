---------------------------- MODULE MCVirtioBlk -----------------------------
(***************************************************************************)
(* Instances of VirtioBlk for TLC: a ring of two entries whose indices     *)
(* wrap every four requests.                                               *)
(***************************************************************************)
EXTENDS VirtioBlk, TLC

Symmetry == Permutations(Lba) \cup Permutations(Buf) \cup Permutations(Data)

=============================================================================

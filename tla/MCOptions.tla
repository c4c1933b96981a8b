------------------------------ MODULE MCOptions ------------------------------
(* Symmetry for model checking Options: objects are alike, and so are      *)
(* addresses of data.                                                      *)
EXTENDS Options, TLC

AddressSymmetry == Permutations(Objects) \cup Permutations(Buffers)
=============================================================================

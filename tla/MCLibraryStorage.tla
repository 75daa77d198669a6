-------------------------- MODULE MCLibraryStorage --------------------------
(* The instance of LibraryStorage for TLC: two uploads of one content.         *)
EXTENDS LibraryStorage, TLC

Symmetry == Permutations(Uploads) \cup Permutations(Requests) \cup Permutations(Workers)
=============================================================================

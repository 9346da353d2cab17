------------------------------ MODULE MCBanStore ------------------------------
(* Instance of BanStore and BanStreaks for TLC. *)
EXTENDS BanStreaks, TLC

\* Addresses are interchangeable.
Symmetry == Permutations(IP)
=============================================================================

------------------------------ MODULE MCSetup ------------------------------
(* Small instances of Setup: devices, prefixes and passphrases are
   interchangeable. *)
EXTENDS Setup, TLC

Symmetry == Permutations(Device) \cup Permutations(Prefix) \cup Permutations(Pass)
=============================================================================

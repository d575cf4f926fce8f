------------------------------ MODULE MCBackup ------------------------------
(* Small instances of Backup: two hosts and two blobs, both interchangeable. *)
EXTENDS Backup, TLC

Symmetry == Permutations(Client) \cup Permutations(Blob)
=============================================================================

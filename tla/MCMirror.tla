------------------------------ MODULE MCMirror ------------------------------
(* Small instances of Mirror: two devices, one file and conflicted copies. *)
EXTENDS Mirror

OneFile  == {"f", "copy1", "copy2"}
TwoFiles == {"f", "g", "copy1", "copy2"}
Copies   == {"copy1", "copy2"}
=============================================================================

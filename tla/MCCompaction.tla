---------------------------- MODULE MCCompaction ----------------------------
(* Small instances of Compaction: one file, two or three devices. *)
EXTENDS Compaction
=============================================================================

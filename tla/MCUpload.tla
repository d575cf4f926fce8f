------------------------------ MODULE MCUpload ------------------------------
(* Small instances of Upload: contents of one part and of more, and some of
   equal length. *)
EXTENDS Upload

(* A write that makes the file longer or shorter shows in the length of what is
   read; one from 2 to 3, or back, does not. *)
Parts(c) == IF c = 1 THEN 1 ELSE 2

(* Me starts with one file, of one part or of two. *)
First == {"f"} \X {1, 2}

(* Another device writes over that file, and Me does not send two files of
   several parts at a time. *)
Edits(d) == IF d = Me THEN (Path \X {1, 2, 3}) \ {<<"g", 3>>} ELSE {<<"f", 4>>}
=============================================================================

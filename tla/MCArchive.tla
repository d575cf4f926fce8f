----------------------------- MODULE MCArchive -----------------------------
(***************************************************************************)
(* The way into a backup and the way back, one to a behaviour.             *)
(*   archive  Two files of two chunks each, which they share: a read that  *)
(*            straddles a change yields a content that neither version had.*)
(*   restore  Every snapshot of two files and symlinks, in two packs, sound*)
(*            or damaged in one of the ways `verify` looks for, and every  *)
(*            target.                                                      *)
(***************************************************************************)
EXTENDS Archive, Restore, TLC

VARIABLE subject

Texts == {<<1, 2>>, <<2, 1>>}
Holding == {<<<<1, 2>>, <<2, 1>>>>}
OptionChoices == {<<"include", FALSE>>, <<"include", TRUE>>, <<"skip", FALSE>>}

Chunked == {<<1>>, <<1, 2>>}

Blob(b, sound) == [id |-> b, sound |-> sound]
At(p, k) == [pack |-> p, at |-> k]

SoundPacks == <<<<Blob(1, TRUE), Blob(3, TRUE)>>, <<Blob(2, TRUE)>>>>
SoundIndex == (1 :> At(1, 1)) @@ (3 :> At(1, 2)) @@ (2 :> At(2, 1))

Repositories == {
    <<SoundPacks, SoundIndex>>,
    <<SoundPacks, (1 :> At(1, 1)) @@ (3 :> At(1, 2))>>,                     \* unlisted
    <<SoundPacks, (1 :> At(1, 2)) @@ (3 :> At(1, 2)) @@ (2 :> At(2, 1))>>,  \* misplaced
    <<SoundPacks, (1 :> At(1, 1)) @@ (3 :> At(1, 2)) @@ (2 :> At(1, 2))>>,  \* in the wrong pack
    <<SoundPacks, (1 :> At(1, 1)) @@ (3 :> At(1, 2)) @@ (2 :> At(2, 2))>>,  \* past the end
    <<<<SoundPacks[1]>>, SoundIndex>>,                                      \* pack gone
    <<<<SoundPacks[1], <<Blob(2, FALSE)>>>>, SoundIndex>>}                  \* damaged

(* What is not the subject starts in one of its states, and stays there. *)
NothingAway == \A n \in Name : dir[n].stub = NoStub
NothingToRestore ==
    /\ \A n \in File : nodes[n] = Symlink /\ n \in chosen
    /\ packs = SoundPacks /\ index = SoundIndex
    /\ there = "none" /\ ~overwrite

MCInit ==
    /\ subject \in {"archive", "restore"}
    /\ Init /\ (subject = "restore" => NothingAway)
    /\ RestoreInit /\ (subject = "archive" => NothingToRestore)

MCNext ==
    \/ subject = "archive" /\ Next /\ UNCHANGED <<subject, restoreVars>>
    \/ subject = "restore" /\ RestoreNext /\ UNCHANGED <<subject, vars>>

MCSpec == MCInit /\ [][MCNext]_<<subject, vars, restoreVars>>
=============================================================================

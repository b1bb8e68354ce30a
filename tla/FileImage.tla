----------------------------- MODULE FileImage -----------------------------
(***************************************************************************)
(* What a POSIX file system promises the stores of this repository, read   *)
(* off the calls they make: write, fsync, rename of an fsynced temporary   *)
(* file, and fsync of the parent directory.                                *)
(*                                                                         *)
(* A file image is a record:                                               *)
(*   cached - the content a process reads back now (page cache);           *)
(*   synced - the content of the same inode that a power loss cannot take; *)
(*   stale  - contents of replaced inodes the name may still fall back to, *)
(*            because no directory fsync followed the rename yet.          *)
(*                                                                         *)
(* A torn final line is not a content of its own: every store drops an     *)
(* unterminated tail when it opens the file, so a torn append reads back   *)
(* as the content before it.                                               *)
(***************************************************************************)

\* The image of a file whose content and name are both on the medium.
Settled(content) == [cached |-> content, synced |-> content, stale |-> {}]

\* write(2): only the page cache changes.
Written(image, content) == [image EXCEPT !.cached = content]

\* fsync(2) on the file.
Synced(image) == [image EXCEPT !.synced = image.cached]

\* rename(2) of a temporary file that was written and fsynced: the new inode is
\* complete, but until the directory is synced the name may fall back.
Replaced(image, content) ==
    [cached |-> content,
     synced |-> content,
     stale  |-> image.stale \cup {image.cached, image.synced}]

\* fsync(2) on the parent directory: the name no longer falls back.
NameSynced(image) == [image EXCEPT !.stale = {}]

\* Everything the name may lead to after a power loss.
Survivors(image) == {image.cached, image.synced} \cup image.stale

FileImages(Content) ==
    [cached : Content, synced : Content, stale : SUBSET Content]
=============================================================================

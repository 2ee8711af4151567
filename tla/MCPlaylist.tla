----------------------------- MODULE MCPlaylist -----------------------------
(* Instances of Playlist for TLC.                                          *)
EXTENDS Playlist

(* A directory that is nearly empty, one that nearly fills the list and    *)
(* one that is too large for it.                                           *)
MCContents ==
    {[dirs |-> 1, files |-> 1], [dirs |-> 0, files |-> MaxFiles - 1], [dirs |-> 0, files |-> MaxFiles]}
=============================================================================

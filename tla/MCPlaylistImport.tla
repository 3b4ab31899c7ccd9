-------------------------- MODULE MCPlaylistImport --------------------------
(***************************************************************************)
(* A small instance of PlaylistImport: a playlist with a song that follows *)
(* itself.                                                                 *)
(***************************************************************************)
EXTENDS PlaylistImport

CONSTANTS A, B

TwiceAndOther == <<A, A, B>>
=============================================================================

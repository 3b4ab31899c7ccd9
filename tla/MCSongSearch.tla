----------------------------- MODULE MCSongSearch -----------------------------
(***************************************************************************)
(* A small instance of SongSearch: two queries that can be sent, of which  *)
(* one has fewer results than the other, and one that makes no URL and is  *)
(* suggested for the first.                                                *)
(***************************************************************************)
EXTENDS SongSearch, TLC

CONSTANTS q1, q2, q3, s1, s2, list

SomeHints == q1 :> <<q2, q3>> @@ q2 :> <<q2>> @@ q3 :> << >>
SomeResults == q1 :> <<s1, s2>> @@ q2 :> <<s2>> @@ q3 :> << >>
OnePlaylist == <<list>>
=============================================================================

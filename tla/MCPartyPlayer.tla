---------------------------- MODULE MCPartyPlayer ----------------------------
(***************************************************************************)
(* Small instances of PartyPlayer: a host and an attendee.                 *)
(***************************************************************************)
EXTENDS PartyPlayer, TLC

SongSymmetry == Permutations(Songs)
=============================================================================

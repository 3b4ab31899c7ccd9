------------------------------ MODULE PartyTypes ------------------------------
(***************************************************************************)
(* What the modules of one party share: its devices and its songs.         *)
(***************************************************************************)
CONSTANTS
    Devices,        \* the phones in the party
    Songs,          \* the songs that can be added, by their songURL
    NoSong          \* no songURL: an incomplete child, nothing playing

ASSUME TypesAssumption == NoSong \notin Songs

MaybeSongs == Songs \cup {NoSong}

=============================================================================

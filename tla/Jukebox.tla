------------------------------- MODULE Jukebox -------------------------------
(***************************************************************************)
(* What the app wants of a music player, whichever service plays: songs    *)
(* are given to it one after the other and leave it in that order, from    *)
(* the front, each of them once.  The players of the app are shown to      *)
(* implement this specification.                                           *)
(***************************************************************************)
EXTENDS Integers, Sequences

CONSTANT Songs          \* the songs that can be given to the player

VARIABLES
    toPlay,             \* the songs given and not finished, the first one next
    sounding            \* the first of them is playing

jukeboxVars == <<toPlay, sounding>>

Init == toPlay = << >> /\ sounding = FALSE

\* A song is given to the player, which may start to play.
Give(song) ==
    /\ toPlay' = Append(toPlay, song)
    /\ sounding' \in {sounding, TRUE}

\* The first song ends or is skipped; after the last one the player is silent.
Finish ==
    /\ toPlay # << >>
    /\ toPlay' = Tail(toPlay)
    /\ sounding' \in {sounding, FALSE}
    /\ sounding' => toPlay' # << >>

\* The song given last is refused by the service, and is not played.
Refuse ==
    /\ toPlay # << >>
    /\ toPlay' = SubSeq(toPlay, 1, Len(toPlay) - 1)
    /\ sounding' \in {sounding, FALSE}

PlayOrPause ==
    /\ toPlay # << >>
    /\ sounding' = ~sounding
    /\ UNCHANGED toPlay

Next == (\E song \in Songs : Give(song)) \/ Finish \/ Refuse \/ PlayOrPause

Spec == Init /\ [][Next]_jukeboxVars

=============================================================================

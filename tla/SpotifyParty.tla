----------------------------- MODULE SpotifyParty -----------------------------
(***************************************************************************)
(* The host of a Spotify party: its PartyPlayerViewController between the  *)
(* queue of the party, whose songs reach it as snapshots of new children,  *)
(* and the SpotifyMusicPlayer, whose commands are answered later.          *)
(*                                                                         *)
(* Songs are added and the host skips at any time (Spec).  PacedSpec states *)
(* what addSongs hopes for with its delay, and nothing in the code ensures: *)
(* that these two wait until all that was commanded has been handled.      *)
(***************************************************************************)
EXTENDS SpotifyMusicPlayer, SequencesExt

CONSTANTS
    MaxSongs,           \* bound: the length of the queue
    MaxCommands,        \* bound: play and pause need this many commands at most
    MaxValidations      \* bound: sessions of the user that are validated

ASSUME PartyAssumption ==
    MaxSongs \in Nat /\ MaxCommands \in Nat /\ MaxValidations \in Nat

VARIABLES
    validations,        \* requests for the current user that were sent so far,
    unanswered,         \*   those of them without an answer,
    subscribing,        \*   and the timers that will subscribe to the queue
    observers,          \* subscriptions to the queue
    queue,              \* the songs of the queue in the database
    children,           \* the snapshots of new children that wait
    currentSong,        \* the song shown as playing, or NoSong
    songQueue,          \* the songs shown as next
    songsPlayed         \* calls of didFinish

sessionVars == <<validations, unanswered, subscribing, observers>>
viewVars == <<currentSong, songQueue, songsPlayed>>
partyVars == <<spotifyVars, sessionVars, viewVars, queue, children>>

Init ==
    /\ SpotifyInit
    /\ validations = 0 /\ unanswered = 0 /\ subscribing = 0 /\ observers = 0
    /\ queue = << >> /\ children = << >>
    /\ currentSong = NoSong /\ songQueue = << >> /\ songsPlayed = 0

-----------------------------------------------------------------------------
(***************************************************************************)
(* The session: validated when the party appears, when the Spotify app     *)
(* comes back, and with each tap on the button shown after an error.       *)
(***************************************************************************)
ValidateSession ==
    /\ validations < MaxValidations
    /\ validations' = validations + 1
    /\ unanswered' = unanswered + 1
    /\ UNCHANGED <<spotifyVars, subscribing, observers, viewVars, queue, children>>

\* The user has premium: startPlayer and, with it, hasValidSession.
StartPlayer ==
    /\ unanswered > 0
    /\ unanswered' = unanswered - 1
    /\ subscribing' = subscribing + 1
    /\ UNCHANGED <<spotifyVars, validations, observers, viewVars, queue, children>>

\* A second later; a new observer hears of every child there is.
SubscribeToUpdates ==
    /\ subscribing > 0
    /\ subscribing' = subscribing - 1
    /\ observers' = observers + 1
    /\ children' = children \o queue
    /\ UNCHANGED <<spotifyVars, validations, unanswered, viewVars, queue>>

\* A device adds a song to the queue: not the one that ends it.
SongIsAdded(song) ==
    /\ Len(queue) < MaxSongs
    /\ queue # << >> => Last(queue) # song
    /\ queue' = Append(queue, song)
    /\ children' = children \o [k \in 1..observers |-> song]
    /\ UNCHANGED <<spotifyVars, sessionVars, viewVars>>

-----------------------------------------------------------------------------
\* didAddSong.
ShowAsCurrent(song) ==                                              \* a mutant
    /\ currentSong' = song
    /\ UNCHANGED songQueue

ShowAdded(song) ==
    IF currentSong = NoSong
    THEN currentSong' = song /\ UNCHANGED songQueue
    ELSE songQueue' = Append(songQueue, song) /\ UNCHANGED currentSong

DidAddSong ==
    /\ children # << >>
    /\ children' = Tail(children)
    /\ ShowAdded(Head(children))
    /\ Enqueue(Head(children))
    /\ UNCHANGED <<gotFirstTrack, controllerVars, calls, errors, sessionVars, songsPlayed, queue>>

\* playerDidStartPlaying(track): another track than the one shown has started, so
\* the one shown has finished.  After the last one the player starts anew.
ClearAfterLast == gotFirstTrack' = (gotFirstTrack /\ songQueue # << >>)

FinishShown ==
    /\ songsPlayed' = songsPlayed + 1
    /\ currentSong' = IF songQueue = << >> THEN NoSong ELSE Head(songQueue)
    /\ songQueue' = IF songQueue = << >> THEN << >> ELSE Tail(songQueue)

PlayerDidStartPlaying(track) ==
    IF track = currentSong
    THEN UNCHANGED <<viewVars, gotFirstTrack>>
    ELSE FinishShown /\ ClearAfterLast

\* The oldest call of the controller, on the main queue.
HandleCall ==
    /\ calls # << >>
    /\ calls' = Tail(calls)
    /\ LET call == Head(calls)
       IN \/ call.of = "played" /\ FirstTrackPlayed /\ UNCHANGED viewVars
          \/ /\ call.of = "metadata"
             /\ PlayerDidStartPlaying(call.track)
             /\ UNCHANGED commands
    /\ UNCHANGED <<controllerVars, errors, sessionVars, queue, children>>

-----------------------------------------------------------------------------
\* The buttons.
TapPlayPause ==
    /\ Len(commands) < MaxCommands
    /\ Play \/ Pause
    /\ UNCHANGED <<gotFirstTrack, controllerVars, calls, errors, sessionVars, viewVars, queue, children>>

\* next: without a next track, what is loaded is paused and counts as finished.
TapNext ==
    /\ Len(commands) < MaxCommands
    /\ hasMetadata
    /\ IF nextTracks # << >>
       THEN Send(SkipNext) /\ UNCHANGED <<viewVars, gotFirstTrack>>
       ELSE /\ IF currentTrack # NoSong THEN Send(SetPlaying(FALSE)) ELSE UNCHANGED commands
            /\ gotFirstTrack' = FALSE
            /\ IF currentSong # NoSong THEN FinishShown ELSE UNCHANGED viewVars
    /\ UNCHANGED <<controllerVars, calls, errors, sessionVars, queue, children>>

Controller ==
    /\ Receive \/ Fail \/ TrackEnds
    /\ UNCHANGED <<sessionVars, viewVars, queue, children>>

Subscription == ValidateSession \/ StartPlayer \/ SubscribeToUpdates
Callback == DidAddSong \/ HandleCall
Added == \E song \in Songs : SongIsAdded(song)

Next ==
    \/ Subscription \/ Callback \/ Controller
    \/ TapPlayPause
    \/ Added
    \/ TapNext

Spec == Init /\ [][Next]_partyVars

\* The commands have been carried out, and what they caused has been handled.
Settled == commands = << >> /\ calls = << >> /\ children = << >>

\* The paced party: an assumption about its users, not a guard of the code.  No song
\* is added, and the host does not skip, before the player has settled; no song is
\* added before the host observes the queue.
PacedNext ==
    \/ Subscription \/ Callback \/ Controller
    \/ TapPlayPause
    \/ Settled /\ observers > 0 /\ Added
    \/ Settled /\ TapNext

PacedSpec == Init /\ [][PacedNext]_partyVars

-----------------------------------------------------------------------------
(***************************************************************************)
(* Every variable of the party holds values of its kind.                   *)
(***************************************************************************)
PartyTypeOK ==
    /\ SpotifyTypeOK
    /\ validations \in 0..MaxValidations /\ unanswered \in 0..validations
    /\ subscribing \in Nat /\ observers \in Nat
    /\ queue \in Seq(Songs) /\ children \in Seq(Songs)
    /\ currentSong \in MaybeSongs /\ songQueue \in Seq(Songs)
    /\ songsPlayed \in Nat

Shown == (IF currentSong = NoSong THEN << >> ELSE <<currentSong>>) \o songQueue

\* The tracks of the commands that are on their way.
IsTrack(cmd) == cmd.do \in {"playURI", "queueURI"}
TrackCommands == {i \in DOMAIN commands : IsTrack(commands[i])}

TracksSent ==
    LET nth(k) == CHOOSE i \in TrackCommands :
                      Cardinality({j \in TrackCommands : j <= i}) = k
    IN [k \in 1..Cardinality(TrackCommands) |-> commands[nth(k)].track]

\* What the controller has to play: a track that is loaded after the last one was
\* skipped does not count.
Counted == gotFirstTrack \/ Played \in ToSet(calls)
Loaded == IF currentTrack # NoSong /\ Counted THEN <<currentTrack>> ELSE << >>
ToPlay == Loaded \o nextTracks \o TracksSent

(***************************************************************************)
(* Once the controller has answered and told all, and no command failed,   *)
(* what it has to play is what the host shows, in the same order.          *)
(***************************************************************************)
PlaysWhatIsShown == Settled /\ errors = 0 => ToPlay = Shown

(***************************************************************************)
(* Every song that was heard of is shown or counted as played, once: the   *)
(* count is the slot of the song shown as playing.                         *)
(***************************************************************************)
CountIsSlot ==
    observers > 0 =>
        /\ songsPlayed + Len(Shown) + Len(children) = Len(queue)
        /\ Shown \o children = SubSeq(queue, songsPlayed + 1, Len(queue))

(***************************************************************************)
(* No song takes the place of another that is still to be played: what the *)
(* controller is told to play at once, it is told when it has nothing left *)
(* to play.  A comment of addSongs says that delaying the uploads mitigates *)
(* what follows from adding too quickly; other adds are not delayed.       *)
(***************************************************************************)
NothingIsReplaced ==
    commands # << >> /\ Head(commands).do = "playURI"
        => Loaded \o nextTracks = << >>

(***************************************************************************)
(* The player is a jukebox: songs leave it once and in the order they were *)
(* given to it, whenever they are added, end, are skipped or are refused.  *)
(***************************************************************************)
Player == INSTANCE Jukebox WITH
    toPlay <- ToPlay,
    sounding <- isPlaying /\ ToPlay # << >>

IsJukebox == Player!Spec

=============================================================================

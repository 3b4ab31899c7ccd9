-------------------------- MODULE SpotifyMusicPlayer --------------------------
(***************************************************************************)
(* The SpotifyMusicPlayer of a host and the streaming controller of the    *)
(* Spotify SDK below it.  The app sends the controller commands, which it  *)
(* receives in order and later; it answers them, and tells of each change  *)
(* of its metadata, by calls that wait on the main queue.                  *)
(***************************************************************************)
EXTENDS Integers, Sequences

CONSTANTS
    Songs,              \* the tracks, by their URI
    NoSong,             \* no track
    MaxErrors           \* bound: tracks the controller refuses

ASSUME SpotifyAssumption == NoSong \notin Songs /\ MaxErrors \in Nat

VARIABLES
    gotFirstTrack,      \* a track plays or is paused: enqueue queues the others
    commands,           \* commands the controller has not received, in order
    currentTrack,       \* the controller's metadata: the track it has loaded,
    nextTracks,         \*   those it has queued,
    hasMetadata,        \*   and whether it has metadata at all
    isPlaying,          \* the playback state of the controller
    calls,              \* calls of the controller that wait on the main queue
    errors              \* tracks the controller refused

controllerVars == <<currentTrack, nextTracks, hasMetadata, isPlaying>>
spotifyVars == <<gotFirstTrack, commands, controllerVars, calls, errors>>

MaybeSongs == Songs \cup {NoSong}

Command == [do : {"playURI", "queueURI"}, track : Songs]
      \cup [do : {"setPlaying"}, on : BOOLEAN] \cup [do : {"skipNext"}]
PlayURI(song) == [do |-> "playURI", track |-> song]
QueueURI(song) == [do |-> "queueURI", track |-> song]
SetPlaying(on) == [do |-> "setPlaying", on |-> on]
SkipNext == [do |-> "skipNext"]

\* A call: the answer to a playURI, or a change of the metadata.
Call == [of : {"played"}] \cup [of : {"metadata"}, track : MaybeSongs]
Played == [of |-> "played"]
Metadata(track) == [of |-> "metadata", track |-> track]

SpotifyInit ==
    /\ gotFirstTrack = FALSE
    /\ commands = << >>
    /\ currentTrack = NoSong /\ nextTracks = << >>
    /\ hasMetadata = FALSE /\ isPlaying = FALSE
    /\ calls = << >>
    /\ errors = 0

-----------------------------------------------------------------------------
(***************************************************************************)
(* The class: each operation sends at most one command.                    *)
(***************************************************************************)
Send(cmd) == commands' = Append(commands, cmd)

\* enqueue, of a player that has started: the first track is played, the others
\* are queued.
Enqueue(song) == Send(IF gotFirstTrack THEN QueueURI(song) ELSE PlayURI(song))

\* play, with its guards.
Play ==
    /\ ~isPlaying
    /\ hasMetadata /\ currentTrack # NoSong /\ gotFirstTrack
    /\ Send(SetPlaying(TRUE))

Pause == isPlaying /\ Send(SetPlaying(FALSE))

\* The callback of playURI: the track is paused, and others are queued from now on.
StayFirst ==                                                        \* a mutant
    /\ Send(SetPlaying(FALSE))
    /\ UNCHANGED gotFirstTrack

FirstTrackPlayed ==
    /\ Send(SetPlaying(FALSE))
    /\ gotFirstTrack' = TRUE

-----------------------------------------------------------------------------
(***************************************************************************)
(* The controller.                                                         *)
(***************************************************************************)
Tell(cs) == calls' = calls \o cs

\* It leaves its track, for the next one if it has one.
AdvancePlaying ==                                                   \* a mutant
    /\ currentTrack' = IF nextTracks = << >> THEN NoSong ELSE Head(nextTracks)
    /\ nextTracks' = IF nextTracks = << >> THEN << >> ELSE Tail(nextTracks)
    /\ Tell(<<Metadata(currentTrack')>>)
    /\ UNCHANGED <<hasMetadata, isPlaying>>

Advance ==
    /\ currentTrack' = IF nextTracks = << >> THEN NoSong ELSE Head(nextTracks)
    /\ nextTracks' = IF nextTracks = << >> THEN << >> ELSE Tail(nextTracks)
    /\ isPlaying' = (isPlaying /\ nextTracks # << >>)
    /\ Tell(<<Metadata(currentTrack')>>)
    /\ UNCHANGED hasMetadata

\* A track replaces all that the controller has, and starts.
Replace(track) ==
    /\ currentTrack' = track
    /\ nextTracks' = << >>
    /\ hasMetadata' = TRUE /\ isPlaying' = TRUE
    /\ \/ Tell(<<Metadata(track), Played>>)
       \/ Tell(<<Played, Metadata(track)>>)

\* A track follows the others; without any, it is loaded.
FollowNext(track) ==                                                \* a mutant
    /\ IF currentTrack = NoSong
       THEN currentTrack' = track /\ UNCHANGED nextTracks
       ELSE nextTracks' = <<track>> \o nextTracks /\ UNCHANGED currentTrack
    /\ Tell(<<Metadata(currentTrack')>>)
    /\ UNCHANGED <<hasMetadata, isPlaying>>

Follow(track) ==
    /\ IF currentTrack = NoSong
       THEN currentTrack' = track /\ UNCHANGED nextTracks
       ELSE nextTracks' = Append(nextTracks, track) /\ UNCHANGED currentTrack
    /\ Tell(<<Metadata(currentTrack')>>)
    /\ UNCHANGED <<hasMetadata, isPlaying>>

Perform(cmd) ==
    \/ cmd.do = "playURI" /\ Replace(cmd.track)
    \/ cmd.do = "queueURI" /\ Follow(cmd.track)
    \/ cmd.do = "skipNext" /\ Advance
    \/ /\ cmd.do = "setPlaying"
       /\ isPlaying' = (cmd.on /\ currentTrack # NoSong)
       /\ UNCHANGED <<currentTrack, nextTracks, hasMetadata, calls>>

\* The controller receives the oldest command.
Receive ==
    /\ commands # << >>
    /\ Perform(Head(commands))
    /\ commands' = Tail(commands)
    /\ UNCHANGED <<gotFirstTrack, errors>>

\* It answers that it cannot play a track, which the app shows, and no more.
Fail ==
    /\ commands # << >> /\ errors < MaxErrors
    /\ Head(commands).do \in {"playURI", "queueURI"}
    /\ errors' = errors + 1
    /\ commands' = Tail(commands)
    /\ UNCHANGED <<gotFirstTrack, controllerVars, calls>>

\* A track ends by itself.
TrackEnds ==
    /\ isPlaying
    /\ Advance
    /\ UNCHANGED <<gotFirstTrack, commands, errors>>

-----------------------------------------------------------------------------
SpotifyTypeOK ==
    /\ gotFirstTrack \in BOOLEAN
    /\ commands \in Seq(Command)
    /\ currentTrack \in MaybeSongs /\ nextTracks \in Seq(Songs)
    /\ hasMetadata \in BOOLEAN /\ isPlaying \in BOOLEAN
    /\ calls \in Seq(Call)
    /\ errors \in 0..MaxErrors
    /\ isPlaying \/ nextTracks # << >> => currentTrack # NoSong

=============================================================================

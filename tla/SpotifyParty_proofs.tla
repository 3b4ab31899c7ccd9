------------------------- MODULE SpotifyParty_proofs -------------------------
(***************************************************************************)
(* What is proved of the host of a Spotify party: the types in every       *)
(* behaviour and, in a paced party with one validated session, that the    *)
(* count of didFinish is the slot of the song shown, that the controller   *)
(* has what is shown when it has refused nothing, and that the player is a *)
(* jukebox.                                                                *)
(***************************************************************************)
EXTENDS SpotifyParty, FiniteSetTheorems, SequenceTheorems, TLAPS

LEMMA PartyTypeInit == Init => PartyTypeOK
<1>. SUFFICES ASSUME Init PROVE PartyTypeOK
  OBVIOUS
<1>1. SpotifyTypeOK
  <2>1. 0 \in 0..MaxErrors /\ << >> \in Seq(Songs) /\ << >> \in Seq(Command) /\ << >> \in Seq(Call)
    BY SpotifyAssumption
  <2>. QED BY <2>1 DEF Init, SpotifyInit, SpotifyTypeOK, MaybeSongs
<1>2. 0 \in 0..MaxValidations /\ 0 \in 0..0 /\ 0 \in Nat /\ << >> \in Seq(Songs)
  BY PartyAssumption
<1>. QED BY <1>1, <1>2 DEF Init, PartyTypeOK, MaybeSongs

\* What the player is, when nothing of it changes.
LEMMA SpotifyRests ==
  ASSUME SpotifyTypeOK, UNCHANGED spotifyVars
  PROVE  SpotifyTypeOK'
<1>1. /\ gotFirstTrack' = gotFirstTrack /\ commands' = commands /\ calls' = calls
      /\ currentTrack' = currentTrack /\ nextTracks' = nextTracks
      /\ hasMetadata' = hasMetadata /\ isPlaying' = isPlaying /\ errors' = errors
  BY DEF spotifyVars, controllerVars
<1>. QED BY <1>1 DEF SpotifyTypeOK

\* A command is sent.
LEMMA SendType ==
  ASSUME commands \in Seq(Command)
  PROVE  /\ \A song \in Songs : QueueURI(song) \in Command /\ PlayURI(song) \in Command
         /\ \A on \in BOOLEAN : SetPlaying(on) \in Command
         /\ SkipNext \in Command
         /\ \A cmd \in Command : Send(cmd) => commands' \in Seq(Command)
<1>1. /\ \A song \in Songs : QueueURI(song) \in Command /\ PlayURI(song) \in Command
      /\ \A on \in BOOLEAN : SetPlaying(on) \in Command
      /\ SkipNext \in Command
  BY DEF Command, QueueURI, PlayURI, SetPlaying, SkipNext
<1>2. ASSUME NEW cmd \in Command, Send(cmd) PROVE commands' \in Seq(Command)
  BY <1>2 DEF Send
<1>. QED BY <1>1, <1>2

LEMMA FinishType ==
  ASSUME PartyTypeOK, FinishShown
  PROVE  /\ currentSong' \in MaybeSongs /\ songQueue' \in Seq(Songs)
         /\ songsPlayed' \in Nat
<1>1. songQueue # << >> => Head(songQueue) \in Songs /\ Tail(songQueue) \in Seq(Songs)
  BY DEF PartyTypeOK
<1>. QED BY <1>1 DEF PartyTypeOK, FinishShown, MaybeSongs

\* The controller tells of its track, and of what it was asked.
LEMMA TellType ==
  ASSUME calls \in Seq(Call)
  PROVE  /\ \A track \in MaybeSongs : Metadata(track) \in Call
         /\ Played \in Call
         /\ \A x \in Call : Tell(<<x>>) => calls' \in Seq(Call)
         /\ \A x, y \in Call : Tell(<<x, y>>) => calls' \in Seq(Call)
<1>1. Played \in Call /\ \A track \in MaybeSongs : Metadata(track) \in Call
  BY DEF Call, Metadata, Played
<1>2. ASSUME NEW x \in Call, Tell(<<x>>) PROVE calls' \in Seq(Call)
  BY <1>2 DEF Tell
<1>3. ASSUME NEW x \in Call, NEW y \in Call, Tell(<<x, y>>) PROVE calls' \in Seq(Call)
  BY <1>3 DEF Tell
<1>. QED BY <1>1, <1>2, <1>3

LEMMA AdvanceType ==
  ASSUME SpotifyTypeOK, Advance
  PROVE  /\ currentTrack' \in MaybeSongs /\ nextTracks' \in Seq(Songs)
         /\ hasMetadata' \in BOOLEAN /\ isPlaying' \in BOOLEAN /\ calls' \in Seq(Call)
         /\ isPlaying' \/ nextTracks' # << >> => currentTrack' # NoSong
<1>1. nextTracks # << >> => Head(nextTracks) \in Songs /\ Tail(nextTracks) \in Seq(Songs)
  BY DEF SpotifyTypeOK
<1>2. currentTrack' \in MaybeSongs
  BY <1>1 DEF Advance, MaybeSongs
<1>3. calls' \in Seq(Call)
  BY <1>2, TellType DEF Advance, SpotifyTypeOK
<1>. QED BY <1>1, <1>2, <1>3, SpotifyAssumption DEF Advance, SpotifyTypeOK

LEMMA ReceiveType ==
  ASSUME SpotifyTypeOK, Receive
  PROVE  SpotifyTypeOK'
<1>. DEFINE cmd == Head(commands)
<1>1. cmd \in Command /\ commands' \in Seq(Command)
  BY DEF Receive, SpotifyTypeOK
<1>2. CASE cmd.do = "playURI" /\ Replace(cmd.track)
  <2>1. cmd.track \in Songs
    BY <1>1, <1>2 DEF Command
  <2>2. calls' \in Seq(Call)
    BY <1>2, <2>1, TellType DEF Replace, SpotifyTypeOK, MaybeSongs
  <2>. QED BY <1>1, <1>2, <2>1, <2>2, SpotifyAssumption DEF Receive, Replace, SpotifyTypeOK, MaybeSongs
<1>3. CASE cmd.do = "queueURI" /\ Follow(cmd.track)
  <2>1. cmd.track \in Songs
    BY <1>1, <1>3 DEF Command
  <2>2. currentTrack' \in MaybeSongs /\ nextTracks' \in Seq(Songs)
    <3>1. Append(nextTracks, cmd.track) \in Seq(Songs) /\ nextTracks \in Seq(Songs)
      BY <2>1 DEF SpotifyTypeOK
    <3>. HIDE DEF cmd
    <3>. QED BY <1>3, <2>1, <3>1 DEF Follow, SpotifyTypeOK, MaybeSongs
  <2>3. calls' \in Seq(Call)
    BY <1>3, <2>2, TellType DEF Follow, SpotifyTypeOK
  <2>4. currentTrack' # NoSong
    BY <1>3, <2>1, SpotifyAssumption DEF Follow
  <2>. QED BY <1>1, <1>3, <2>2, <2>3, <2>4 DEF Receive, Follow, SpotifyTypeOK
<1>4. CASE cmd.do = "skipNext" /\ Advance
  BY <1>1, <1>4, AdvanceType DEF Receive, SpotifyTypeOK
<1>5. CASE /\ cmd.do = "setPlaying"
           /\ isPlaying' = (cmd.on /\ currentTrack # NoSong)
           /\ UNCHANGED <<currentTrack, nextTracks, hasMetadata, calls>>
  <2>1. isPlaying' \in BOOLEAN /\ (isPlaying' => currentTrack # NoSong)
    BY <1>5
  <2>. QED BY <1>1, <1>5, <2>1 DEF Receive, SpotifyTypeOK
<1>. QED BY <1>2, <1>3, <1>4, <1>5 DEF Receive, Perform

LEMMA ControllerType ==
  ASSUME PartyTypeOK, Controller
  PROVE  PartyTypeOK'
<1>1. SpotifyTypeOK
  BY DEF PartyTypeOK
<1>2. ASSUME Receive PROVE SpotifyTypeOK'
  BY <1>1, <1>2, ReceiveType
<1>3. ASSUME Fail PROVE SpotifyTypeOK'
  <2>1. commands' \in Seq(Command)
    BY <1>1, <1>3 DEF Fail, SpotifyTypeOK
  <2>2. errors' \in 0..MaxErrors
    BY <1>1, <1>3, SpotifyAssumption DEF Fail, SpotifyTypeOK
  <2>3. /\ gotFirstTrack' = gotFirstTrack /\ calls' = calls
        /\ currentTrack' = currentTrack /\ nextTracks' = nextTracks
        /\ hasMetadata' = hasMetadata /\ isPlaying' = isPlaying
    BY <1>3 DEF Fail, controllerVars
  <2>. QED BY <1>1, <2>1, <2>2, <2>3 DEF SpotifyTypeOK
<1>4. ASSUME TrackEnds PROVE SpotifyTypeOK'
  <2>1. /\ currentTrack' \in MaybeSongs /\ nextTracks' \in Seq(Songs)
        /\ hasMetadata' \in BOOLEAN /\ isPlaying' \in BOOLEAN /\ calls' \in Seq(Call)
        /\ isPlaying' \/ nextTracks' # << >> => currentTrack' # NoSong
    BY <1>1, <1>4, AdvanceType DEF TrackEnds
  <2>2. /\ gotFirstTrack' = gotFirstTrack /\ commands' = commands /\ errors' = errors
    BY <1>4 DEF TrackEnds
  <2>. QED BY <1>1, <2>1, <2>2 DEF SpotifyTypeOK
<1>5. SpotifyTypeOK'
  BY <1>2, <1>3, <1>4 DEF Controller
<1>6. UNCHANGED <<validations, unanswered, subscribing, observers, currentSong, songQueue,
                  songsPlayed, queue, children>>
  BY DEF Controller, sessionVars, viewVars
<1>. QED BY <1>5, <1>6 DEF PartyTypeOK

LEMMA SessionType ==
  ASSUME PartyTypeOK, ValidateSession \/ StartPlayer \/ SubscribeToUpdates
  PROVE  PartyTypeOK'
<1>1. SpotifyTypeOK'
  <2>1. UNCHANGED spotifyVars
    BY DEF ValidateSession, StartPlayer, SubscribeToUpdates
  <2>. QED BY <2>1, SpotifyRests DEF PartyTypeOK
<1>2. UNCHANGED <<currentSong, songQueue, songsPlayed, queue>>
  BY DEF ValidateSession, StartPlayer, SubscribeToUpdates, viewVars
<1>3. /\ validations' \in 0..MaxValidations /\ unanswered' \in 0..validations'
      /\ subscribing' \in Nat /\ observers' \in Nat
  BY PartyAssumption DEF PartyTypeOK, ValidateSession, StartPlayer, SubscribeToUpdates
<1>4. children' \in Seq(Songs)
  <2>1. children' = children \/ children' = children \o queue
    BY DEF ValidateSession, StartPlayer, SubscribeToUpdates
  <2>2. children \in Seq(Songs) /\ queue \in Seq(Songs)
    BY DEF PartyTypeOK
  <2>3. children \o queue \in Seq(Songs)
    BY <2>2
  <2>. QED BY <2>1, <2>2, <2>3
<1>. QED BY <1>1, <1>2, <1>3, <1>4 DEF PartyTypeOK

LEMMA SongIsAddedType ==
  ASSUME PartyTypeOK, NEW song \in Songs, SongIsAdded(song)
  PROVE  PartyTypeOK'
<1>1. SpotifyTypeOK'
  BY SpotifyRests DEF PartyTypeOK, SongIsAdded
<1>2. [k \in 1..observers |-> song] \in Seq(Songs)
  BY DEF PartyTypeOK
<1>3. children' \in Seq(Songs) /\ queue' \in Seq(Songs)
  BY <1>2 DEF PartyTypeOK, SongIsAdded
<1>. QED BY <1>1, <1>3 DEF PartyTypeOK, SongIsAdded, sessionVars, viewVars

LEMMA DidAddSongType ==
  ASSUME PartyTypeOK, DidAddSong
  PROVE  PartyTypeOK'
<1>1. Head(children) \in Songs /\ children' \in Seq(Songs)
  BY DEF PartyTypeOK, DidAddSong
<1>2. commands' \in Seq(Command)
  BY <1>1, SendType DEF DidAddSong, Enqueue, PartyTypeOK, SpotifyTypeOK
<1>3. currentSong' \in MaybeSongs /\ songQueue' \in Seq(Songs)
  <2>. DEFINE song == Head(children)
  <2>1. song \in Songs /\ ShowAdded(song) /\ Append(songQueue, song) \in Seq(Songs)
    BY <1>1 DEF PartyTypeOK, DidAddSong
  <2>. HIDE DEF song
  <2>. QED BY <2>1 DEF PartyTypeOK, ShowAdded, MaybeSongs
<1>. QED BY <1>1, <1>2, <1>3 DEF DidAddSong, PartyTypeOK, SpotifyTypeOK, controllerVars, sessionVars

LEMMA HandleCallType ==
  ASSUME PartyTypeOK, HandleCall
  PROVE  PartyTypeOK'
<1>1. calls' \in Seq(Call)
  BY DEF HandleCall, PartyTypeOK, SpotifyTypeOK
<1>2. CASE FirstTrackPlayed /\ UNCHANGED viewVars
  <2>1. commands' \in Seq(Command)
    BY <1>2, SendType DEF FirstTrackPlayed, PartyTypeOK, SpotifyTypeOK
  <2>. QED BY <1>1, <1>2, <2>1
           DEF HandleCall, FirstTrackPlayed, PartyTypeOK, SpotifyTypeOK, controllerVars,
               sessionVars, viewVars
<1>3. CASE PlayerDidStartPlaying(Head(calls).track) /\ UNCHANGED commands
  <2>1. gotFirstTrack' \in BOOLEAN
    BY <1>3 DEF PlayerDidStartPlaying, ClearAfterLast, PartyTypeOK, SpotifyTypeOK
  <2>2. /\ currentSong' \in MaybeSongs /\ songQueue' \in Seq(Songs)
        /\ songsPlayed' \in Nat
    BY <1>3, FinishType DEF PlayerDidStartPlaying, viewVars, PartyTypeOK
  <2>. QED BY <1>1, <1>3, <2>1, <2>2
           DEF HandleCall, PartyTypeOK, SpotifyTypeOK, controllerVars, sessionVars
<1>. QED BY <1>2, <1>3 DEF HandleCall

LEMMA TapType ==
  ASSUME PartyTypeOK, TapPlayPause \/ TapNext
  PROVE  PartyTypeOK'
<1>1. commands' \in Seq(Command)
  BY SendType DEF TapPlayPause, Play, Pause, TapNext, PartyTypeOK, SpotifyTypeOK
<1>2. gotFirstTrack' \in BOOLEAN
  BY DEF TapPlayPause, TapNext, PartyTypeOK, SpotifyTypeOK
<1>3. /\ currentSong' \in MaybeSongs /\ songQueue' \in Seq(Songs)
      /\ songsPlayed' \in Nat
  BY FinishType DEF TapPlayPause, TapNext, viewVars, PartyTypeOK
<1>4. /\ calls' = calls /\ currentTrack' = currentTrack /\ nextTracks' = nextTracks
      /\ hasMetadata' = hasMetadata /\ isPlaying' = isPlaying /\ errors' = errors
  BY DEF TapPlayPause, TapNext, controllerVars
<1>5. UNCHANGED <<validations, unanswered, subscribing, observers, queue, children>>
  BY DEF TapPlayPause, TapNext, sessionVars
<1>6. SpotifyTypeOK'
  BY <1>1, <1>2, <1>4 DEF PartyTypeOK, SpotifyTypeOK
<1>. QED BY <1>3, <1>5, <1>6 DEF PartyTypeOK

LEMMA PartyTypeStep == PartyTypeOK /\ [Next]_partyVars => PartyTypeOK'
<1>1. CASE UNCHANGED partyVars
  BY <1>1 DEF partyVars, spotifyVars, controllerVars, sessionVars, viewVars, PartyTypeOK,
              SpotifyTypeOK
<1>. QED BY <1>1, ControllerType, SessionType, SongIsAddedType, DidAddSongType,
            HandleCallType, TapType DEF Next, Subscription, Callback, Added

-----------------------------------------------------------------------------
(***************************************************************************)
(* Why the three hold of one session, with songs that wait for the         *)
(* controller.  The queue is subscribed to once; one song is on its way to *)
(* the controller at a time, and it is the last one shown.                 *)
(***************************************************************************)
IsHeardOnce ==
    /\ unanswered + subscribing + observers <= validations
    /\ observers = 0 => queue = << >> /\ children = << >>
    /\ currentSong = NoSong => songQueue = << >>
    /\ songsPlayed + Len(Shown) + Len(children) = Len(queue)
    /\ Shown \o children = SubSeq(queue, songsPlayed + 1, Len(queue))
    /\ \A k \in 1..(Len(queue) - 1) : queue[k] # queue[k + 1]

OneOnItsWay ==
    /\ Len(children) <= 1
    /\ children # << >> => TrackCommands = {}
    /\ \A i, j \in TrackCommands : i = j
    /\ children # << >> \/ TrackCommands # {} =>
           /\ Played \notin ToSet(calls)
           /\ \A i \in DOMAIN commands : commands[i] # SkipNext
    /\ \A i \in TrackCommands : Shown # << >> /\ commands[i].track = Last(Shown)

(***************************************************************************)
(* A player that has to start has nothing to play, and makes no sound once *)
(* the pause that next sends is received.                                  *)
(***************************************************************************)
StartsSilent ==
    IF Counted
    THEN \A i \in DOMAIN commands : commands[i].do # "playURI"
    ELSE /\ nextTracks = << >>
         /\ \A i \in DOMAIN calls : calls[i] = Metadata(NoSong)
         /\ \A i \in DOMAIN commands : commands[i].do # "queueURI"
         /\ currentTrack # NoSong =>
                \A i \in DOMAIN commands :
                    commands[i] = SetPlaying(FALSE) \/ commands[i].do = "playURI"
         /\ isPlaying => commands # << >>
         /\ children # << >> \/ TrackCommands # {} => calls = << >> /\ ~isPlaying

(***************************************************************************)
(* Each track the controller tells of, or has, has its place among the     *)
(* songs shown, in the same order, and before the song on its way to it.   *)
(* A change to no track has the place of the track that ended.  at is the  *)
(* places of the calls, pos those of the tracks.                           *)
(***************************************************************************)
Tracks == (IF currentTrack = NoSong THEN << >> ELSE <<currentTrack>>) \o nextTracks
NoTrack == Metadata(NoSong)

InPlace(n, told, m, have, l, shown, at, pos) ==
    /\ \A i, j \in 1..n : i < j => at[i] <= at[j] /\ (told[i] = NoTrack => at[i] < at[j])
    /\ \A i \in 1..n : \A song \in Songs : told[i] = Metadata(song) =>
           at[i] <= l /\ shown[at[i]] = song
    /\ \A k \in 1..m : pos[k] <= l /\ shown[pos[k]] = have[k]
    /\ \A j, k \in 1..m : j < k => pos[j] < pos[k]
    /\ \A i \in 1..n : \A k \in 1..m :
           at[i] <= pos[k] /\ (told[i] = NoTrack => at[i] < pos[k])

AllWithin(n, m, bound, at, pos) ==
    /\ \A i \in 1..n : at[i] <= bound
    /\ \A k \in 1..m : pos[k] <= bound

\* Without errors no song is between two of them, and none is left out.
NoneIsSkipped(n, told, m, l, at, pos) ==
    /\ n > 0 => /\ at[1] = 1 \/ (at[1] = 2 /\ told[1] \notin {NoTrack, Played})
                /\ told[n] = NoTrack <=> m = 0
    /\ \A i \in 1..(n - 1) :
           \/ told[i] # NoTrack /\ at[i + 1] = at[i]
           \/ at[i + 1] = at[i] + 1 /\ (told[i] = NoTrack \/ told[i + 1] \notin {NoTrack, Played})
    /\ m > 0 => /\ pos[1] = IF n = 0 THEN 1 ELSE at[n]
                /\ \A k \in 1..m : pos[k] + 1 = pos[1] + k
                /\ l + 1 = pos[1] + m
    /\ m = 0 => l <= IF n = 0 THEN 0 ELSE at[n]

Places(n, told, m, have, l, shown, coming, sent, exact, at, pos) ==
    /\ InPlace(n, told, m, have, l, shown, at, pos)
    /\ coming => AllWithin(n, m, l, at, pos)
    /\ sent => AllWithin(n, m, l - 1, at, pos)
    /\ exact => NoneIsSkipped(n, told, m, IF sent THEN l - 1 ELSE l, at, pos)

HavePlaces(n, told, m, have, l, shown, coming, sent, exact) ==
    \E at \in [1..n -> Nat \ {0}], pos \in [1..m -> Nat \ {0}] :
        Places(n, told, m, have, l, shown, coming, sent, exact, at, pos)

ArePlaced(told, have, shown, coming, sent, exact) ==
    HavePlaces(Len(told), told, Len(have), have, Len(shown), shown, coming, sent, exact)

TracksArePlaced ==
    /\ \A i, j \in DOMAIN calls : i < j /\ calls[j] = Played => calls[i] # NoTrack
    /\ IF Counted
       THEN /\ Shown # << >>
            /\ ArePlaced(calls, Tracks, Shown, children # << >>, TrackCommands # {}, errors = 0)
       ELSE errors = 0 => Len(Shown) = IF TrackCommands = {} THEN 0 ELSE 1

-----------------------------------------------------------------------------
(***************************************************************************)
(* What becomes of the places in a step.                                   *)
(***************************************************************************)
LEMMA CallsDiffer ==
  /\ NoTrack # Played /\ NoTrack \in Call /\ Played \in Call
  /\ \A song \in Songs : /\ Metadata(song) \in Call
                         /\ Metadata(song) # NoTrack /\ Metadata(song) # Played
  /\ \A song \in Songs : \A other \in Songs : Metadata(song) = Metadata(other) => song = other
  /\ \A call \in Call : call \in {NoTrack, Played} \/ \E song \in Songs : call = Metadata(song)
BY SpotifyAssumption DEF NoTrack, Played, Metadata, Call, MaybeSongs

\* The first track is played: both calls are in its place.
LEMMA PlaceStart ==
  ASSUME NEW l \in Nat \ {0}, NEW shown, shown[l] \in Songs,
         NEW told, \A i \in 1..2 : told[i] \in {Metadata(shown[l]), Played},
         NEW have, have[1] = shown[l], NEW exact \in BOOLEAN, exact => l = 1
  PROVE  HavePlaces(2, told, 1, have, l, shown, FALSE, FALSE, exact)
<1>. DEFINE at == [i \in 1..2 |-> l]
            pos == [k \in 1..1 |-> l]
<1>1. at \in [1..2 -> Nat \ {0}] /\ pos \in [1..1 -> Nat \ {0}]
  OBVIOUS
<1>2. at[1] = l /\ at[2] = l /\ pos[1] = l
  OBVIOUS
<1>. HIDE DEF at, pos
<1>3. told[1] # NoTrack /\ told[2] # NoTrack
  BY CallsDiffer
<1>4. InPlace(2, told, 1, have, l, shown, at, pos)
  <2>1. \A i \in 1..2 : i = 1 \/ i = 2
    OBVIOUS
  <2>2. \A k \in 1..1 : k = 1
    OBVIOUS
  <2>3. \A i \in 1..2 : at[i] = l /\ told[i] # NoTrack /\ told[i] \in {Metadata(shown[l]), Played}
    BY <1>2, <1>3, <2>1
  <2>4. \A song \in Songs : Metadata(song) = Metadata(shown[l]) => song = shown[l]
    BY CallsDiffer
  <2>5. \A song \in Songs : Metadata(song) # Played
    BY CallsDiffer
  <2>. QED BY <1>2, <2>2, <2>3, <2>4, <2>5 DEF InPlace
<1>5. exact => NoneIsSkipped(2, told, 1, l, at, pos)
  BY <1>2, <1>3 DEF NoneIsSkipped
<1>. QED BY <1>1, <1>4, <1>5 DEF HavePlaces, Places

\* A sequence that starts with another.
Extends(n, s, t) == \A i \in 1..n : t[i] = s[i]

\* A sequence without the first of another.
Drops(n, s, t) == \A i \in 1..(n - 1) : t[i] = s[i + 1]

\* The song on its way is received, behind the tracks there are.
LEMMA PlaceFollow ==
  ASSUME NEW n \in Nat, NEW m \in Nat, NEW l \in Nat \ {0}, NEW told, NEW have, NEW shown,
         NEW exact \in BOOLEAN,
         HavePlaces(n, told, m, have, l, shown, FALSE, TRUE, exact),
         NEW told2, Extends(n, told, told2), NEW have2, Extends(m, have, have2),
         have2[m + 1] = shown[l],
         have2[1] \in Songs, told2[n + 1] = Metadata(have2[1])
  PROVE  HavePlaces(n + 1, told2, m + 1, have2, l, shown, FALSE, FALSE, exact)
<1>. USE DEF Extends
<1>1. PICK at \in [1..n -> Nat \ {0}], pos \in [1..m -> Nat \ {0}] :
        Places(n, told, m, have, l, shown, FALSE, TRUE, exact, at, pos)
  BY DEF HavePlaces
<1>2. InPlace(n, told, m, have, l, shown, at, pos) /\ AllWithin(n, m, l - 1, at, pos)
  BY <1>1 DEF Places
<1>3. exact => NoneIsSkipped(n, told, m, l - 1, at, pos)
  BY <1>1 DEF Places
<1>4. /\ \A i \in 1..n : at[i] \in Nat \ {0} /\ at[i] < l
      /\ \A k \in 1..m : pos[k] \in Nat \ {0} /\ pos[k] < l
  BY <1>1, <1>2 DEF AllWithin
<1>. DEFINE pos2 == [k \in 1..(m + 1) |-> IF k = m + 1 THEN l ELSE pos[k]]
            at2 == [i \in 1..(n + 1) |-> IF i = n + 1 THEN pos2[1] ELSE at[i]]
<1>5. /\ pos2 \in [1..(m + 1) -> Nat \ {0}] /\ pos2[m + 1] = l
      /\ \A k \in 1..m : pos2[k] = pos[k] /\ pos2[k] < l
      /\ pos2[1] = IF m = 0 THEN l ELSE pos[1]
  BY <1>4
<1>. HIDE DEF pos2
<1>6. /\ at2 \in [1..(n + 1) -> Nat \ {0}] /\ at2[n + 1] = pos2[1]
      /\ \A i \in 1..n : at2[i] = at[i]
  BY <1>4, <1>5
<1>. HIDE DEF at2
<1>7. \A k \in 1..(m + 1) : k \in 1..m \/ k = m + 1
  OBVIOUS
<1>8. \A i \in 1..(n + 1) : i \in 1..n \/ i = n + 1
  OBVIOUS
<1>9. told2[n + 1] # NoTrack /\ \A song \in Songs : told2[n + 1] = Metadata(song) => song = have2[1]
  BY CallsDiffer
<1>10. \A k \in 1..(m + 1) : pos2[k] \in Nat /\ pos2[k] <= l /\ shown[pos2[k]] = have2[k]
  <2>. SUFFICES ASSUME NEW k \in 1..(m + 1)
                PROVE  pos2[k] \in Nat /\ pos2[k] <= l /\ shown[pos2[k]] = have2[k]
    OBVIOUS
  <2>1. CASE k \in 1..m
    BY <1>2, <1>5, <2>1 DEF InPlace
  <2>2. CASE k = m + 1
    <3>1. pos2[k] = l /\ have2[k] = shown[l]
      BY <1>5, <2>2
    <3>. QED BY <3>1
  <2>. QED BY <1>7, <2>1, <2>2
<1>11. \A j, k \in 1..(m + 1) : j < k => pos2[j] < pos2[k]
  <2>. SUFFICES ASSUME NEW j \in 1..(m + 1), NEW k \in 1..(m + 1), j < k
                PROVE  pos2[j] < pos2[k]
    OBVIOUS
  <2>1. j \in 1..m
    OBVIOUS
  <2>2. CASE k \in 1..m
    BY <1>2, <1>5, <2>1, <2>2 DEF InPlace
  <2>3. CASE k = m + 1
    BY <1>5, <2>1, <2>3
  <2>. QED BY <1>7, <2>2, <2>3
<1>12. \A i \in 1..n : \A k \in 1..(m + 1) :
           at[i] <= pos2[k] /\ (told[i] = NoTrack => at[i] < pos2[k])
  <2>. SUFFICES ASSUME NEW i \in 1..n, NEW k \in 1..(m + 1)
                PROVE  at[i] <= pos2[k] /\ (told[i] = NoTrack => at[i] < pos2[k])
    OBVIOUS
  <2>1. CASE k \in 1..m
    BY <1>2, <1>5, <2>1 DEF InPlace
  <2>2. CASE k = m + 1
    <3>1. at[i] \in Nat /\ at[i] < l
      BY <1>4
    <3>2. pos2[k] = l
      BY <1>5, <2>2
    <3>. QED BY <3>1, <3>2
  <2>. QED BY <1>7, <2>1, <2>2
<1>13. 1 \in 1..(m + 1) /\ \A k \in 1..(m + 1) : pos2[1] <= pos2[k]
  <2>1. 1 \in 1..(m + 1)
    OBVIOUS
  <2>2. ASSUME NEW k \in 1..(m + 1) PROVE pos2[1] <= pos2[k]
    <3>1. k = 1 \/ 1 < k
      OBVIOUS
    <3>. QED BY <1>10, <1>11, <2>1, <3>1
  <2>. QED BY <2>1, <2>2
<1>14. InPlace(n + 1, told2, m + 1, have2, l, shown, at2, pos2)
  <2>1. \A i, j \in 1..(n + 1) : i < j =>
           at2[i] <= at2[j] /\ (told2[i] = NoTrack => at2[i] < at2[j])
    <3>. SUFFICES ASSUME NEW i \in 1..(n + 1), NEW j \in 1..(n + 1), i < j
                  PROVE  at2[i] <= at2[j] /\ (told2[i] = NoTrack => at2[i] < at2[j])
      OBVIOUS
    <3>1. i \in 1..n /\ at2[i] = at[i] /\ told2[i] = told[i]
      BY <1>6, <1>8
    <3>2. CASE j \in 1..n
      BY <1>2, <1>6, <3>1, <3>2 DEF InPlace
    <3>3. CASE j = n + 1
      BY <1>6, <1>12, <1>13, <3>1, <3>3
    <3>. QED BY <1>8, <3>2, <3>3
  <2>2. \A i \in 1..(n + 1) : \A song \in Songs : told2[i] = Metadata(song) =>
           at2[i] <= l /\ shown[at2[i]] = song
    <3>. SUFFICES ASSUME NEW i \in 1..(n + 1), NEW song \in Songs, told2[i] = Metadata(song)
                  PROVE  at2[i] <= l /\ shown[at2[i]] = song
      OBVIOUS
    <3>1. CASE i \in 1..n
      <4>1. told[i] = Metadata(song) /\ at2[i] = at[i]
        BY <1>6, <3>1
      <4>2. at[i] <= l /\ shown[at[i]] = song
        BY <1>2, <3>1, <4>1 DEF InPlace
      <4>. QED BY <4>1, <4>2
    <3>2. CASE i = n + 1
      <4>1. song = have2[1] /\ at2[i] = pos2[1]
        BY <1>6, <1>9, <3>2
      <4>2. pos2[1] <= l /\ shown[pos2[1]] = have2[1]
        BY <1>10, <1>13
      <4>3. at2[i] <= l
        BY <4>1, <4>2
      <4>4. shown[at2[i]] = song
        BY <4>1, <4>2
      <4>. QED BY <4>3, <4>4
    <3>. QED BY <1>8, <3>1, <3>2
  <2>3. \A i \in 1..(n + 1) : \A k \in 1..(m + 1) :
           at2[i] <= pos2[k] /\ (told2[i] = NoTrack => at2[i] < pos2[k])
    BY <1>6, <1>8, <1>9, <1>12, <1>13
  <2>. QED BY <1>10, <1>11, <2>1, <2>2, <2>3 DEF InPlace
<1>15. ASSUME exact PROVE NoneIsSkipped(n + 1, told2, m + 1, l, at2, pos2)
  <2>1. NoneIsSkipped(n, told, m, l - 1, at, pos)
    BY <1>3, <1>15
  <2>2. m > 0 => pos[1] = (IF n = 0 THEN 1 ELSE at[n]) /\ l = pos[1] + m
    <3>1. m > 0 => pos[1] = (IF n = 0 THEN 1 ELSE at[n]) /\ l - 1 + 1 = pos[1] + m
      BY <2>1 DEF NoneIsSkipped
    <3>. QED BY <3>1
  <2>3. m = 0 => l = (IF n = 0 THEN 1 ELSE at[n] + 1)
    <3>1. m = 0 => l - 1 <= (IF n = 0 THEN 0 ELSE at[n])
      BY <2>1 DEF NoneIsSkipped
    <3>. QED BY <1>4, <3>1
  <2>4. \A k \in 1..(m + 1) : pos2[k] + 1 = pos2[1] + k
    <3>1. \A k \in 1..m : pos[k] + 1 = pos[1] + k
      BY <2>1 DEF NoneIsSkipped
    <3>2. CASE m = 0
      <4>1. \A k \in 1..(m + 1) : k = 1
        BY <3>2
      <4>. QED BY <1>10, <1>13, <4>1
    <3>3. CASE m > 0
      <4>1. 1 \in 1..m /\ pos[1] \in Nat /\ pos2[1] = pos[1]
        BY <1>4, <1>5, <3>3
      <4>2. l + 1 = pos2[1] + (m + 1)
        BY <2>2, <3>3, <4>1
      <4>3. ASSUME NEW k \in 1..m PROVE pos2[k] + 1 = pos2[1] + k
        BY <1>5, <3>1, <4>1
      <4>. QED BY <1>5, <1>7, <4>2, <4>3
    <3>. QED BY <3>2, <3>3
  <2>5. at2[1] = 1 \/ (at2[1] = 2 /\ told2[1] \notin {NoTrack, Played})
    <3>1. CASE n = 0
      BY <1>5, <1>6, <2>2, <2>3, <3>1
    <3>2. CASE n > 0
      BY <1>6, <2>1, <3>2 DEF NoneIsSkipped
    <3>. QED BY <3>1, <3>2
  <2>6. \A i \in 1..n :
           \/ told2[i] # NoTrack /\ at2[i + 1] = at2[i]
           \/ /\ at2[i + 1] = at2[i] + 1
              /\ told2[i] = NoTrack \/ told2[i + 1] \notin {NoTrack, Played}
    <3>. SUFFICES ASSUME NEW i \in 1..n
                  PROVE  \/ told2[i] # NoTrack /\ at2[i + 1] = at2[i]
                         \/ /\ at2[i + 1] = at2[i] + 1
                            /\ told2[i] = NoTrack \/ told2[i + 1] \notin {NoTrack, Played}
      OBVIOUS
    <3>1. CASE i \in 1..(n - 1)
      <4>1. i + 1 \in 1..n
        BY <3>1
      <4>. QED BY <1>6, <2>1, <3>1, <4>1 DEF NoneIsSkipped
    <3>2. CASE i = n
      <4>1. n > 0 /\ n \in 1..n /\ (told[n] = NoTrack <=> m = 0)
        BY <2>1, <3>2 DEF NoneIsSkipped
      <4>. QED BY <1>5, <1>6, <2>2, <2>3, <3>2, <4>1
    <3>. QED BY <3>1, <3>2
  <2>7. pos2[1] = at2[n + 1] /\ l + 1 = pos2[1] + (m + 1)
    <3>1. CASE m = 0
      BY <1>5, <1>6, <3>1
    <3>2. CASE m > 0
      <4>1. 1 \in 1..m /\ pos[1] \in Nat /\ pos2[1] = pos[1]
        BY <1>4, <1>5, <3>2
      <4>. QED BY <1>6, <2>2, <3>2, <4>1
    <3>. QED BY <3>1, <3>2
  <2>. QED BY <1>9, <2>4, <2>5, <2>6, <2>7 DEF NoneIsSkipped
<1>. QED BY <1>5, <1>6, <1>14, <1>15 DEF HavePlaces, Places

\* The controller leaves a track, for the next one or for none.
LEMMA PlaceAdvance ==
  ASSUME NEW n \in Nat, NEW m \in Nat \ {0}, NEW l \in Nat \ {0}, NEW told, NEW have, NEW shown,
         NEW coming \in BOOLEAN, NEW sent \in BOOLEAN, NEW exact \in BOOLEAN,
         HavePlaces(n, told, m, have, l, shown, coming, sent, exact),
         NEW told2, \A i \in 1..n : told2[i] = told[i],
         NEW have2, \A k \in 1..(m - 1) : have2[k] = have[k + 1],
         m = 1 => told2[n + 1] = NoTrack,
         m > 1 => have[2] \in Songs /\ told2[n + 1] = Metadata(have[2])
  PROVE  HavePlaces(n + 1, told2, m - 1, have2, l, shown, coming, sent, exact)
<1>1. PICK at \in [1..n -> Nat \ {0}], pos \in [1..m -> Nat \ {0}] :
        Places(n, told, m, have, l, shown, coming, sent, exact, at, pos)
  BY DEF HavePlaces
<1>2. InPlace(n, told, m, have, l, shown, at, pos)
  BY <1>1 DEF Places
<1>3. /\ \A i \in 1..n : at[i] \in Nat \ {0}
      /\ \A k \in 1..m : pos[k] \in Nat \ {0}
  BY <1>1
<1>. DEFINE pos2 == [k \in 1..(m - 1) |-> pos[k + 1]]
            last == IF m = 1 THEN pos[1] ELSE pos[2]
            at2 == [i \in 1..(n + 1) |-> IF i = n + 1 THEN last ELSE at[i]]
<1>4. /\ last \in Nat \ {0} /\ pos[1] <= last /\ last <= l
      /\ m > 1 => last = pos[2] /\ shown[last] = have[2] /\ last > pos[1]
      /\ m = 1 => last = pos[1]
  <2>1. 1 \in 1..m /\ (m > 1 => 2 \in 1..m)
    OBVIOUS
  <2>2. pos[1] \in Nat \ {0} /\ pos[1] <= l
    BY <1>2, <1>3, <2>1 DEF InPlace
  <2>3. m > 1 => /\ pos[2] \in Nat \ {0} /\ pos[2] <= l /\ shown[pos[2]] = have[2]
                 /\ pos[1] < pos[2]
    BY <1>2, <1>3, <2>1 DEF InPlace
  <2>. QED BY <2>2, <2>3
<1>. HIDE DEF last
<1>5. /\ at2 \in [1..(n + 1) -> Nat \ {0}] /\ at2[n + 1] = last
      /\ \A i \in 1..n : at2[i] = at[i]
  BY <1>3, <1>4
<1>6. pos2 \in [1..(m - 1) -> Nat \ {0}] /\ \A k \in 1..(m - 1) : pos2[k] = pos[k + 1]
  BY <1>3
<1>. HIDE DEF at2, pos2
<1>7. /\ \A i \in 1..(n + 1) : i \in 1..n \/ i = n + 1
      /\ \A k \in 1..(m - 1) : k + 1 \in 1..m /\ m > 1
  OBVIOUS
<1>8. /\ m = 1 => \A song \in Songs : told2[n + 1] # Metadata(song)
      /\ m > 1 => /\ told2[n + 1] \notin {NoTrack, Played}
                  /\ \A song \in Songs : told2[n + 1] = Metadata(song) => song = have[2]
  BY CallsDiffer
<1>9. \A i \in 1..n : at[i] <= last /\ (told[i] = NoTrack => at[i] < last)
  <2>. SUFFICES ASSUME NEW i \in 1..n
                PROVE  at[i] <= last /\ (told[i] = NoTrack => at[i] < last)
    OBVIOUS
  <2>1. 1 \in 1..m
    OBVIOUS
  <2>2. at[i] <= pos[1] /\ (told[i] = NoTrack => at[i] < pos[1])
    BY <1>2, <2>1 DEF InPlace
  <2>3. at[i] \in Nat /\ pos[1] \in Nat
    BY <1>3, <2>1
  <2>. QED BY <1>4, <2>2, <2>3
<1>10. \A k \in 1..(m - 1) : last <= pos2[k]
  <2>. SUFFICES ASSUME NEW k \in 1..(m - 1) PROVE last <= pos2[k]
    OBVIOUS
  <2>1. k + 1 \in 1..m /\ 2 \in 1..m /\ (k + 1 = 2 \/ 2 < k + 1) /\ m > 1
    OBVIOUS
  <2>2. k + 1 = 2 \/ pos[2] < pos[k + 1]
    BY <1>2, <2>1 DEF InPlace
  <2>3. pos[2] \in Nat /\ pos[k + 1] \in Nat
    BY <1>3, <2>1
  <2>. QED BY <1>4, <1>6, <2>1, <2>2, <2>3
<1>11. InPlace(n + 1, told2, m - 1, have2, l, shown, at2, pos2)
  <2>1. \A i, j \in 1..(n + 1) : i < j =>
           at2[i] <= at2[j] /\ (told2[i] = NoTrack => at2[i] < at2[j])
    <3>. SUFFICES ASSUME NEW i \in 1..(n + 1), NEW j \in 1..(n + 1), i < j
                  PROVE  at2[i] <= at2[j] /\ (told2[i] = NoTrack => at2[i] < at2[j])
      OBVIOUS
    <3>1. i \in 1..n /\ at2[i] = at[i] /\ told2[i] = told[i]
      BY <1>5, <1>7
    <3>2. CASE j \in 1..n
      BY <1>2, <1>5, <3>1, <3>2 DEF InPlace
    <3>3. CASE j = n + 1
      BY <1>5, <1>9, <3>1, <3>3
    <3>. QED BY <1>7, <3>2, <3>3
  <2>2. \A i \in 1..(n + 1) : \A song \in Songs : told2[i] = Metadata(song) =>
           at2[i] <= l /\ shown[at2[i]] = song
    <3>. SUFFICES ASSUME NEW i \in 1..(n + 1), NEW song \in Songs, told2[i] = Metadata(song)
                  PROVE  at2[i] <= l /\ shown[at2[i]] = song
      OBVIOUS
    <3>1. CASE i \in 1..n
      <4>1. told[i] = Metadata(song) /\ at2[i] = at[i]
        BY <1>5, <3>1
      <4>2. at[i] <= l /\ shown[at[i]] = song
        BY <1>2, <3>1, <4>1 DEF InPlace
      <4>. QED BY <4>1, <4>2
    <3>2. CASE i = n + 1
      <4>1. m > 1 /\ song = have[2] /\ at2[i] = last
        BY <1>5, <1>8, <3>2
      <4>. QED BY <1>4, <4>1
    <3>. QED BY <1>7, <3>1, <3>2
  <2>3. \A k \in 1..(m - 1) : pos2[k] <= l /\ shown[pos2[k]] = have2[k]
    BY <1>2, <1>6, <1>7 DEF InPlace
  <2>4. \A j, k \in 1..(m - 1) : j < k => pos2[j] < pos2[k]
    <3>. SUFFICES ASSUME NEW j \in 1..(m - 1), NEW k \in 1..(m - 1), j < k
                  PROVE  pos2[j] < pos2[k]
      OBVIOUS
    <3>1. j + 1 \in 1..m /\ k + 1 \in 1..m /\ j + 1 < k + 1
      OBVIOUS
    <3>. QED BY <1>2, <1>6, <3>1 DEF InPlace
  <2>5. \A i \in 1..(n + 1) : \A k \in 1..(m - 1) :
           at2[i] <= pos2[k] /\ (told2[i] = NoTrack => at2[i] < pos2[k])
    <3>. SUFFICES ASSUME NEW i \in 1..(n + 1), NEW k \in 1..(m - 1)
                  PROVE  at2[i] <= pos2[k] /\ (told2[i] = NoTrack => at2[i] < pos2[k])
      OBVIOUS
    <3>1. CASE i \in 1..n
      BY <1>2, <1>5, <1>6, <1>7, <3>1 DEF InPlace
    <3>2. CASE i = n + 1
      BY <1>5, <1>7, <1>8, <1>10, <3>2
    <3>. QED BY <1>7, <3>1, <3>2
  <2>. QED BY <2>1, <2>2, <2>3, <2>4, <2>5 DEF InPlace
<1>12. ASSUME NEW bound \in Int, AllWithin(n, m, bound, at, pos)
       PROVE  AllWithin(n + 1, m - 1, bound, at2, pos2)
  <2>1. last <= bound
    <3>1. 1 \in 1..m /\ (m > 1 => 2 \in 1..m)
      OBVIOUS
    <3>. QED BY <1>4, <1>12, <3>1 DEF AllWithin
  <2>2. \A i \in 1..(n + 1) : at2[i] <= bound
    BY <1>5, <1>7, <1>12, <2>1 DEF AllWithin
  <2>3. \A k \in 1..(m - 1) : pos2[k] <= bound
    BY <1>6, <1>7, <1>12 DEF AllWithin
  <2>. QED BY <2>2, <2>3 DEF AllWithin
<1>13. ASSUME NEW bound \in Int, NoneIsSkipped(n, told, m, bound, at, pos)
       PROVE  NoneIsSkipped(n + 1, told2, m - 1, bound, at2, pos2)
  <2>1. /\ pos[1] = IF n = 0 THEN 1 ELSE at[n]
        /\ \A k \in 1..m : pos[k] + 1 = pos[1] + k
        /\ bound + 1 = pos[1] + m
    BY <1>13 DEF NoneIsSkipped
  <2>2. pos[1] \in Nat /\ (m > 1 => last = pos[1] + 1)
    <3>1. 1 \in 1..m /\ (m > 1 => 2 \in 1..m)
      OBVIOUS
    <3>2. pos[1] \in Nat /\ (m > 1 => pos[2] \in Nat /\ pos[2] + 1 = pos[1] + 2)
      BY <1>3, <2>1, <3>1
    <3>. QED BY <1>4, <3>2
  <2>3. at2[1] = 1 \/ (at2[1] = 2 /\ told2[1] \notin {NoTrack, Played})
    <3>1. CASE n = 0
      BY <1>4, <1>5, <1>8, <2>1, <2>2, <3>1
    <3>2. CASE n > 0
      <4>1. 1 \in 1..n
        BY <3>2
      <4>. QED BY <1>5, <1>13, <3>2, <4>1 DEF NoneIsSkipped
    <3>. QED BY <3>1, <3>2
  <2>4. told2[n + 1] = NoTrack <=> m - 1 = 0
    BY <1>8
  <2>5. \A i \in 1..n :
           \/ told2[i] # NoTrack /\ at2[i + 1] = at2[i]
           \/ /\ at2[i + 1] = at2[i] + 1
              /\ told2[i] = NoTrack \/ told2[i + 1] \notin {NoTrack, Played}
    <3>. SUFFICES ASSUME NEW i \in 1..n
                  PROVE  \/ told2[i] # NoTrack /\ at2[i + 1] = at2[i]
                         \/ /\ at2[i + 1] = at2[i] + 1
                            /\ told2[i] = NoTrack \/ told2[i + 1] \notin {NoTrack, Played}
      OBVIOUS
    <3>1. CASE i \in 1..(n - 1)
      <4>1. i + 1 \in 1..n
        BY <3>1
      <4>. QED BY <1>5, <1>13, <3>1, <4>1 DEF NoneIsSkipped
    <3>2. CASE i = n
      <4>1. n > 0 /\ n \in 1..n /\ told[n] # NoTrack
        BY <1>13, <3>2 DEF NoneIsSkipped
      <4>2. at2[n] = pos[1] /\ told2[n] # NoTrack /\ at2[n + 1] = last
        BY <1>5, <2>1, <4>1
      <4>. QED BY <1>4, <1>8, <2>2, <3>2, <4>2
    <3>. QED BY <3>1, <3>2
  <2>6. m - 1 > 0 => /\ pos2[1] = at2[n + 1]
                     /\ \A k \in 1..(m - 1) : pos2[k] + 1 = pos2[1] + k
                     /\ bound + 1 = pos2[1] + (m - 1)
    <3>. SUFFICES ASSUME m > 1
                  PROVE  /\ pos2[1] = at2[n + 1]
                         /\ \A k \in 1..(m - 1) : pos2[k] + 1 = pos2[1] + k
                         /\ bound + 1 = pos2[1] + (m - 1)
      OBVIOUS
    <3>1. 1 \in 1..(m - 1)
      OBVIOUS
    <3>2. pos2[1] = last /\ pos2[1] = pos[1] + 1
      BY <1>4, <1>6, <2>2, <3>1
    <3>3. ASSUME NEW k \in 1..(m - 1) PROVE pos2[k] + 1 = pos2[1] + k
      <4>1. pos[k + 1] + 1 = pos[1] + (k + 1) /\ pos2[k] = pos[k + 1]
        BY <1>6, <1>7, <2>1
      <4>. DEFINE p == pos[1]
      <4>2. p \in Nat /\ pos2[1] = p + 1 /\ pos2[k] + 1 = p + (k + 1)
        BY <2>2, <3>2, <4>1
      <4>. HIDE DEF p
      <4>3. p + (k + 1) = (p + 1) + k
        BY <4>2
      <4>. QED BY <4>2, <4>3
    <3>4. bound + 1 = pos2[1] + (m - 1)
      <4>. DEFINE p == pos[1]
      <4>1. p \in Nat /\ pos2[1] = p + 1 /\ bound + 1 = p + m
        BY <2>1, <2>2, <3>2
      <4>. HIDE DEF p
      <4>2. p + m = (p + 1) + (m - 1)
        BY <4>1
      <4>. QED BY <4>1, <4>2
    <3>. QED BY <1>5, <3>2, <3>3, <3>4
  <2>7. m - 1 = 0 => bound <= at2[n + 1]
    BY <1>4, <1>5, <2>1, <2>2
  <2>. QED BY <2>3, <2>4, <2>5, <2>6, <2>7 DEF NoneIsSkipped
<1>14. Places(n + 1, told2, m - 1, have2, l, shown, coming, sent, exact, at2, pos2)
  <2>1. l \in Int /\ l - 1 \in Int /\ (IF sent THEN l - 1 ELSE l) \in Int
    OBVIOUS
  <2>. QED BY <1>1, <1>11, <1>12, <1>13, <2>1 DEF Places
<1>. QED BY <1>5, <1>6, <1>14 DEF HavePlaces

\* Without a track, it tells once more that it has none.
LEMMA PlaceNothing ==
  ASSUME NEW n \in Nat, NEW l \in Nat \ {0}, NEW told, NEW have, NEW shown,
         NEW exact \in BOOLEAN,
         HavePlaces(n, told, 0, have, l, shown, FALSE, FALSE, exact),
         NEW told2, \A i \in 1..n : told2[i] = told[i], told2[n + 1] = NoTrack
  PROVE  HavePlaces(n + 1, told2, 0, have, l, shown, FALSE, FALSE, exact)
<1>1. PICK at \in [1..n -> Nat \ {0}], pos \in [1..0 -> Nat \ {0}] :
        Places(n, told, 0, have, l, shown, FALSE, FALSE, exact, at, pos)
  BY DEF HavePlaces
<1>2. InPlace(n, told, 0, have, l, shown, at, pos)
  BY <1>1 DEF Places
<1>3. \A i \in 1..n : at[i] \in Nat \ {0}
  BY <1>1
<1>. DEFINE last == IF n = 0 THEN 1 ELSE at[n] + 1
            at2 == [i \in 1..(n + 1) |-> IF i = n + 1 THEN last ELSE at[i]]
<1>4. last \in Nat \ {0} /\ (n > 0 => last = at[n] + 1)
  <2>1. n > 0 => n \in 1..n
    OBVIOUS
  <2>. QED BY <1>3, <2>1
<1>. HIDE DEF last
<1>5. /\ at2 \in [1..(n + 1) -> Nat \ {0}] /\ at2[n + 1] = last
      /\ \A i \in 1..n : at2[i] = at[i]
  BY <1>3, <1>4
<1>. HIDE DEF at2
<1>6. \A i \in 1..(n + 1) : i \in 1..n \/ i = n + 1
  OBVIOUS
<1>7. \A i \in 1..n : at[i] < last
  <2>. SUFFICES ASSUME NEW i \in 1..n PROVE at[i] < last
    OBVIOUS
  <2>1. n \in 1..n /\ (i = n \/ i < n)
    OBVIOUS
  <2>2. i = n \/ at[i] <= at[n]
    BY <1>2, <2>1 DEF InPlace
  <2>3. at[i] \in Nat /\ at[n] \in Nat
    BY <1>3, <2>1
  <2>. QED BY <1>4, <2>2, <2>3
<1>8. InPlace(n + 1, told2, 0, have, l, shown, at2, pos)
  <2>1. \A i, j \in 1..(n + 1) : i < j =>
           at2[i] <= at2[j] /\ (told2[i] = NoTrack => at2[i] < at2[j])
    <3>. SUFFICES ASSUME NEW i \in 1..(n + 1), NEW j \in 1..(n + 1), i < j
                  PROVE  at2[i] <= at2[j] /\ (told2[i] = NoTrack => at2[i] < at2[j])
      OBVIOUS
    <3>1. i \in 1..n /\ at2[i] = at[i] /\ told2[i] = told[i]
      BY <1>5, <1>6
    <3>2. CASE j \in 1..n
      BY <1>2, <1>5, <3>1, <3>2 DEF InPlace
    <3>3. CASE j = n + 1
      BY <1>3, <1>4, <1>5, <1>7, <3>1, <3>3
    <3>. QED BY <1>6, <3>2, <3>3
  <2>2. \A i \in 1..(n + 1) : \A song \in Songs : told2[i] = Metadata(song) =>
           at2[i] <= l /\ shown[at2[i]] = song
    <3>. SUFFICES ASSUME NEW i \in 1..(n + 1), NEW song \in Songs, told2[i] = Metadata(song)
                  PROVE  at2[i] <= l /\ shown[at2[i]] = song
      OBVIOUS
    <3>1. i \in 1..n
      BY <1>6, CallsDiffer
    <3>2. told[i] = Metadata(song) /\ at2[i] = at[i]
      BY <1>5, <3>1
    <3>3. at[i] <= l /\ shown[at[i]] = song
      BY <1>2, <3>1, <3>2 DEF InPlace
    <3>. QED BY <3>2, <3>3
  <2>3. \A k \in 1..0 : FALSE
    OBVIOUS
  <2>. QED BY <2>1, <2>2, <2>3 DEF InPlace
<1>9. ASSUME exact PROVE NoneIsSkipped(n + 1, told2, 0, l, at2, pos)
  <2>1. NoneIsSkipped(n, told, 0, l, at, pos)
    BY <1>1, <1>9 DEF Places
  <2>2. n > 0 /\ n \in 1..n /\ told[n] = NoTrack /\ l <= at[n]
    BY <2>1 DEF NoneIsSkipped
  <2>3. at2[1] = 1 \/ (at2[1] = 2 /\ told2[1] \notin {NoTrack, Played})
    <3>1. 1 \in 1..n
      BY <2>2
    <3>. QED BY <1>5, <2>1, <2>2, <3>1 DEF NoneIsSkipped
  <2>4. \A i \in 1..n :
           \/ told2[i] # NoTrack /\ at2[i + 1] = at2[i]
           \/ /\ at2[i + 1] = at2[i] + 1
              /\ told2[i] = NoTrack \/ told2[i + 1] \notin {NoTrack, Played}
    <3>. SUFFICES ASSUME NEW i \in 1..n
                  PROVE  \/ told2[i] # NoTrack /\ at2[i + 1] = at2[i]
                         \/ /\ at2[i + 1] = at2[i] + 1
                            /\ told2[i] = NoTrack \/ told2[i + 1] \notin {NoTrack, Played}
      OBVIOUS
    <3>1. CASE i \in 1..(n - 1)
      <4>1. i + 1 \in 1..n
        BY <3>1
      <4>. QED BY <1>5, <2>1, <3>1, <4>1 DEF NoneIsSkipped
    <3>2. CASE i = n
      BY <1>4, <1>5, <2>2, <3>2
    <3>. QED BY <3>1, <3>2
  <2>5. l <= at2[n + 1]
    <3>1. at[n] \in Nat
      BY <1>3, <2>2
    <3>. QED BY <1>4, <1>5, <2>2, <3>1
  <2>. QED BY <2>3, <2>4, <2>5 DEF NoneIsSkipped
<1>10. Places(n + 1, told2, 0, have, l, shown, FALSE, FALSE, exact, at2, pos)
  BY <1>8, <1>9 DEF Places
<1>. QED BY <1>5, <1>10 DEF HavePlaces

\* A song is shown as the last, and sent on its way.
LEMMA PlaceAdd ==
  ASSUME NEW n \in Nat, NEW m \in Nat, NEW l \in Nat \ {0}, NEW told, NEW have, NEW shown,
         NEW exact \in BOOLEAN,
         HavePlaces(n, told, m, have, l, shown, TRUE, FALSE, exact),
         NEW shown2, Extends(l, shown, shown2)
  PROVE  HavePlaces(n, told, m, have, l + 1, shown2, FALSE, TRUE, exact)
<1>. USE DEF Extends
<1>1. PICK at \in [1..n -> Nat \ {0}], pos \in [1..m -> Nat \ {0}] :
        Places(n, told, m, have, l, shown, TRUE, FALSE, exact, at, pos)
  BY DEF HavePlaces
<1>2. InPlace(n, told, m, have, l, shown, at, pos) /\ AllWithin(n, m, l, at, pos)
  BY <1>1 DEF Places
<1>3. (l + 1) - 1 = l
  OBVIOUS
<1>4. /\ \A i \in 1..n : at[i] \in Nat \ {0} /\ at[i] <= l /\ at[i] <= l + 1 /\ at[i] \in 1..l
      /\ \A k \in 1..m : pos[k] \in Nat \ {0} /\ pos[k] <= l /\ pos[k] <= l + 1 /\ pos[k] \in 1..l
  <2>1. \A i \in 1..n : at[i] \in Nat \ {0} /\ at[i] <= l
    BY <1>1, <1>2 DEF AllWithin
  <2>2. \A k \in 1..m : pos[k] \in Nat \ {0} /\ pos[k] <= l
    BY <1>1, <1>2 DEF AllWithin
  <2>. QED BY <2>1, <2>2
<1>5. InPlace(n, told, m, have, l + 1, shown2, at, pos)
  <2>1. \A i \in 1..n : \A song \in Songs : told[i] = Metadata(song) =>
           at[i] <= l + 1 /\ shown2[at[i]] = song
    BY <1>2, <1>4 DEF InPlace
  <2>2. \A k \in 1..m : pos[k] <= l + 1 /\ shown2[pos[k]] = have[k]
    BY <1>2, <1>4 DEF InPlace
  <2>. QED BY <1>2, <2>1, <2>2 DEF InPlace
<1>6. Places(n, told, m, have, l + 1, shown2, FALSE, TRUE, exact, at, pos)
  <2>1. exact => NoneIsSkipped(n, told, m, (l + 1) - 1, at, pos)
    BY <1>1, <1>3 DEF Places
  <2>2. AllWithin(n, m, (l + 1) - 1, at, pos)
    BY <1>2, <1>3
  <2>. QED BY <1>5, <2>1, <2>2 DEF Places
<1>. QED BY <1>6 DEF HavePlaces

\* A call is handled that changes nothing of what is shown.
LEMMA PlaceDrop ==
  ASSUME NEW n \in Nat \ {0}, NEW m \in Nat, NEW l \in Nat \ {0}, NEW told, NEW have, NEW shown,
         NEW coming \in BOOLEAN, NEW sent \in BOOLEAN, NEW exact \in BOOLEAN,
         HavePlaces(n, told, m, have, l, shown, coming, sent, exact),
         NEW told2, Drops(n, told, told2),
         shown[1] \in Songs, l > 1 => shown[1] # shown[2],
         told[1] = Played \/ told[1] = Metadata(shown[1])
  PROVE  HavePlaces(n - 1, told2, m, have, l, shown, coming, sent, exact)
<1>. USE DEF Drops
<1>1. PICK at \in [1..n -> Nat \ {0}], pos \in [1..m -> Nat \ {0}] :
        Places(n, told, m, have, l, shown, coming, sent, exact, at, pos)
  BY DEF HavePlaces
<1>2. InPlace(n, told, m, have, l, shown, at, pos)
  BY <1>1 DEF Places
<1>3. \A i \in 1..n : at[i] \in Nat \ {0}
  BY <1>1
<1>. DEFINE at2 == [i \in 1..(n - 1) |-> at[i + 1]]
<1>4. at2 \in [1..(n - 1) -> Nat \ {0}] /\ \A i \in 1..(n - 1) : at2[i] = at[i + 1]
  BY <1>3
<1>. HIDE DEF at2
<1>5. 1 \in 1..n /\ n \in 1..n /\ \A i \in 1..(n - 1) : i + 1 \in 1..n
  OBVIOUS
<1>6. told[1] # NoTrack
  BY CallsDiffer
<1>7. InPlace(n - 1, told2, m, have, l, shown, at2, pos)
  <2>1. \A i, j \in 1..(n - 1) : i < j =>
           at2[i] <= at2[j] /\ (told2[i] = NoTrack => at2[i] < at2[j])
    <3>. SUFFICES ASSUME NEW i \in 1..(n - 1), NEW j \in 1..(n - 1), i < j
                  PROVE  at2[i] <= at2[j] /\ (told2[i] = NoTrack => at2[i] < at2[j])
      OBVIOUS
    <3>1. i + 1 \in 1..n /\ j + 1 \in 1..n /\ i + 1 < j + 1
      OBVIOUS
    <3>2. at[i + 1] <= at[j + 1] /\ (told[i + 1] = NoTrack => at[i + 1] < at[j + 1])
      BY <1>2, <3>1 DEF InPlace
    <3>3. at2[i] = at[i + 1] /\ at2[j] = at[j + 1] /\ told2[i] = told[i + 1]
      BY <1>4
    <3>. QED BY <3>2, <3>3
  <2>2. \A i \in 1..(n - 1) : \A song \in Songs : told2[i] = Metadata(song) =>
           at2[i] <= l /\ shown[at2[i]] = song
    <3>. SUFFICES ASSUME NEW i \in 1..(n - 1), NEW song \in Songs, told2[i] = Metadata(song)
                  PROVE  at2[i] <= l /\ shown[at2[i]] = song
      OBVIOUS
    <3>1. at2[i] = at[i + 1] /\ told[i + 1] = Metadata(song) /\ i + 1 \in 1..n
      BY <1>4, <1>5
    <3>2. at[i + 1] <= l /\ shown[at[i + 1]] = song
      BY <1>2, <3>1 DEF InPlace
    <3>. QED BY <3>1, <3>2
  <2>3. \A i \in 1..(n - 1) : \A k \in 1..m :
           at2[i] <= pos[k] /\ (told2[i] = NoTrack => at2[i] < pos[k])
    <3>. SUFFICES ASSUME NEW i \in 1..(n - 1), NEW k \in 1..m
                  PROVE  at2[i] <= pos[k] /\ (told2[i] = NoTrack => at2[i] < pos[k])
      OBVIOUS
    <3>1. at2[i] = at[i + 1] /\ told2[i] = told[i + 1] /\ i + 1 \in 1..n
      BY <1>4, <1>5
    <3>2. at[i + 1] <= pos[k] /\ (told[i + 1] = NoTrack => at[i + 1] < pos[k])
      BY <1>2, <3>1 DEF InPlace
    <3>. QED BY <3>1, <3>2
  <2>. QED BY <1>2, <2>1, <2>2, <2>3 DEF InPlace
<1>8. ASSUME NEW bound \in Int, AllWithin(n, m, bound, at, pos)
      PROVE  AllWithin(n - 1, m, bound, at2, pos)
  BY <1>4, <1>5, <1>8 DEF AllWithin
<1>9. ASSUME NEW bound \in Int, NoneIsSkipped(n, told, m, bound, at, pos)
      PROVE  NoneIsSkipped(n - 1, told2, m, bound, at2, pos)
  <2>1. at[1] = 1
    <3>1. at[1] = 1 \/ (at[1] = 2 /\ told[1] # Played)
      BY <1>9 DEF NoneIsSkipped
    <3>2. ASSUME at[1] = 2, told[1] = Metadata(shown[1]) PROVE FALSE
      <4>1. 2 <= l /\ shown[2] = shown[1]
        BY <1>2, <1>5, <3>2 DEF InPlace
      <4>. QED BY <4>1
    <3>. QED BY <3>1, <3>2
  <2>2. told[n] = NoTrack <=> m = 0
    BY <1>9 DEF NoneIsSkipped
  <2>3. CASE n = 1
    <3>1. m > 0 /\ n - 1 = 0
      BY <1>6, <2>2, <2>3
    <3>2. \A i \in 1..((n - 1) - 1) : FALSE
      BY <2>3
    <3>. QED BY <1>9, <2>1, <2>3, <3>1, <3>2 DEF NoneIsSkipped
  <2>4. CASE n > 1
    <3>1. 1 \in 1..(n - 1) /\ (n - 1) \in 1..(n - 1) /\ (n - 1) + 1 = n
      BY <2>4
    <3>2. at2[n - 1] = at[n] /\ told2[n - 1] = told[n] /\ at2[1] = at[1 + 1] /\ told2[1] = told[1 + 1]
      BY <1>4, <3>1
    <3>3. \/ told[1] # NoTrack /\ at[1 + 1] = at[1]
          \/ at[1 + 1] = at[1] + 1 /\ (told[1] = NoTrack \/ told[1 + 1] \notin {NoTrack, Played})
      BY <1>9, <3>1 DEF NoneIsSkipped
    <3>4. at2[1] = 1 \/ (at2[1] = 2 /\ told2[1] \notin {NoTrack, Played})
      BY <1>6, <2>1, <3>2, <3>3
    <3>5. \A i \in 1..((n - 1) - 1) :
             \/ told2[i] # NoTrack /\ at2[i + 1] = at2[i]
             \/ /\ at2[i + 1] = at2[i] + 1
                /\ told2[i] = NoTrack \/ told2[i + 1] \notin {NoTrack, Played}
      <4>. SUFFICES ASSUME NEW i \in 1..((n - 1) - 1)
                    PROVE  \/ told2[i] # NoTrack /\ at2[i + 1] = at2[i]
                           \/ /\ at2[i + 1] = at2[i] + 1
                              /\ told2[i] = NoTrack \/ told2[i + 1] \notin {NoTrack, Played}
        OBVIOUS
      <4>1. i \in 1..(n - 1) /\ i + 1 \in 1..(n - 1)
        OBVIOUS
      <4>2. /\ at2[i] = at[i + 1] /\ at2[i + 1] = at[(i + 1) + 1]
            /\ told2[i] = told[i + 1] /\ told2[i + 1] = told[(i + 1) + 1]
        BY <1>4, <4>1
      <4>. QED BY <1>9, <4>1, <4>2 DEF NoneIsSkipped
    <3>6. /\ m > 0 => /\ pos[1] = at2[n - 1]
                      /\ \A k \in 1..m : pos[k] + 1 = pos[1] + k
                      /\ bound + 1 = pos[1] + m
          /\ m = 0 => bound <= at2[n - 1]
      BY <1>9, <3>2 DEF NoneIsSkipped
    <3>. QED BY <2>2, <2>4, <3>2, <3>4, <3>5, <3>6 DEF NoneIsSkipped
  <2>. QED BY <2>3, <2>4
<1>10. Places(n - 1, told2, m, have, l, shown, coming, sent, exact, at2, pos)
  <2>1. l \in Int /\ l - 1 \in Int /\ (IF sent THEN l - 1 ELSE l) \in Int
    OBVIOUS
  <2>. QED BY <1>1, <1>7, <1>8, <1>9, <2>1 DEF Places
<1>. QED BY <1>4, <1>10 DEF HavePlaces

\* Another track than the one shown first has started: there is a second.
LEMMA PlaceBehind ==
  ASSUME NEW n \in Nat \ {0}, NEW m \in Nat, NEW l \in Nat \ {0}, NEW told, NEW have, NEW shown,
         NEW coming \in BOOLEAN, NEW sent \in BOOLEAN, NEW exact \in BOOLEAN,
         HavePlaces(n, told, m, have, l, shown, coming, sent, exact),
         NEW song \in Songs, song # shown[1], told[1] = Metadata(song)
  PROVE  l > 1
<1>1. PICK at \in [1..n -> Nat \ {0}], pos \in [1..m -> Nat \ {0}] :
        Places(n, told, m, have, l, shown, coming, sent, exact, at, pos)
  BY DEF HavePlaces
<1>2. 1 \in 1..n
  OBVIOUS
<1>3. at[1] \in Nat \ {0} /\ at[1] <= l /\ shown[at[1]] = song
  BY <1>1, <1>2 DEF Places, InPlace
<1>. QED BY <1>3

NothingBehind(n, told, m, coming, sent) ==
    /\ m = 0 /\ ~sent /\ (coming => n = 1)
    /\ \A i \in 2..n : \A song \in Songs : told[i] # Metadata(song)

\* No track follows the only song shown: nothing else is on its way.
LEMMA PlaceLast ==
  ASSUME NEW n \in Nat \ {0}, NEW m \in Nat, NEW told, NEW have, NEW shown,
         NEW coming \in BOOLEAN, NEW sent \in BOOLEAN, NEW exact \in BOOLEAN,
         HavePlaces(n, told, m, have, 1, shown, coming, sent, exact),
         told[1] = NoTrack
  PROVE  NothingBehind(n, told, m, coming, sent)
<1>1. PICK at \in [1..n -> Nat \ {0}], pos \in [1..m -> Nat \ {0}] :
        Places(n, told, m, have, 1, shown, coming, sent, exact, at, pos)
  BY DEF HavePlaces
<1>2. InPlace(n, told, m, have, 1, shown, at, pos)
  BY <1>1 DEF Places
<1>3. 1 \in 1..n /\ at[1] \in Nat \ {0}
  BY <1>1
<1>4. \A i \in 2..n : at[i] \in Nat /\ at[i] > 1
  <2>. SUFFICES ASSUME NEW i \in 2..n PROVE at[i] \in Nat /\ at[i] > 1
    OBVIOUS
  <2>1. i \in 1..n /\ 1 < i
    OBVIOUS
  <2>2. at[i] \in Nat /\ at[1] < at[i]
    BY <1>1, <1>2, <1>3, <2>1 DEF InPlace
  <2>. QED BY <1>3, <2>2
<1>5. m = 0
  <2>. SUFFICES ASSUME m > 0 PROVE FALSE
    OBVIOUS
  <2>1. 1 \in 1..m
    OBVIOUS
  <2>2. pos[1] \in Nat /\ pos[1] <= 1 /\ at[1] < pos[1]
    BY <1>1, <1>2, <1>3, <2>1 DEF InPlace
  <2>. QED BY <1>3, <2>2
<1>6. ~sent
  <2>. SUFFICES ASSUME sent PROVE FALSE
    OBVIOUS
  <2>1. at[1] <= 1 - 1
    BY <1>1, <1>3 DEF Places, AllWithin
  <2>. QED BY <1>3, <2>1
<1>7. coming => n = 1
  <2>. SUFFICES ASSUME coming, n > 1 PROVE FALSE
    OBVIOUS
  <2>1. 2 \in 1..n /\ 2 \in 2..n
    OBVIOUS
  <2>2. at[2] <= 1
    BY <1>1, <2>1 DEF Places, AllWithin
  <2>. QED BY <1>4, <2>1, <2>2
<1>8. ASSUME NEW i \in 2..n, NEW song \in Songs, told[i] = Metadata(song) PROVE FALSE
  <2>1. i \in 1..n
    OBVIOUS
  <2>2. at[i] <= 1
    BY <1>2, <1>8, <2>1 DEF InPlace
  <2>. QED BY <1>4, <2>2
<1>. QED BY <1>5, <1>6, <1>7, <1>8 DEF NothingBehind

\* The controller has told all: it has what is shown.
LEMMA PlaceRest ==
  ASSUME NEW m \in Nat, NEW l \in Nat \ {0}, NEW told, NEW have, NEW shown,
         HavePlaces(0, told, m, have, l, shown, FALSE, FALSE, TRUE)
  PROVE  m = l /\ Extends(m, shown, have)
<1>1. PICK at \in [1..0 -> Nat \ {0}], pos \in [1..m -> Nat \ {0}] :
        Places(0, told, m, have, l, shown, FALSE, FALSE, TRUE, at, pos)
  BY DEF HavePlaces
<1>2. InPlace(0, told, m, have, l, shown, at, pos) /\ NoneIsSkipped(0, told, m, l, at, pos)
  BY <1>1 DEF Places
<1>3. m > 0 => pos[1] = 1 /\ l + 1 = pos[1] + m
  BY <1>2 DEF NoneIsSkipped
<1>4. m = 0 => l <= 0
  BY <1>2 DEF NoneIsSkipped
<1>5. m = l /\ m > 0
  BY <1>3, <1>4
<1>6. ASSUME NEW k \in 1..m PROVE have[k] = shown[k]
  <2>1. pos[k] + 1 = pos[1] + k /\ pos[k] \in Nat
    BY <1>1, <1>2, <1>5 DEF NoneIsSkipped
  <2>2. pos[k] = k
    BY <1>3, <1>5, <2>1
  <2>. QED BY <1>2, <2>2 DEF InPlace
<1>. QED BY <1>5, <1>6 DEF Extends

\* The song shown first has finished: every place is one less.
LEMMA PlacePop ==
  ASSUME NEW n \in Nat \ {0}, NEW m \in Nat, NEW l \in Nat \ {0}, l > 1,
         NEW told, NEW have, NEW shown,
         NEW coming \in BOOLEAN, NEW sent \in BOOLEAN, NEW exact \in BOOLEAN,
         HavePlaces(n, told, m, have, l, shown, coming, sent, exact),
         NEW told2, Drops(n, told, told2), NEW shown2, Drops(l, shown, shown2),
         told[1] = NoTrack \/ \E song \in Songs : song # shown[1] /\ told[1] = Metadata(song)
  PROVE  HavePlaces(n - 1, told2, m, have, l - 1, shown2, coming, sent, exact)
<1>. USE DEF Drops
<1>1. PICK at \in [1..n -> Nat \ {0}], pos \in [1..m -> Nat \ {0}] :
        Places(n, told, m, have, l, shown, coming, sent, exact, at, pos)
  BY DEF HavePlaces
<1>2. InPlace(n, told, m, have, l, shown, at, pos)
  BY <1>1 DEF Places
<1>3. 1 \in 1..n /\ n \in 1..n /\ \A i \in 1..(n - 1) : i + 1 \in 1..n /\ 1 < i + 1
  OBVIOUS
<1>4. at[1] \in Nat \ {0} /\ (told[1] # NoTrack => at[1] > 1)
  <2>1. at[1] \in Nat \ {0}
    BY <1>1, <1>3
  <2>2. ASSUME NEW song \in Songs, song # shown[1], told[1] = Metadata(song) PROVE at[1] > 1
    <3>1. shown[at[1]] = song
      BY <1>2, <1>3, <2>2 DEF InPlace
    <3>. QED BY <2>1, <2>2, <3>1
  <2>. QED BY <2>1, <2>2
<1>5. ASSUME NEW i \in 1..(n - 1) PROVE at[i + 1] \in Nat /\ at[i + 1] > 1
  <2>1. at[i + 1] \in Nat /\ at[1] <= at[i + 1] /\ (told[1] = NoTrack => at[1] < at[i + 1])
    BY <1>1, <1>2, <1>3 DEF InPlace
  <2>. QED BY <1>4, <2>1
<1>6. ASSUME NEW k \in 1..m PROVE pos[k] \in Nat /\ pos[k] > 1
  <2>1. pos[k] \in Nat /\ at[1] <= pos[k] /\ (told[1] = NoTrack => at[1] < pos[k])
    BY <1>1, <1>2, <1>3 DEF InPlace
  <2>. QED BY <1>4, <2>1
<1>. DEFINE at2 == [i \in 1..(n - 1) |-> at[i + 1] - 1]
            pos2 == [k \in 1..m |-> pos[k] - 1]
<1>7. /\ at2 \in [1..(n - 1) -> Nat \ {0}]
      /\ \A i \in 1..(n - 1) : at2[i] = at[i + 1] - 1 /\ at2[i] + 1 = at[i + 1]
                               /\ at2[i] \in Nat \ {0}
  BY <1>5
<1>8. /\ pos2 \in [1..m -> Nat \ {0}]
      /\ \A k \in 1..m : pos2[k] = pos[k] - 1 /\ pos2[k] + 1 = pos[k] /\ pos2[k] \in Nat \ {0}
  BY <1>6
<1>. HIDE DEF at2, pos2
<1>9. ASSUME NEW p \in Nat \ {0}, p + 1 <= l PROVE p <= l - 1 /\ shown2[p] = shown[p + 1]
  BY <1>9
<1>10. InPlace(n - 1, told2, m, have, l - 1, shown2, at2, pos2)
  <2>1. \A i, j \in 1..(n - 1) : i < j =>
           at2[i] <= at2[j] /\ (told2[i] = NoTrack => at2[i] < at2[j])
    <3>. SUFFICES ASSUME NEW i \in 1..(n - 1), NEW j \in 1..(n - 1), i < j
                  PROVE  at2[i] <= at2[j] /\ (told2[i] = NoTrack => at2[i] < at2[j])
      OBVIOUS
    <3>1. i + 1 \in 1..n /\ j + 1 \in 1..n /\ i + 1 < j + 1
      OBVIOUS
    <3>2. at[i + 1] <= at[j + 1] /\ (told[i + 1] = NoTrack => at[i + 1] < at[j + 1])
      BY <1>2, <3>1 DEF InPlace
    <3>3. /\ at[i + 1] = at2[i] + 1 /\ at[j + 1] = at2[j] + 1 /\ told2[i] = told[i + 1]
          /\ at2[i] \in Nat /\ at2[j] \in Nat
      BY <1>7
    <3>. DEFINE p == at2[i]
                q == at2[j]
    <3>4. /\ p \in Nat /\ q \in Nat /\ p + 1 <= q + 1
          /\ told2[i] = NoTrack => p + 1 < q + 1
      BY <3>2, <3>3
    <3>. HIDE DEF p, q
    <3>5. p <= q /\ (p + 1 < q + 1 => p < q)
      BY <3>4
    <3>6. p <= q /\ (told2[i] = NoTrack => p < q)
      BY <3>4, <3>5, Zenon
    <3>. QED BY <3>6 DEF p, q
  <2>2. \A i \in 1..(n - 1) : \A song \in Songs : told2[i] = Metadata(song) =>
           at2[i] <= l - 1 /\ shown2[at2[i]] = song
    <3>. SUFFICES ASSUME NEW i \in 1..(n - 1), NEW song \in Songs, told2[i] = Metadata(song)
                  PROVE  at2[i] <= l - 1 /\ shown2[at2[i]] = song
      OBVIOUS
    <3>1. at[i + 1] = at2[i] + 1 /\ told[i + 1] = Metadata(song) /\ i + 1 \in 1..n
      BY <1>3, <1>7
    <3>2. at[i + 1] <= l /\ shown[at[i + 1]] = song
      BY <1>2, <3>1 DEF InPlace
    <3>3. at2[i] \in Nat \ {0} /\ at2[i] + 1 <= l /\ shown[at2[i] + 1] = song
      BY <1>7, <3>1, <3>2
    <3>. QED BY <1>9, <3>3
  <2>3. \A k \in 1..m : pos2[k] <= l - 1 /\ shown2[pos2[k]] = have[k]
    <3>. SUFFICES ASSUME NEW k \in 1..m
                  PROVE  pos2[k] <= l - 1 /\ shown2[pos2[k]] = have[k]
      OBVIOUS
    <3>1. pos[k] <= l /\ shown[pos[k]] = have[k]
      BY <1>2 DEF InPlace
    <3>2. pos2[k] \in Nat \ {0} /\ pos2[k] + 1 <= l /\ shown[pos2[k] + 1] = have[k]
      BY <1>8, <3>1
    <3>. QED BY <1>9, <3>2
  <2>4. \A j, k \in 1..m : j < k => pos2[j] < pos2[k]
    <3>. SUFFICES ASSUME NEW j \in 1..m, NEW k \in 1..m, j < k PROVE pos2[j] < pos2[k]
      OBVIOUS
    <3>1. pos[j] < pos[k]
      BY <1>2 DEF InPlace
    <3>2. /\ pos2[j] \in Nat /\ pos2[k] \in Nat
          /\ pos[j] = pos2[j] + 1 /\ pos[k] = pos2[k] + 1
      BY <1>8
    <3>. QED BY <3>1, <3>2
  <2>5. \A i \in 1..(n - 1) : \A k \in 1..m :
           at2[i] <= pos2[k] /\ (told2[i] = NoTrack => at2[i] < pos2[k])
    <3>. SUFFICES ASSUME NEW i \in 1..(n - 1), NEW k \in 1..m
                  PROVE  at2[i] <= pos2[k] /\ (told2[i] = NoTrack => at2[i] < pos2[k])
      OBVIOUS
    <3>1. at[i + 1] <= pos[k] /\ (told[i + 1] = NoTrack => at[i + 1] < pos[k])
      BY <1>2, <1>3 DEF InPlace
    <3>2. /\ at[i + 1] = at2[i] + 1 /\ pos[k] = pos2[k] + 1 /\ told2[i] = told[i + 1]
          /\ at2[i] \in Nat /\ pos2[k] \in Nat
      BY <1>7, <1>8
    <3>. DEFINE p == at2[i]
                q == pos2[k]
    <3>3. /\ p \in Nat /\ q \in Nat /\ p + 1 <= q + 1
          /\ told2[i] = NoTrack => p + 1 < q + 1
      BY <3>1, <3>2
    <3>. HIDE DEF p, q
    <3>4. p <= q /\ (told2[i] = NoTrack => p < q)
      BY <3>3
    <3>. QED BY <3>4 DEF p, q
  <2>. QED BY <2>1, <2>2, <2>3, <2>4, <2>5 DEF InPlace
<1>11. ASSUME NEW bound \in Int, AllWithin(n, m, bound, at, pos)
       PROVE  AllWithin(n - 1, m, bound - 1, at2, pos2)
  <2>1. ASSUME NEW i \in 1..(n - 1) PROVE at2[i] <= bound - 1
    <3>1. at[i + 1] <= bound
      BY <1>3, <1>11 DEF AllWithin
    <3>. QED BY <1>7, <3>1
  <2>2. ASSUME NEW k \in 1..m PROVE pos2[k] <= bound - 1
    <3>1. pos[k] <= bound
      BY <1>11 DEF AllWithin
    <3>. QED BY <1>8, <3>1
  <2>. QED BY <2>1, <2>2 DEF AllWithin
<1>12. ASSUME NEW bound \in Int, NoneIsSkipped(n, told, m, bound, at, pos)
       PROVE  NoneIsSkipped(n - 1, told2, m, bound - 1, at2, pos2)
  <2>1. /\ at[1] = 1 \/ (at[1] = 2 /\ told[1] # NoTrack)
        /\ told[n] = NoTrack <=> m = 0
    BY <1>12 DEF NoneIsSkipped
  <2>2. at[1] = IF told[1] = NoTrack THEN 1 ELSE 2
    BY <1>4, <2>1
  <2>3. /\ m > 0 => /\ pos[1] = at[n]
                    /\ \A k \in 1..m : pos[k] + 1 = pos[1] + k
                    /\ bound + 1 = pos[1] + m
        /\ m = 0 => bound <= at[n]
    BY <1>12 DEF NoneIsSkipped
  <2>4. \A k \in 1..m : pos2[k] + 1 = pos2[1] + k
    <3>. SUFFICES ASSUME NEW k \in 1..m PROVE pos2[k] + 1 = pos2[1] + k
      OBVIOUS
    <3>1. 1 \in 1..m /\ pos[k] + 1 = pos[1] + k
      BY <2>3
    <3>2. /\ pos2[k] \in Nat /\ pos[k] = pos2[k] + 1
          /\ pos2[1] \in Nat /\ pos[1] = pos2[1] + 1
      BY <1>8, <3>1
    <3>. DEFINE p == pos2[k]
                q == pos2[1]
    <3>3. p \in Nat /\ q \in Nat /\ (p + 1) + 1 = (q + 1) + k
      BY <3>1, <3>2
    <3>. HIDE DEF p, q
    <3>4. p + 1 = q + k
      BY <3>3
    <3>. QED BY <3>4 DEF p, q
  <2>5. m > 0 => (bound - 1) + 1 = pos2[1] + m
    <3>. SUFFICES ASSUME m > 0 PROVE (bound - 1) + 1 = pos2[1] + m
      OBVIOUS
    <3>1. 1 \in 1..m
      OBVIOUS
    <3>2. pos2[1] \in Nat /\ pos[1] = pos2[1] + 1 /\ bound + 1 = pos[1] + m
      BY <1>8, <2>3, <3>1
    <3>. DEFINE q == pos2[1]
    <3>3. q \in Nat /\ bound + 1 = (q + 1) + m
      BY <3>2
    <3>. HIDE DEF q
    <3>4. (bound - 1) + 1 = q + m
      BY <3>3
    <3>. QED BY <3>4 DEF q
  <2>6. CASE n = 1
    <3>1. told[1] = NoTrack <=> m = 0
      BY <2>1, <2>6
    <3>2. m > 0 => pos2[1] = 1
      <4>. SUFFICES ASSUME m > 0 PROVE pos2[1] = 1
        OBVIOUS
      <4>1. 1 \in 1..m
        OBVIOUS
      <4>2. pos[1] = 2
        BY <2>2, <2>3, <2>6, <3>1
      <4>. QED BY <1>8, <4>1, <4>2
    <3>3. m = 0 => bound - 1 <= 0
      BY <2>2, <2>3, <2>6, <3>1
    <3>4. n - 1 = 0 /\ \A i \in 1..((n - 1) - 1) : FALSE
      BY <2>6
    <3>. QED BY <2>4, <2>5, <3>2, <3>3, <3>4 DEF NoneIsSkipped
  <2>7. CASE n > 1
    <3>1. 1 \in 1..(n - 1) /\ (n - 1) \in 1..(n - 1) /\ (n - 1) + 1 = n
      BY <2>7
    <3>2. /\ at2[n - 1] + 1 = at[n] /\ at2[n - 1] \in Nat /\ told2[n - 1] = told[n]
          /\ at2[1] + 1 = at[1 + 1] /\ at2[1] \in Nat /\ told2[1] = told[1 + 1]
      BY <1>7, <3>1
    <3>3. \/ told[1] # NoTrack /\ at[1 + 1] = at[1]
          \/ at[1 + 1] = at[1] + 1 /\ (told[1] = NoTrack \/ told[1 + 1] \notin {NoTrack, Played})
      BY <1>12, <3>1 DEF NoneIsSkipped
    <3>4. at2[1] = 1 \/ (at2[1] = 2 /\ told2[1] \notin {NoTrack, Played})
      BY <2>2, <3>2, <3>3
    <3>5. \A i \in 1..((n - 1) - 1) :
             \/ told2[i] # NoTrack /\ at2[i + 1] = at2[i]
             \/ /\ at2[i + 1] = at2[i] + 1
                /\ told2[i] = NoTrack \/ told2[i + 1] \notin {NoTrack, Played}
      <4>. SUFFICES ASSUME NEW i \in 1..((n - 1) - 1)
                    PROVE  \/ told2[i] # NoTrack /\ at2[i + 1] = at2[i]
                           \/ /\ at2[i + 1] = at2[i] + 1
                              /\ told2[i] = NoTrack \/ told2[i + 1] \notin {NoTrack, Played}
        OBVIOUS
      <4>1. i \in 1..(n - 1) /\ i + 1 \in 1..(n - 1)
        OBVIOUS
      <4>2. /\ at2[i] + 1 = at[i + 1] /\ at2[i + 1] + 1 = at[(i + 1) + 1]
            /\ at2[i] \in Nat /\ at2[i + 1] \in Nat
            /\ told2[i] = told[i + 1] /\ told2[i + 1] = told[(i + 1) + 1]
        BY <1>7, <4>1
      <4>3. \/ told[i + 1] # NoTrack /\ at[(i + 1) + 1] = at[i + 1]
            \/ /\ at[(i + 1) + 1] = at[i + 1] + 1
               /\ told[i + 1] = NoTrack \/ told[(i + 1) + 1] \notin {NoTrack, Played}
        BY <1>12, <4>1 DEF NoneIsSkipped
      <4>. DEFINE p == at2[i]
                  q == at2[i + 1]
      <4>4. /\ p \in Nat /\ q \in Nat
            /\ \/ told2[i] # NoTrack /\ q + 1 = p + 1
               \/ /\ q + 1 = (p + 1) + 1
                  /\ told2[i] = NoTrack \/ told2[i + 1] \notin {NoTrack, Played}
        BY <4>2, <4>3
      <4>. HIDE DEF p, q
      <4>5. (q + 1 = p + 1 => q = p) /\ (q + 1 = (p + 1) + 1 => q = p + 1)
        BY <4>4
      <4>6. \/ told2[i] # NoTrack /\ q = p
            \/ q = p + 1 /\ (told2[i] = NoTrack \/ told2[i + 1] \notin {NoTrack, Played})
        BY <4>4, <4>5, Zenon
      <4>. QED BY <4>6 DEF p, q
    <3>6. m > 0 => pos2[1] = at2[n - 1]
      <4>. SUFFICES ASSUME m > 0 PROVE pos2[1] = at2[n - 1]
        OBVIOUS
      <4>1. 1 \in 1..m
        OBVIOUS
      <4>2. pos2[1] \in Nat /\ pos2[1] + 1 = pos[1] /\ pos[1] = at[n]
        BY <1>8, <2>3, <4>1
      <4>. QED BY <3>2, <4>2
    <3>7. m = 0 => bound - 1 <= at2[n - 1]
      BY <2>3, <3>2
    <3>. QED BY <2>1, <2>4, <2>5, <2>7, <3>2, <3>4, <3>5, <3>6, <3>7 DEF NoneIsSkipped
  <2>. QED BY <2>6, <2>7
<1>13. Places(n - 1, told2, m, have, l - 1, shown2, coming, sent, exact, at2, pos2)
  <2>1. l \in Int /\ l - 1 \in Int
    OBVIOUS
  <2>2. exact => NoneIsSkipped(n - 1, told2, m, IF sent THEN (l - 1) - 1 ELSE l - 1, at2, pos2)
    BY <1>1, <1>12, <2>1 DEF Places
  <2>. QED BY <1>1, <1>10, <1>11, <2>1, <2>2 DEF Places
<1>. QED BY <1>7, <1>8, <1>13 DEF HavePlaces

\* A song is on its way that was not: nothing waits before it, so every place
\* is among the songs shown; one that was refused leaves the places.
LEMMA PlaceComing ==
  ASSUME NEW m \in Nat, NEW l \in Nat \ {0}, NEW told, NEW have, NEW shown,
         NEW exact \in BOOLEAN,
         HavePlaces(0, told, m, have, l, shown, FALSE, FALSE, exact)
  PROVE  HavePlaces(0, told, m, have, l, shown, TRUE, FALSE, exact)
<1>1. PICK at \in [1..0 -> Nat \ {0}], pos \in [1..m -> Nat \ {0}] :
        Places(0, told, m, have, l, shown, FALSE, FALSE, exact, at, pos)
  BY DEF HavePlaces
<1>2. AllWithin(0, m, l, at, pos)
  <2>1. \A i \in 1..0 : FALSE
    OBVIOUS
  <2>. QED BY <1>1, <2>1 DEF Places, InPlace, AllWithin
<1>3. Places(0, told, m, have, l, shown, TRUE, FALSE, exact, at, pos)
  BY <1>1, <1>2 DEF Places
<1>. QED BY <1>3 DEF HavePlaces

LEMMA PlaceRefused ==
  ASSUME NEW n, NEW told, NEW m, NEW have, NEW l, NEW shown,
         NEW coming, NEW sent, NEW exact,
         HavePlaces(n, told, m, have, l, shown, coming, sent, exact)
  PROVE  HavePlaces(n, told, m, have, l, shown, FALSE, FALSE, FALSE)
BY DEF HavePlaces, Places

-----------------------------------------------------------------------------
(***************************************************************************)
(* What is shown, what is on its way, and what the controller has.         *)
(***************************************************************************)
LEMMA SuffixIs ==
  ASSUME NEW s \in Seq(Songs), NEW q \in Seq(Songs), NEW p \in Nat, p + Len(s) = Len(q)
  PROVE  s = SubSeq(q, p + 1, Len(q)) <=> \A k \in 1..Len(s) : s[k] = q[p + k]
<1>. DEFINE t == SubSeq(q, p + 1, Len(q))
<1>1. t \in Seq(Songs) /\ Len(t) = Len(s) /\ \A k \in 1..Len(s) : t[k] = q[p + k]
  <2>1. \A i \in (p + 1)..Len(q) : q[i] \in Songs
    OBVIOUS
  <2>. QED BY <2>1
<1>. HIDE DEF t
<1>2. (\A k \in 1..Len(s) : s[k] = q[p + k]) => s = t
  BY <1>1
<1>. QED BY <1>1, <1>2 DEF t

\* A song shown first, if there is one, before others; and no others without it.
FirstAnd(song, others) == (IF song = NoSong THEN << >> ELSE <<song>>) \o others

LEMMA FirstAndIs ==
  \A song \in MaybeSongs : \A others \in Seq(Songs) :
      /\ FirstAnd(song, others) \in Seq(Songs)
      /\ song # NoSong =>
             /\ FirstAnd(song, others) # << >>
             /\ Len(FirstAnd(song, others)) = 1 + Len(others)
             /\ FirstAnd(song, others)[1] = song
             /\ Tail(FirstAnd(song, others)) = others
             /\ \A k \in 1..Len(others) : FirstAnd(song, others)[k + 1] = others[k]
      /\ song = NoSong => FirstAnd(song, others) = others
<1>. SUFFICES ASSUME NEW song \in MaybeSongs, NEW others \in Seq(Songs)
              PROVE  /\ FirstAnd(song, others) \in Seq(Songs)
                     /\ song # NoSong =>
                            /\ FirstAnd(song, others) # << >>
                            /\ Len(FirstAnd(song, others)) = 1 + Len(others)
                            /\ FirstAnd(song, others)[1] = song
                            /\ Tail(FirstAnd(song, others)) = others
                            /\ \A k \in 1..Len(others) : FirstAnd(song, others)[k + 1] = others[k]
                     /\ song = NoSong => FirstAnd(song, others) = others
  OBVIOUS
<1>1. CASE song = NoSong
  BY <1>1 DEF FirstAnd
<1>2. CASE song # NoSong
  <2>1. song \in Songs /\ <<song>> \in Seq(Songs)
    BY <1>2 DEF MaybeSongs
  <2>. DEFINE s == <<song>> \o others
  <2>2. /\ s \in Seq(Songs) /\ Len(s) = 1 + Len(others) /\ s[1] = song
        /\ \A k \in 1..Len(others) : s[k + 1] = others[k]
    BY <2>1
  <2>3. FirstAnd(song, others) = s
    BY <1>2 DEF FirstAnd
  <2>. HIDE DEF s
  <2>4. s # << >> /\ Tail(s) \in Seq(Songs) /\ Len(Tail(s)) = Len(others)
        /\ \A k \in 1..Len(others) : Tail(s)[k] = others[k]
    BY <2>2
  <2>5. Tail(s) = others
    BY <2>4
  <2>. QED BY <1>2, <2>2, <2>3, <2>4, <2>5
<1>. QED BY <1>1, <1>2

LEMMA ShownIs ==
  ASSUME PartyTypeOK
  PROVE  /\ Shown = FirstAnd(currentSong, songQueue) /\ Tracks = FirstAnd(currentTrack, nextTracks)
         /\ Shown \in Seq(Songs) /\ Tracks \in Seq(Songs) /\ Len(Shown) \in Nat
<1>1. /\ currentSong \in MaybeSongs /\ songQueue \in Seq(Songs)
      /\ currentTrack \in MaybeSongs /\ nextTracks \in Seq(Songs)
  BY DEF PartyTypeOK, SpotifyTypeOK
<1>2. Shown = FirstAnd(currentSong, songQueue) /\ Tracks = FirstAnd(currentTrack, nextTracks)
  BY DEF Shown, Tracks, FirstAnd
<1>3. Shown \in Seq(Songs) /\ Tracks \in Seq(Songs)
  BY <1>1, <1>2, FirstAndIs
<1>. QED BY <1>2, <1>3

\* The two ways in which what is shown changes.
LEMMA ShowAddedIs ==
  ASSUME PartyTypeOK, currentSong = NoSong => songQueue = << >>,
         NEW song \in Songs, ShowAdded(song)
  PROVE  /\ Shown' = Append(Shown, song) /\ currentSong' # NoSong
         /\ Shown # << >> => currentSong' = currentSong
<1>1. currentSong \in MaybeSongs /\ songQueue \in Seq(Songs)
  BY DEF PartyTypeOK
<1>2. CASE currentSong = NoSong
  <2>1. currentSong' = song /\ songQueue' = << >> /\ songQueue = << >>
    BY <1>2 DEF ShowAdded
  <2>2. Shown = << >> /\ Shown' = <<song>>
    BY <1>2, <2>1, SpotifyAssumption DEF Shown
  <2>3. Append(<< >>, song) = <<song>>
    OBVIOUS
  <2>. QED BY <2>1, <2>2, <2>3, SpotifyAssumption
<1>3. CASE currentSong # NoSong
  <2>1. currentSong' = currentSong /\ songQueue' = Append(songQueue, song)
    BY <1>3 DEF ShowAdded
  <2>2. Shown = <<currentSong>> \o songQueue /\ Shown' = <<currentSong>> \o Append(songQueue, song)
    BY <1>3, <2>1 DEF Shown
  <2>3. currentSong \in Songs /\ <<currentSong>> \in Seq(Songs)
    BY <1>1, <1>3 DEF MaybeSongs
  <2>4. <<currentSong>> \o Append(songQueue, song) = Append(<<currentSong>> \o songQueue, song)
    BY <1>1, <2>3
  <2>. QED BY <1>3, <2>1, <2>2, <2>4
<1>. QED BY <1>2, <1>3

LEMMA FinishShownIs ==
  ASSUME PartyTypeOK, currentSong # NoSong, FinishShown
  PROVE  /\ Shown # << >> /\ Shown' = Tail(Shown) /\ songsPlayed' = songsPlayed + 1
         /\ currentSong' = NoSong <=> songQueue = << >>
         /\ currentSong' = NoSong => songQueue' = << >>
<1>1. currentSong \in MaybeSongs /\ songQueue \in Seq(Songs)
  BY DEF PartyTypeOK
<1>2. Shown # << >> /\ Tail(Shown) = songQueue
  BY <1>1, ShownIs, FirstAndIs
<1>3. CASE songQueue = << >>
  <2>1. currentSong' = NoSong /\ songQueue' = << >>
    BY <1>3 DEF FinishShown
  <2>. QED BY <1>2, <1>3, <2>1 DEF Shown, FinishShown
<1>4. CASE songQueue # << >>
  <2>1. currentSong' = Head(songQueue) /\ songQueue' = Tail(songQueue) /\ Head(songQueue) \in Songs
    BY <1>1, <1>4 DEF FinishShown
  <2>2. currentSong' # NoSong
    BY <2>1, SpotifyAssumption
  <2>3. Shown' = <<Head(songQueue)>> \o Tail(songQueue)
    BY <2>1, <2>2 DEF Shown
  <2>4. <<Head(songQueue)>> \o Tail(songQueue) = songQueue
    BY <1>1, <1>4
  <2>. QED BY <1>2, <1>4, <2>2, <2>3, <2>4 DEF FinishShown
<1>. QED BY <1>3, <1>4

\* The commands on their way, when one is sent and when one is received.
LEMMA SendTracks ==
  ASSUME commands \in Seq(Command), NEW cmd \in Command, Send(cmd)
  PROVE  /\ \A i \in DOMAIN commands : i \in DOMAIN commands' /\ commands'[i] = commands[i]
         /\ \A i \in DOMAIN commands' : i \in DOMAIN commands \/ commands'[i] = cmd
         /\ commands' # << >>
         /\ ~IsTrack(cmd) => TrackCommands' = TrackCommands
         /\ IsTrack(cmd) =>
                /\ TrackCommands' = TrackCommands \cup {Len(commands) + 1}
                /\ commands'[Len(commands) + 1] = cmd
<1>1. /\ commands' = Append(commands, cmd) /\ commands' \in Seq(Command)
      /\ Len(commands) \in Nat /\ DOMAIN commands = 1..Len(commands)
      /\ DOMAIN commands' = 1..(Len(commands) + 1) /\ commands'[Len(commands) + 1] = cmd
      /\ \A i \in 1..Len(commands) : commands'[i] = commands[i]
  BY DEF Send
<1>2. TrackCommands' = {i \in 1..(Len(commands) + 1) : IsTrack(commands'[i])}
  BY <1>1 DEF TrackCommands, IsTrack
<1>3. TrackCommands = {i \in 1..Len(commands) : IsTrack(commands[i])}
  BY <1>1 DEF TrackCommands
<1>. HIDE DEF IsTrack
<1>4. \A i : i \in 1..(Len(commands) + 1) <=> i \in 1..Len(commands) \/ i = Len(commands) + 1
  BY <1>1
<1>5. commands' # << >>
  BY <1>1
<1>. QED BY <1>1, <1>2, <1>3, <1>4, <1>5

LEMMA ReceiveTracks ==
  ASSUME commands \in Seq(Command), commands # << >>, commands' = Tail(commands)
  PROVE  /\ \A i \in DOMAIN commands' : i + 1 \in DOMAIN commands /\ commands'[i] = commands[i + 1]
         /\ \A i \in TrackCommands' : i \in Nat \ {0} /\ i + 1 \in TrackCommands
         /\ \A i \in DOMAIN commands' : IsTrack(commands'[i]) => i \in TrackCommands'
         /\ TrackCommands' \subseteq DOMAIN commands'
         /\ 1 \in DOMAIN commands /\ commands[1] = Head(commands) /\ Head(commands) \in Command
         /\ 1 \in TrackCommands <=> IsTrack(Head(commands))
         /\ ~IsTrack(Head(commands)) /\ TrackCommands # {} => TrackCommands' # {}
<1>1. /\ Len(commands) \in Nat \ {0} /\ DOMAIN commands = 1..Len(commands)
      /\ DOMAIN commands' = 1..(Len(commands) - 1)
      /\ \A i \in 1..(Len(commands) - 1) : commands'[i] = commands[i + 1]
      /\ commands[1] = Head(commands) /\ Head(commands) \in Command
  OBVIOUS
<1>2. TrackCommands' = {i \in 1..(Len(commands) - 1) : IsTrack(commands'[i])}
  BY <1>1 DEF TrackCommands, IsTrack
<1>3. TrackCommands = {i \in 1..Len(commands) : IsTrack(commands[i])}
  BY <1>1 DEF TrackCommands
<1>. HIDE DEF IsTrack
<1>4. \A i \in 1..(Len(commands) - 1) : i \in Nat \ {0} /\ i + 1 \in 1..Len(commands)
  BY <1>1
<1>5. ASSUME ~IsTrack(Head(commands)), NEW i \in TrackCommands PROVE i - 1 \in TrackCommands'
  <2>1. i \in 1..Len(commands) /\ IsTrack(commands[i]) /\ i # 1
    BY <1>1, <1>3, <1>5
  <2>2. i - 1 \in 1..(Len(commands) - 1) /\ (i - 1) + 1 = i
    BY <1>1, <2>1
  <2>3. commands'[i - 1] = commands[i]
    BY <1>1, <2>2
  <2>. QED BY <1>2, <2>1, <2>2, <2>3
<1>6. 1 \in 1..Len(commands)
  BY <1>1
<1>. QED BY <1>1, <1>2, <1>3, <1>4, <1>5, <1>6

-----------------------------------------------------------------------------
(***************************************************************************)
(* The inductive invariant, and its first part in every step.              *)
(***************************************************************************)
OneSession == MaxValidations <= 1

PacedInv ==
    /\ PartyTypeOK
    /\ IsHeardOnce
    /\ OneOnItsWay
    /\ StartsSilent
    /\ TracksArePlaced

\* What observes the queue, and what of it is shown.
ViewRests == UNCHANGED <<sessionVars, viewVars, queue, children>>

LEMMA HeardRests ==
  ASSUME IsHeardOnce, ViewRests
  PROVE  IsHeardOnce' /\ Shown' = Shown
<1>1. /\ unanswered' = unanswered /\ subscribing' = subscribing /\ observers' = observers
      /\ validations' = validations /\ queue' = queue /\ children' = children
      /\ currentSong' = currentSong /\ songQueue' = songQueue /\ songsPlayed' = songsPlayed
  BY DEF ViewRests, sessionVars, viewVars
<1>2. Shown' = Shown
  BY <1>1 DEF Shown
<1>. QED BY <1>1, <1>2 DEF IsHeardOnce

LEMMA HeardSession ==
  ASSUME PartyTypeOK, IsHeardOnce, OneSession,
         ValidateSession \/ StartPlayer \/ SubscribeToUpdates
  PROVE  IsHeardOnce' /\ children' = children
<1>1. Shown' = Shown
  BY DEF ValidateSession, StartPlayer, SubscribeToUpdates, viewVars, Shown
<1>2. /\ currentSong' = currentSong /\ songQueue' = songQueue /\ songsPlayed' = songsPlayed
      /\ queue' = queue
  BY DEF ValidateSession, StartPlayer, SubscribeToUpdates, viewVars
<1>3. /\ unanswered \in Nat /\ subscribing \in Nat /\ observers \in Nat /\ validations \in Nat
      /\ validations <= 1 /\ children \in Seq(Songs)
  BY PartyAssumption DEF PartyTypeOK, OneSession
<1>4. /\ children' = children
      /\ unanswered' + subscribing' + observers' <= validations'
      /\ observers' = 0 => observers = 0
  <2>1. CASE ValidateSession
    BY <1>3, <2>1 DEF ValidateSession, IsHeardOnce
  <2>2. CASE StartPlayer
    BY <1>3, <2>2 DEF StartPlayer, IsHeardOnce
  <2>3. CASE SubscribeToUpdates
    <3>1. observers = 0
      BY <1>3, <2>3 DEF SubscribeToUpdates, IsHeardOnce
    <3>2. children = << >> /\ queue = << >>
      BY <3>1 DEF IsHeardOnce
    <3>3. children' = children
      BY <2>3, <3>2 DEF SubscribeToUpdates
    <3>. QED BY <1>3, <2>3, <3>1, <3>3 DEF SubscribeToUpdates, IsHeardOnce
  <2>. QED BY <2>1, <2>2, <2>3
<1>. QED BY <1>1, <1>2, <1>4 DEF IsHeardOnce

LEMMA HeardAdded ==
  ASSUME PartyTypeOK, IsHeardOnce, OneSession, Settled, observers > 0,
         NEW song \in Songs, SongIsAdded(song)
  PROVE  IsHeardOnce' /\ children' = <<song>> /\ Shown' = Shown
<1>1. children = << >> /\ observers > 0
  BY DEF SongIsAdded, Settled, OneSession
<1>2. observers = 1
  BY <1>1, PartyAssumption DEF PartyTypeOK, OneSession, IsHeardOnce
<1>3. children' = <<song>>
  BY <1>1, <1>2 DEF SongIsAdded
<1>4. /\ unanswered' = unanswered /\ subscribing' = subscribing /\ observers' = observers
      /\ validations' = validations /\ queue' = Append(queue, song)
      /\ currentSong' = currentSong /\ songQueue' = songQueue /\ songsPlayed' = songsPlayed
  BY DEF SongIsAdded, sessionVars, viewVars
<1>5. Shown' = Shown
  BY <1>4 DEF Shown
<1>6. /\ queue \in Seq(Songs) /\ Shown \in Seq(Songs) /\ songsPlayed \in Nat
      /\ Len(queue) \in Nat /\ Len(Shown) \in Nat
  BY ShownIs DEF PartyTypeOK
<1>7. songsPlayed + Len(Shown) = Len(queue) /\ Shown = SubSeq(queue, songsPlayed + 1, Len(queue))
  <2>1. Shown \o << >> = Shown /\ Len(<< >>) = 0
    BY <1>6
  <2>. QED BY <1>1, <1>6, <2>1 DEF IsHeardOnce
<1>8. \A k \in 1..Len(Shown) : Shown[k] = queue[songsPlayed + k]
  BY <1>6, <1>7, SuffixIs
<1>. DEFINE s == Shown \o <<song>>
            q == Append(queue, song)
<1>9. /\ s \in Seq(Songs) /\ Len(s) = Len(Shown) + 1 /\ s[Len(Shown) + 1] = song
      /\ \A k \in 1..Len(Shown) : s[k] = Shown[k]
  <2>1. <<song>> \in Seq(Songs)
    OBVIOUS
  <2>. QED BY <1>6, <2>1
<1>10. /\ q \in Seq(Songs) /\ Len(q) = Len(queue) + 1 /\ q[Len(queue) + 1] = song
       /\ \A k \in 1..Len(queue) : q[k] = queue[k]
  BY <1>6
<1>. HIDE DEF s, q
<1>11. \A k \in 1..Len(s) : s[k] = q[songsPlayed + k]
  <2>. SUFFICES ASSUME NEW k \in 1..Len(s) PROVE s[k] = q[songsPlayed + k]
    OBVIOUS
  <2>1. CASE k = Len(Shown) + 1
    <3>1. songsPlayed + k = Len(queue) + 1
      BY <1>6, <1>7, <2>1
    <3>. QED BY <1>9, <1>10, <2>1, <3>1
  <2>2. CASE k \in 1..Len(Shown)
    <3>1. songsPlayed + k \in 1..Len(queue)
      BY <1>6, <1>7, <2>2
    <3>. QED BY <1>8, <1>9, <1>10, <2>2, <3>1
  <2>. QED BY <1>6, <1>9, <2>1, <2>2
<1>12. s = SubSeq(q, songsPlayed + 1, Len(q))
  <2>1. songsPlayed + Len(s) = Len(q)
    BY <1>6, <1>7, <1>9, <1>10
  <2>. QED BY <1>6, <1>9, <1>10, <1>11, <2>1, SuffixIs
<1>13. /\ songsPlayed' + Len(Shown') + Len(children') = Len(queue')
       /\ Shown' \o children' = SubSeq(queue', songsPlayed' + 1, Len(queue'))
  <2>1. Len(children') = 1 /\ queue' = q /\ Shown' \o children' = s
    BY <1>3, <1>4, <1>5 DEF s, q
  <2>2. songsPlayed + Len(Shown) + 1 = Len(q)
    BY <1>6, <1>7, <1>10
  <2>. QED BY <1>4, <1>5, <1>12, <2>1, <2>2
<1>14. \A k \in 1..(Len(queue') - 1) : queue'[k] # queue'[k + 1]
  <2>. SUFFICES ASSUME NEW k \in 1..(Len(q) - 1) PROVE q[k] # q[k + 1]
    BY <1>4 DEF q
  <2>1. CASE k = Len(queue)
    <3>1. queue # << >> /\ Last(queue) = queue[k]
      BY <1>6, <1>10, <2>1 DEF Last
    <3>2. queue[k] # song
      BY <3>1 DEF SongIsAdded
    <3>. QED BY <1>6, <1>10, <2>1, <3>2
  <2>2. CASE k \in 1..(Len(queue) - 1)
    <3>1. k \in 1..Len(queue) /\ k + 1 \in 1..Len(queue) /\ queue[k] # queue[k + 1]
      BY <1>6, <2>2 DEF IsHeardOnce
    <3>. QED BY <1>10, <3>1
  <2>. QED BY <1>6, <1>10, <2>1, <2>2
<1>15. observers' # 0
  BY <1>2, <1>4
<1>16. unanswered' + subscribing' + observers' <= validations'
  BY <1>4 DEF IsHeardOnce
<1>17. currentSong' = NoSong => songQueue' = << >>
  BY <1>4 DEF IsHeardOnce
<1>18. IsHeardOnce'
  BY <1>13, <1>14, <1>15, <1>16, <1>17 DEF IsHeardOnce
<1>. QED BY <1>3, <1>5, <1>18

\* The song that was heard of is shown.
LEMMA HeardShown ==
  ASSUME PartyTypeOK, IsHeardOnce, Len(children) <= 1, DidAddSong
  PROVE  /\ IsHeardOnce' /\ children' = << >> /\ observers > 0
         /\ Shown' = Append(Shown, Head(children)) /\ currentSong' # NoSong
         /\ Shown # << >> => currentSong' = currentSong
<1>. DEFINE song == Head(children)
<1>1. /\ children \in Seq(Songs) /\ children # << >> /\ Len(children) = 1 /\ song \in Songs
      /\ children[1] = song
  <2>1. children \in Seq(Songs) /\ children # << >>
    BY DEF DidAddSong, PartyTypeOK
  <2>2. song \in Songs /\ children[1] = song
    BY <2>1
  <2>3. Len(children) \in Nat /\ Len(children) # 0
    BY <2>1
  <2>4. Len(children) = 1
    BY <2>3
  <2>. QED BY <2>1, <2>2, <2>4
<1>2. children = <<song>> /\ children' = << >>
  <2>1. children' = Tail(children) /\ Len(Tail(children)) = 0 /\ Tail(children) \in Seq(Songs)
    BY <1>1 DEF DidAddSong
  <2>. QED BY <1>1, <2>1
<1>3. /\ Shown' = Append(Shown, song) /\ currentSong' # NoSong
      /\ Shown # << >> => currentSong' = currentSong
  BY <1>1, ShowAddedIs DEF IsHeardOnce, DidAddSong
<1>. HIDE DEF song
<1>4. /\ unanswered' = unanswered /\ subscribing' = subscribing /\ observers' = observers
      /\ validations' = validations /\ queue' = queue /\ songsPlayed' = songsPlayed
  BY DEF DidAddSong, sessionVars
<1>5. /\ Shown \in Seq(Songs) /\ Len(Shown) \in Nat /\ songsPlayed \in Nat
  BY ShownIs DEF PartyTypeOK
<1>6. /\ Shown' \o children' = Shown \o children
      /\ Len(Shown') = Len(Shown) + 1
  <2>1. Append(Shown, song) \in Seq(Songs) /\ Append(Shown, song) = Shown \o <<song>>
    BY <1>1, <1>5
  <2>2. Append(Shown, song) \o << >> = Append(Shown, song) /\ Len(Append(Shown, song)) = Len(Shown) + 1
    BY <1>1, <1>5, <2>1
  <2>. QED BY <1>2, <1>3, <2>1, <2>2
<1>7. Len(children') = 0
  BY <1>2
<1>8. songsPlayed + Len(Shown') + Len(children') = Len(queue)
  <2>1. songsPlayed + Len(Shown) + Len(children) = Len(queue)
    BY DEF IsHeardOnce
  <2>. QED BY <1>1, <1>5, <1>6, <1>7, <2>1
<1>9. observers # 0 /\ observers > 0
  BY <1>1 DEF IsHeardOnce, PartyTypeOK
<1>10. IsHeardOnce'
  BY <1>2, <1>3, <1>4, <1>6, <1>8, <1>9 DEF IsHeardOnce
<1>. QED BY <1>2, <1>3, <1>9, <1>10 DEF song

\* The song that is shown has finished.
LEMMA HeardFinished ==
  ASSUME PartyTypeOK, IsHeardOnce, currentSong # NoSong, FinishShown,
         UNCHANGED <<sessionVars, queue, children>>
  PROVE  IsHeardOnce' /\ Shown # << >> /\ Shown' = Tail(Shown)
<1>1. /\ Shown # << >> /\ Shown' = Tail(Shown) /\ songsPlayed' = songsPlayed + 1
      /\ currentSong' = NoSong => songQueue' = << >>
  BY FinishShownIs
<1>2. /\ Shown \in Seq(Songs) /\ Len(Shown) \in Nat /\ songsPlayed \in Nat
      /\ children \in Seq(Songs) /\ queue \in Seq(Songs) /\ Len(children) \in Nat /\ Len(queue) \in Nat
  BY ShownIs DEF PartyTypeOK
<1>. DEFINE s == Shown \o children
            t == Tail(Shown) \o children
<1>3. /\ s \in Seq(Songs) /\ Len(s) = Len(Shown) + Len(children)
      /\ Tail(Shown) \in Seq(Songs) /\ t \in Seq(Songs) /\ Len(t) = Len(Shown) - 1 + Len(children)
      /\ Len(Tail(Shown)) = Len(Shown) - 1
      /\ Len(t) \in Nat /\ Len(s) \in Nat /\ Len(s) = Len(t) + 1
  BY <1>1, <1>2
<1>4. \A k \in 1..Len(t) : t[k] = s[k + 1]
  <2>. SUFFICES ASSUME NEW k \in 1..Len(t) PROVE t[k] = s[k + 1]
    OBVIOUS
  <2>. DEFINE u == Tail(Shown)
  <2>1. /\ u \in Seq(Songs) /\ Len(u) = Len(Shown) - 1
        /\ \A i \in 1..Len(u) : u[i] = Shown[i + 1]
    BY <1>1, <1>2, <1>3
  <2>. HIDE DEF u
  <2>2. t = u \o children
    BY DEF u
  <2>3. CASE k \in 1..Len(u)
    BY <1>2, <2>1, <2>2, <2>3
  <2>4. CASE k > Len(u)
    <3>1. t[k] = children[k - Len(u)]
      BY <1>2, <1>3, <2>1, <2>2, <2>4
    <3>2. s[k + 1] = children[(k + 1) - Len(Shown)]
      BY <1>2, <1>3, <2>1, <2>4
    <3>3. (k + 1) - Len(Shown) = k - Len(u)
      BY <1>2, <2>1
    <3>. QED BY <3>1, <3>2, <3>3
  <2>. QED BY <1>3, <2>1, <2>3, <2>4
<1>5. songsPlayed + Len(s) = Len(queue) /\ s = SubSeq(queue, songsPlayed + 1, Len(queue))
  BY <1>2, <1>3 DEF IsHeardOnce
<1>. HIDE DEF s, t
<1>6. \A k \in 1..Len(s) : s[k] = queue[songsPlayed + k]
  BY <1>2, <1>3, <1>5, SuffixIs
<1>7. \A k \in 1..Len(t) : t[k] = queue[(songsPlayed + 1) + k]
  <2>. SUFFICES ASSUME NEW k \in 1..Len(t) PROVE t[k] = queue[(songsPlayed + 1) + k]
    OBVIOUS
  <2>1. k + 1 \in 1..Len(s) /\ songsPlayed + (k + 1) = (songsPlayed + 1) + k
    BY <1>2, <1>3
  <2>. QED BY <1>4, <1>6, <2>1
<1>8. t = SubSeq(queue, (songsPlayed + 1) + 1, Len(queue))
  <2>1. songsPlayed + 1 \in Nat /\ (songsPlayed + 1) + Len(t) = Len(queue)
    <3>1. Len(t) \in Nat /\ Len(s) = Len(t) + 1
      BY <1>3
    <3>. QED BY <1>2, <1>5, <3>1
  <2>. QED BY <1>2, <1>3, <1>7, <2>1, SuffixIs
<1>9. (songsPlayed + 1) + Len(Tail(Shown)) + Len(children) = Len(queue)
  BY <1>2, <1>3, <1>5
<1>10. /\ unanswered' = unanswered /\ subscribing' = subscribing /\ observers' = observers
       /\ validations' = validations /\ queue' = queue /\ children' = children
  BY DEF sessionVars
<1>. QED BY <1>1, <1>8, <1>9, <1>10 DEF IsHeardOnce, t

-----------------------------------------------------------------------------
(***************************************************************************)
(* The calls, when one is made and when one is handled.                    *)
(***************************************************************************)
NoTrackBeforePlayed(told) ==
    \A i, j \in DOMAIN told : i < j /\ told[j] = Played => told[i] # NoTrack

LEMMA TellIs ==
  ASSUME calls \in Seq(Call), NEW call \in Call, Tell(<<call>>)
  PROVE  /\ Len(calls) \in Nat /\ Len(calls') = Len(calls) + 1 /\ calls'[Len(calls) + 1] = call
         /\ \A i \in 1..Len(calls) : calls'[i] = calls[i]
         /\ ToSet(calls') = ToSet(calls) \cup {call}
         /\ NoTrackBeforePlayed(calls) /\ call # Played => NoTrackBeforePlayed(calls')
<1>1. /\ Len(calls) \in Nat /\ Len(calls') = Len(calls) + 1 /\ calls'[Len(calls) + 1] = call
      /\ \A i \in 1..Len(calls) : calls'[i] = calls[i]
      /\ DOMAIN calls = 1..Len(calls) /\ DOMAIN calls' = 1..(Len(calls) + 1)
  <2>1. <<call>> \in Seq(Call)
    OBVIOUS
  <2>. QED BY <2>1 DEF Tell
<1>2. ToSet(calls') = ToSet(calls) \cup {call}
  <2>1. \A i \in DOMAIN calls' : i \in DOMAIN calls \/ i = Len(calls) + 1
    BY <1>1
  <2>2. Len(calls) + 1 \in DOMAIN calls' /\ \A i \in DOMAIN calls : i \in DOMAIN calls'
    BY <1>1
  <2>. QED BY <1>1, <2>1, <2>2 DEF ToSet
<1>3. ASSUME NoTrackBeforePlayed(calls), call # Played PROVE NoTrackBeforePlayed(calls')
  <2>. SUFFICES ASSUME NEW i \in 1..(Len(calls) + 1), NEW j \in 1..(Len(calls) + 1),
                       i < j, calls'[j] = Played
                PROVE  calls'[i] # NoTrack
    BY <1>1 DEF NoTrackBeforePlayed
  <2>1. j \in 1..Len(calls) /\ i \in 1..Len(calls)
    BY <1>1, <1>3
  <2>. QED BY <1>1, <1>3, <2>1 DEF NoTrackBeforePlayed
<1>. QED BY <1>1, <1>2, <1>3

LEMMA HandledIs ==
  ASSUME calls \in Seq(Call), calls # << >>, calls' = Tail(calls)
  PROVE  /\ Len(calls) \in Nat \ {0} /\ Len(calls') = Len(calls) - 1
         /\ calls[1] = Head(calls) /\ Head(calls) \in Call
         /\ \A i \in 1..(Len(calls) - 1) : calls'[i] = calls[i + 1]
         /\ ToSet(calls) = ToSet(calls') \cup {Head(calls)}
         /\ NoTrackBeforePlayed(calls) =>
                /\ NoTrackBeforePlayed(calls')
                /\ Played \in ToSet(calls') => Head(calls) # NoTrack
<1>1. /\ Len(calls) \in Nat \ {0} /\ Len(calls') = Len(calls) - 1
      /\ calls[1] = Head(calls) /\ Head(calls) \in Call
      /\ \A i \in 1..(Len(calls) - 1) : calls'[i] = calls[i + 1]
      /\ DOMAIN calls = 1..Len(calls) /\ DOMAIN calls' = 1..(Len(calls) - 1)
  OBVIOUS
<1>2. \A i \in DOMAIN calls' : i + 1 \in DOMAIN calls /\ 1 < i + 1
  BY <1>1
<1>3. \A i \in DOMAIN calls : i = 1 \/ (i - 1 \in DOMAIN calls' /\ (i - 1) + 1 = i)
  BY <1>1
<1>4. 1 \in DOMAIN calls
  BY <1>1
<1>5. ToSet(calls) = ToSet(calls') \cup {Head(calls)}
  <2>1. ASSUME NEW i \in DOMAIN calls PROVE calls[i] \in ToSet(calls') \cup {Head(calls)}
    <3>1. CASE i = 1
      BY <1>1, <3>1
    <3>2. CASE i # 1
      <4>1. i - 1 \in DOMAIN calls' /\ calls[i] = calls'[i - 1]
        BY <1>1, <1>3, <3>2
      <4>. QED BY <4>1 DEF ToSet
    <3>. QED BY <3>1, <3>2
  <2>2. ASSUME NEW i \in DOMAIN calls' PROVE calls'[i] \in ToSet(calls)
    <3>1. i + 1 \in DOMAIN calls /\ calls'[i] = calls[i + 1]
      BY <1>1, <1>2
    <3>. QED BY <3>1 DEF ToSet
  <2>3. Head(calls) \in ToSet(calls)
    BY <1>1, <1>4 DEF ToSet
  <2>. QED BY <2>1, <2>2, <2>3 DEF ToSet
<1>6. ASSUME NoTrackBeforePlayed(calls) PROVE NoTrackBeforePlayed(calls')
  <2>. SUFFICES ASSUME NEW i \in DOMAIN calls', NEW j \in DOMAIN calls',
                       i < j, calls'[j] = Played
                PROVE  calls'[i] # NoTrack
    BY DEF NoTrackBeforePlayed
  <2>1. i + 1 \in DOMAIN calls /\ j + 1 \in DOMAIN calls /\ i + 1 < j + 1
    BY <1>1, <1>2
  <2>2. calls'[i] = calls[i + 1] /\ calls'[j] = calls[j + 1]
    BY <1>1
  <2>. QED BY <1>6, <2>1, <2>2 DEF NoTrackBeforePlayed
<1>7. ASSUME NoTrackBeforePlayed(calls), Played \in ToSet(calls') PROVE Head(calls) # NoTrack
  <2>1. PICK j \in DOMAIN calls' : calls'[j] = Played
    BY <1>7 DEF ToSet
  <2>2. j + 1 \in DOMAIN calls /\ 1 < j + 1 /\ calls[j + 1] = Played
    BY <1>1, <1>2, <2>1
  <2>. QED BY <1>1, <1>4, <1>7, <2>2 DEF NoTrackBeforePlayed
<1>. QED BY <1>1, <1>5, <1>6, <1>7

-----------------------------------------------------------------------------
(***************************************************************************)
(* What becomes of the places when the controller and the host act.        *)
(***************************************************************************)
LEMMA AdvancePlaced ==
  ASSUME PartyTypeOK, Advance, Shown # << >>, Shown' = Shown,
         NEW coming \in BOOLEAN, NEW sent \in BOOLEAN, NEW exact \in BOOLEAN,
         currentTrack = NoSong => ~coming /\ ~sent,
         ArePlaced(calls, Tracks, Shown, coming, sent, exact)
  PROVE  ArePlaced(calls', Tracks', Shown', coming, sent, exact)
<1>1. /\ currentTrack \in MaybeSongs /\ nextTracks \in Seq(Songs) /\ calls \in Seq(Call)
      /\ nextTracks # << >> => currentTrack # NoSong
  BY DEF PartyTypeOK, SpotifyTypeOK
<1>2. currentTrack' \in MaybeSongs /\ Metadata(currentTrack') \in Call /\ Tell(<<Metadata(currentTrack')>>)
  BY AdvanceType, TellType, <1>1 DEF Advance, PartyTypeOK
<1>3. /\ Len(calls) \in Nat /\ Len(calls') = Len(calls) + 1
      /\ calls'[Len(calls) + 1] = Metadata(currentTrack')
      /\ \A i \in 1..Len(calls) : calls'[i] = calls[i]
  BY <1>1, <1>2, TellIs
<1>4. Shown \in Seq(Songs) /\ Tracks \in Seq(Songs) /\ Len(Shown) \in Nat \ {0} /\ Len(Tracks) \in Nat
  BY ShownIs
<1>5. HavePlaces(Len(calls), calls, Len(Tracks), Tracks, Len(Shown), Shown, coming, sent, exact)
  BY DEF ArePlaced
<1>6. Tracks' = FirstAnd(currentTrack', nextTracks')
  BY DEF Tracks, FirstAnd
<1>7. CASE currentTrack = NoSong
  <2>1. nextTracks = << >> /\ currentTrack' = NoSong /\ nextTracks' = << >>
    BY <1>1, <1>7 DEF Advance
  <2>2. Tracks = << >> /\ Tracks' = << >>
    BY <1>7, <2>1 DEF Tracks
  <2>3. Len(Tracks) = 0 /\ Len(Tracks') = 0 /\ Tracks' = Tracks
    BY <2>2
  <2>4. calls'[Len(calls) + 1] = NoTrack
    BY <1>3, <2>1 DEF NoTrack
  <2>5. HavePlaces(Len(calls), calls, 0, Tracks, Len(Shown), Shown, FALSE, FALSE, exact)
    BY <1>5, <1>7, <2>3
  <2>6. HavePlaces(Len(calls) + 1, calls', 0, Tracks, Len(Shown), Shown, FALSE, FALSE, exact)
    BY <1>3, <1>4, <2>4, <2>5, PlaceNothing
  <2>7. coming = FALSE /\ sent = FALSE
    BY <1>7
  <2>. QED BY <1>3, <2>3, <2>6, <2>7 DEF ArePlaced
<1>8. CASE currentTrack # NoSong
  <2>1. /\ Len(Tracks) = 1 + Len(nextTracks) /\ Len(nextTracks) \in Nat
        /\ \A k \in 1..Len(nextTracks) : Tracks[k + 1] = nextTracks[k]
    <3>1. Tracks = FirstAnd(currentTrack, nextTracks)
      BY ShownIs
    <3>. QED BY <1>1, <1>8, <3>1, FirstAndIs
  <2>2. CASE nextTracks = << >>
    <3>1. currentTrack' = NoSong /\ nextTracks' = << >>
      BY <2>2 DEF Advance
    <3>2. Tracks' = << >> /\ Len(Tracks') = 0 /\ Len(Tracks) = 1
      BY <2>1, <2>2, <3>1 DEF Tracks
    <3>3. calls'[Len(calls) + 1] = NoTrack
      BY <1>3, <3>1 DEF NoTrack
    <3>4. /\ Len(Tracks) \in Nat \ {0} /\ Len(Tracks) - 1 = 0
          /\ \A k \in 1..(Len(Tracks) - 1) : FALSE
      BY <3>2
    <3>5. HavePlaces(Len(calls) + 1, calls', Len(Tracks) - 1, Tracks', Len(Shown), Shown,
                     coming, sent, exact)
      BY <1>3, <1>4, <1>5, <3>2, <3>3, <3>4, PlaceAdvance
    <3>. QED BY <1>3, <3>2, <3>4, <3>5 DEF ArePlaced
  <2>3. CASE nextTracks # << >>
    <3>1. currentTrack' = Head(nextTracks) /\ nextTracks' = Tail(nextTracks)
      BY <2>3 DEF Advance
    <3>2. /\ Head(nextTracks) = nextTracks[1] /\ nextTracks[1] \in Songs
          /\ Len(nextTracks) > 0 /\ Tail(nextTracks) \in Seq(Songs)
          /\ Len(Tail(nextTracks)) = Len(nextTracks) - 1
          /\ \A k \in 1..(Len(nextTracks) - 1) : Tail(nextTracks)[k] = nextTracks[k + 1]
      BY <1>1, <2>3
    <3>3. currentTrack' # NoSong /\ currentTrack' \in MaybeSongs
      BY <1>2, <3>1, <3>2, SpotifyAssumption
    <3>4. /\ Len(Tracks') = Len(nextTracks) /\ Tracks'[1] = nextTracks[1]
          /\ \A k \in 1..(Len(nextTracks) - 1) : Tracks'[k + 1] = nextTracks[k + 1]
      <4>. DEFINE s == currentTrack'
                  q == nextTracks'
      <4>1. s \in MaybeSongs /\ q \in Seq(Songs) /\ s # NoSong /\ Tracks' = FirstAnd(s, q)
        BY <1>6, <3>1, <3>2, <3>3
      <4>2. /\ s = nextTracks[1] /\ Len(q) = Len(nextTracks) - 1
            /\ \A k \in 1..(Len(nextTracks) - 1) : q[k] = nextTracks[k + 1]
        BY <3>1, <3>2
      <4>. HIDE DEF s, q
      <4>3. /\ Len(FirstAnd(s, q)) = 1 + Len(q) /\ FirstAnd(s, q)[1] = s
            /\ \A k \in 1..Len(q) : FirstAnd(s, q)[k + 1] = q[k]
        BY <4>1, FirstAndIs
      <4>. QED BY <2>1, <4>1, <4>2, <4>3
    <3>5. \A k \in 1..(Len(Tracks) - 1) : Tracks'[k] = Tracks[k + 1]
      <4>. SUFFICES ASSUME NEW k \in 1..(Len(Tracks) - 1) PROVE Tracks'[k] = Tracks[k + 1]
        OBVIOUS
      <4>1. k \in 1..Len(nextTracks) /\ Tracks[k + 1] = nextTracks[k]
        BY <2>1
      <4>2. CASE k = 1
        BY <3>4, <4>1, <4>2
      <4>3. CASE k > 1
        <5>1. k - 1 \in 1..(Len(nextTracks) - 1) /\ (k - 1) + 1 = k
          BY <2>1, <4>1, <4>3
        <5>2. Tracks'[(k - 1) + 1] = nextTracks[(k - 1) + 1]
          BY <3>4, <5>1
        <5>. QED BY <4>1, <5>1, <5>2
      <4>. QED BY <4>1, <4>2, <4>3
    <3>6. /\ Len(Tracks) \in Nat \ {0} /\ Len(Tracks) > 1 /\ Len(Tracks') = Len(Tracks) - 1
          /\ Tracks[2] \in Songs /\ calls'[Len(calls) + 1] = Metadata(Tracks[2])
      <4>1. 1 \in 1..Len(nextTracks) /\ 1 + 1 = 2
        BY <2>1, <3>2
      <4>2. Tracks[2] = nextTracks[1]
        BY <2>1, <4>1
      <4>. QED BY <1>3, <2>1, <3>1, <3>2, <3>4, <4>2
    <3>7. HavePlaces(Len(calls) + 1, calls', Len(Tracks) - 1, Tracks', Len(Shown), Shown,
                     coming, sent, exact)
      <4>. DEFINE n == Len(calls)
                  m == Len(Tracks)
                  l == Len(Shown)
                  have2 == Tracks'
                  told2 == calls'
      <4>1. n \in Nat /\ m \in Nat \ {0} /\ l \in Nat \ {0} /\ m > 1
        BY <1>3, <1>4, <3>6
      <4>2. /\ \A i \in 1..n : told2[i] = calls[i]
            /\ \A k \in 1..(m - 1) : have2[k] = Tracks[k + 1]
            /\ Tracks[2] \in Songs /\ told2[n + 1] = Metadata(Tracks[2])
        BY <1>3, <3>5, <3>6
      <4>3. HavePlaces(n, calls, m, Tracks, l, Shown, coming, sent, exact)
        BY <1>5
      <4>. HIDE DEF n, m, l, have2, told2
      <4>4. HavePlaces(n + 1, told2, m - 1, have2, l, Shown, coming, sent, exact)
        BY <4>1, <4>2, <4>3, PlaceAdvance
      <4>. QED BY <4>4 DEF n, m, l, have2, told2
    <3>. QED BY <1>3, <3>6, <3>7 DEF ArePlaced
  <2>. QED BY <2>2, <2>3
<1>. QED BY <1>7, <1>8

LEMMA FollowPlaced ==
  ASSUME PartyTypeOK, NEW track \in Songs, Follow(track), Shown # << >>, Shown' = Shown,
         Last(Shown) = track, NEW exact \in BOOLEAN,
         ArePlaced(calls, Tracks, Shown, FALSE, TRUE, exact)
  PROVE  ArePlaced(calls', Tracks', Shown', FALSE, FALSE, exact)
<1>1. /\ currentTrack \in MaybeSongs /\ nextTracks \in Seq(Songs) /\ calls \in Seq(Call)
      /\ nextTracks # << >> => currentTrack # NoSong
  BY DEF PartyTypeOK, SpotifyTypeOK
<1>2. /\ Shown \in Seq(Songs) /\ Tracks \in Seq(Songs) /\ Len(Shown) \in Nat \ {0}
      /\ Len(Tracks) \in Nat /\ Shown[Len(Shown)] = track
  <2>1. Shown \in Seq(Songs) /\ Tracks \in Seq(Songs)
    BY ShownIs
  <2>. QED BY <2>1 DEF Last
<1>3. /\ Tracks' = Append(Tracks, track)
      /\ currentTrack' = Tracks'[1] /\ currentTrack' \in Songs
  <2>1. CASE currentTrack = NoSong
    <3>1. nextTracks = << >> /\ currentTrack' = track /\ nextTracks' = << >>
      BY <1>1, <2>1 DEF Follow
    <3>2. Tracks = << >> /\ Tracks' = <<track>>
      BY <2>1, <3>1, SpotifyAssumption DEF Tracks
    <3>. QED BY <3>1, <3>2
  <2>2. CASE currentTrack # NoSong
    <3>1. currentTrack' = currentTrack /\ nextTracks' = Append(nextTracks, track)
      BY <2>2 DEF Follow
    <3>2. currentTrack \in Songs /\ <<currentTrack>> \in Seq(Songs)
      BY <1>1, <2>2 DEF MaybeSongs
    <3>3. Tracks = <<currentTrack>> \o nextTracks /\ Tracks' = <<currentTrack>> \o Append(nextTracks, track)
      BY <2>2, <3>1 DEF Tracks
    <3>4. <<currentTrack>> \o Append(nextTracks, track) = Append(<<currentTrack>> \o nextTracks, track)
      BY <1>1, <3>2
    <3>5. (<<currentTrack>> \o Append(nextTracks, track))[1] = currentTrack
      <4>1. Append(nextTracks, track) \in Seq(Songs)
        BY <1>1
      <4>. QED BY <3>2, <4>1
    <3>. QED BY <3>1, <3>2, <3>3, <3>4, <3>5
  <2>. QED BY <2>1, <2>2
<1>4. /\ Len(Tracks') = Len(Tracks) + 1 /\ Tracks'[Len(Tracks) + 1] = track
      /\ \A k \in 1..Len(Tracks) : Tracks'[k] = Tracks[k]
  BY <1>2, <1>3
<1>5. /\ Len(calls) \in Nat /\ Len(calls') = Len(calls) + 1
      /\ calls'[Len(calls) + 1] = Metadata(currentTrack')
      /\ \A i \in 1..Len(calls) : calls'[i] = calls[i]
  <2>1. Metadata(currentTrack') \in Call
    BY <1>3, CallsDiffer
  <2>. QED BY <1>1, <2>1, TellIs DEF Follow
<1>6. HavePlaces(Len(calls) + 1, calls', Len(Tracks) + 1, Tracks', Len(Shown), Shown,
                 FALSE, FALSE, exact)
  <2>1. HavePlaces(Len(calls), calls, Len(Tracks), Tracks, Len(Shown), Shown, FALSE, TRUE, exact)
    BY DEF ArePlaced
  <2>. DEFINE n == Len(calls)
              m == Len(Tracks)
              l == Len(Shown)
              have2 == Tracks'
              told2 == calls'
  <2>2. n \in Nat /\ m \in Nat /\ l \in Nat \ {0}
    BY <1>2, <1>5
  <2>3. /\ Extends(n, calls, told2) /\ Extends(m, Tracks, have2)
        /\ have2[m + 1] = Shown[l] /\ have2[1] \in Songs /\ told2[n + 1] = Metadata(have2[1])
    BY <1>2, <1>3, <1>4, <1>5 DEF Extends
  <2>4. HavePlaces(n, calls, m, Tracks, l, Shown, FALSE, TRUE, exact)
    BY <2>1
  <2>. HIDE DEF n, m, l, have2, told2
  <2>5. HavePlaces(n + 1, told2, m + 1, have2, l, Shown, FALSE, FALSE, exact)
    BY <2>2, <2>3, <2>4, PlaceFollow
  <2>. QED BY <2>5 DEF n, m, l, have2, told2
<1>. QED BY <1>4, <1>5, <1>6 DEF ArePlaced

-----------------------------------------------------------------------------
(***************************************************************************)
(* The other parts of the invariant in each step: a song that comes.       *)
(***************************************************************************)
LEMMA NoCommand == commands = << >> => TrackCommands = {}
BY DEF TrackCommands

LEMMA SetPlayingIs ==
  \A on \in BOOLEAN : /\ SetPlaying(on) \in Command /\ ~IsTrack(SetPlaying(on))
                      /\ SetPlaying(on) # SkipNext
                      /\ SetPlaying(on).do \notin {"playURI", "queueURI"}
BY DEF SetPlaying, IsTrack, Command, SkipNext

LEMMA TrackIs ==
  \A song \in Songs :
      /\ PlayURI(song) \in Command /\ IsTrack(PlayURI(song)) /\ PlayURI(song).do = "playURI"
      /\ PlayURI(song).track = song
      /\ QueueURI(song) \in Command /\ IsTrack(QueueURI(song)) /\ QueueURI(song).do = "queueURI"
      /\ QueueURI(song).track = song
      /\ PlayURI(song) # SkipNext /\ QueueURI(song) # SkipNext
BY DEF PlayURI, QueueURI, IsTrack, Command, SkipNext

LEMMA AddedParts ==
  ASSUME PacedInv, OneSession, Settled, observers > 0, NEW song \in Songs, SongIsAdded(song)
  PROVE  OneOnItsWay' /\ StartsSilent' /\ TracksArePlaced'
<1>1. commands = << >> /\ calls = << >> /\ children = << >> /\ TrackCommands = {}
  BY NoCommand DEF SongIsAdded, Settled, OneSession
<1>2. /\ gotFirstTrack' = gotFirstTrack /\ commands' = << >> /\ calls' = << >>
      /\ currentTrack' = currentTrack /\ nextTracks' = nextTracks
      /\ isPlaying' = isPlaying /\ errors' = errors
  BY <1>1 DEF SongIsAdded, spotifyVars, controllerVars
<1>3. children' = <<song>> /\ Shown' = Shown
  BY HeardAdded DEF PacedInv
<1>4. TrackCommands' = {} /\ Tracks' = Tracks /\ Counted' = Counted
  BY <1>1, <1>2 DEF TrackCommands, Tracks, Counted
<1>5. DOMAIN commands = {} /\ DOMAIN calls = {} /\ ToSet(calls) = {} /\ Len(calls) = 0
  BY <1>1 DEF ToSet
<1>6. OneOnItsWay'
  <2>1. Len(<<song>>) = 1
    OBVIOUS
  <2>2. Played \notin ToSet(calls')
    BY <1>1, <1>2, <1>5
  <2>. QED BY <1>1, <1>2, <1>3, <1>4, <1>5, <2>1, <2>2 DEF OneOnItsWay
<1>7. StartsSilent'
  BY <1>1, <1>2, <1>4, <1>5 DEF StartsSilent, PacedInv
<1>8. TracksArePlaced'
  <2>1. CASE Counted
    <3>1. Shown # << >> /\ ArePlaced(calls, Tracks, Shown, FALSE, FALSE, errors = 0)
      <4>1. (children # << >>) = FALSE /\ (TrackCommands # {}) = FALSE
        BY <1>1
      <4>. QED BY <2>1, <4>1 DEF PacedInv, TracksArePlaced
    <3>2. Shown \in Seq(Songs) /\ Tracks \in Seq(Songs) /\ Len(Shown) \in Nat \ {0} /\ Len(Tracks) \in Nat
      <4>1. Shown \in Seq(Songs) /\ Tracks \in Seq(Songs)
        BY ShownIs DEF PacedInv
      <4>. QED BY <3>1, <4>1
    <3>3. HavePlaces(0, calls, Len(Tracks), Tracks, Len(Shown), Shown, FALSE, FALSE, errors = 0)
      BY <1>5, <3>1 DEF ArePlaced
    <3>4. HavePlaces(0, calls, Len(Tracks), Tracks, Len(Shown), Shown, TRUE, FALSE, errors = 0)
      BY <3>2, <3>3, PlaceComing
    <3>5. ArePlaced(calls, Tracks, Shown, TRUE, FALSE, errors = 0)
      BY <1>5, <3>4 DEF ArePlaced
    <3>6. (children' # << >>) = TRUE /\ (TrackCommands' # {}) = FALSE
      BY <1>3, <1>4
    <3>7. ArePlaced(calls', Tracks', Shown', children' # << >>, TrackCommands' # {}, errors' = 0)
      BY <1>1, <1>2, <1>3, <1>4, <3>5, <3>6
    <3>. QED BY <1>1, <1>2, <1>3, <1>4, <1>5, <2>1, <3>1, <3>7 DEF TracksArePlaced
  <2>2. CASE ~Counted
    BY <1>1, <1>2, <1>3, <1>4, <1>5, <2>2 DEF PacedInv, TracksArePlaced
  <2>. QED BY <2>1, <2>2
<1>. QED BY <1>6, <1>7, <1>8

LEMMA ShownParts ==
  ASSUME PacedInv, OneSession, DidAddSong
  PROVE  OneOnItsWay' /\ StartsSilent' /\ TracksArePlaced'
<1>. DEFINE song == Head(children)
            cmd == IF gotFirstTrack THEN QueueURI(song) ELSE PlayURI(song)
<1>1. children # << >> /\ song \in Songs /\ Len(children) <= 1
  BY DEF DidAddSong, PacedInv, PartyTypeOK, OneOnItsWay
<1>2. /\ TrackCommands = {} /\ Played \notin ToSet(calls)
      /\ \A i \in DOMAIN commands : commands[i] # SkipNext
  BY <1>1 DEF PacedInv, OneOnItsWay
<1>3. children' = << >> /\ Shown' = Append(Shown, song)
  BY <1>1, HeardShown DEF PacedInv
<1>4. /\ gotFirstTrack' = gotFirstTrack /\ calls' = calls
      /\ currentTrack' = currentTrack /\ nextTracks' = nextTracks
      /\ isPlaying' = isPlaying /\ errors' = errors
  BY DEF DidAddSong, controllerVars
<1>5. Tracks' = Tracks /\ Counted' = Counted /\ (Counted <=> gotFirstTrack)
  BY <1>2, <1>4 DEF Tracks, Counted
<1>6. commands \in Seq(Command) /\ Len(commands) \in Nat /\ gotFirstTrack \in BOOLEAN
  BY DEF PacedInv, PartyTypeOK, SpotifyTypeOK
<1>7. /\ cmd \in Command /\ IsTrack(cmd) /\ cmd.track = song /\ cmd # SkipNext
      /\ gotFirstTrack => cmd.do = "queueURI"
      /\ ~gotFirstTrack => cmd.do = "playURI"
      /\ Send(cmd)
  BY <1>1, TrackIs DEF DidAddSong, Enqueue
<1>. HIDE DEF song, cmd
<1>8. /\ \A i \in DOMAIN commands' : i \in DOMAIN commands \/ commands'[i] = cmd
      /\ \A i \in DOMAIN commands : commands'[i] = commands[i]
      /\ commands' # << >>
      /\ TrackCommands' = {Len(commands) + 1} /\ commands'[Len(commands) + 1] = cmd
  BY <1>2, <1>6, <1>7, SendTracks
<1>9. Shown \in Seq(Songs) /\ Tracks \in Seq(Songs) /\ Len(Shown) \in Nat /\ Len(Tracks) \in Nat
      /\ Len(calls) \in Nat
  BY ShownIs DEF PacedInv, PartyTypeOK, SpotifyTypeOK
<1>10. /\ Len(Shown') = Len(Shown) + 1 /\ Shown' # << >> /\ Last(Shown') = song
       /\ \A k \in 1..Len(Shown) : Shown'[k] = Shown[k]
  <2>. DEFINE s == Append(Shown, song)
  <2>1. /\ Len(s) = Len(Shown) + 1 /\ s # << >> /\ s[Len(Shown) + 1] = song
        /\ \A k \in 1..Len(Shown) : s[k] = Shown[k]
    BY <1>1, <1>9
  <2>. QED BY <1>3, <2>1 DEF Last
<1>11. OneOnItsWay'
  <2>1. Len(children') = 0
    BY <1>3
  <2>2. \A i \in DOMAIN commands' : commands'[i] # SkipNext
    BY <1>2, <1>7, <1>8
  <2>. QED BY <1>2, <1>3, <1>4, <1>7, <1>8, <1>10, <2>1, <2>2 DEF OneOnItsWay
<1>12. StartsSilent'
  <2>1. CASE Counted
    <3>1. \A i \in DOMAIN commands : commands[i].do # "playURI"
      BY <2>1 DEF PacedInv, StartsSilent
    <3>. QED BY <1>5, <1>7, <1>8, <2>1, <3>1 DEF StartsSilent
  <2>2. CASE ~Counted
    <3>1. /\ nextTracks = << >> /\ calls = << >> /\ ~isPlaying
          /\ \A i \in DOMAIN commands : commands[i].do # "queueURI"
          /\ currentTrack # NoSong =>
                \A i \in DOMAIN commands :
                    commands[i] = SetPlaying(FALSE) \/ commands[i].do = "playURI"
      BY <1>1, <2>2 DEF PacedInv, StartsSilent
    <3>2. \A i \in DOMAIN commands' : commands'[i].do # "queueURI"
      BY <1>5, <1>7, <1>8, <2>2, <3>1
    <3>3. currentTrack # NoSong =>
              \A i \in DOMAIN commands' :
                  commands'[i] = SetPlaying(FALSE) \/ commands'[i].do = "playURI"
      BY <1>5, <1>7, <1>8, <2>2, <3>1
    <3>4. \A i \in DOMAIN calls : FALSE
      BY <3>1
    <3>. QED BY <1>4, <1>5, <2>2, <3>1, <3>2, <3>3, <3>4 DEF StartsSilent
  <2>. QED BY <2>1, <2>2
<1>13. TracksArePlaced'
  <2>1. (children' # << >>) = FALSE /\ (TrackCommands' # {}) = TRUE
    BY <1>3, <1>8
  <2>2. CASE Counted
    <3>1. Shown # << >> /\ ArePlaced(calls, Tracks, Shown, TRUE, FALSE, errors = 0)
      <4>1. (children # << >>) = TRUE /\ (TrackCommands # {}) = FALSE
        BY <1>1, <1>2
      <4>. QED BY <2>2, <4>1 DEF PacedInv, TracksArePlaced
    <3>2. HavePlaces(Len(calls), calls, Len(Tracks), Tracks, Len(Shown), Shown, TRUE, FALSE, errors = 0)
      BY <3>1 DEF ArePlaced
    <3>. DEFINE n == Len(calls)
                m == Len(Tracks)
                l == Len(Shown)
                s == Shown'
    <3>3. /\ n \in Nat /\ m \in Nat /\ l \in Nat \ {0} /\ Extends(l, Shown, s)
          /\ Len(s) = l + 1
      BY <1>9, <1>10, <3>1 DEF Extends
    <3>4. HavePlaces(n, calls, m, Tracks, l, Shown, TRUE, FALSE, errors = 0)
      BY <3>2
    <3>. DEFINE exact == errors = 0
    <3>0. exact \in BOOLEAN
      OBVIOUS
    <3>. HIDE DEF n, m, l, s
    <3>5. HavePlaces(n, calls, m, Tracks, l + 1, s, FALSE, TRUE, errors = 0)
      BY <3>0, <3>3, <3>4, PlaceAdd
    <3>6. ArePlaced(calls, Tracks, s, FALSE, TRUE, errors = 0)
      BY <3>3, <3>5 DEF ArePlaced, n, m
    <3>7. ArePlaced(calls', Tracks', Shown', children' # << >>, TrackCommands' # {}, errors' = 0)
      BY <1>4, <1>5, <2>1, <3>6 DEF s
    <3>. QED BY <1>4, <1>5, <1>10, <2>2, <3>7 DEF TracksArePlaced, PacedInv
  <2>3. CASE ~Counted
    <3>1. errors = 0 => Len(Shown) = 0
      BY <1>2, <2>3 DEF PacedInv, TracksArePlaced
    <3>2. errors' = 0 => Len(Shown') = 1
      BY <1>4, <1>10, <3>1
    <3>. QED BY <1>4, <1>5, <2>1, <2>3, <3>2 DEF TracksArePlaced, PacedInv
  <2>. QED BY <2>2, <2>3
<1>. QED BY <1>11, <1>12, <1>13

\* Play and pause.
LEMMA PlayPauseParts ==
  ASSUME PacedInv, TapPlayPause
  PROVE  OneOnItsWay' /\ StartsSilent' /\ TracksArePlaced'
<1>1. PICK on \in BOOLEAN : Send(SetPlaying(on)) /\ (on => gotFirstTrack) /\ (~on => isPlaying)
  BY DEF TapPlayPause, Play, Pause
<1>2. /\ gotFirstTrack' = gotFirstTrack /\ calls' = calls /\ children' = children
      /\ currentTrack' = currentTrack /\ nextTracks' = nextTracks
      /\ isPlaying' = isPlaying /\ errors' = errors
      /\ currentSong' = currentSong /\ songQueue' = songQueue
  BY DEF TapPlayPause, controllerVars, viewVars
<1>3. Tracks' = Tracks /\ Counted' = Counted /\ Shown' = Shown
  BY <1>2 DEF Tracks, Counted, Shown
<1>. DEFINE cmd == SetPlaying(on)
<1>4. /\ cmd \in Command /\ ~IsTrack(cmd) /\ cmd # SkipNext
      /\ cmd.do \notin {"playURI", "queueURI"} /\ (~on => cmd = SetPlaying(FALSE))
  BY SetPlayingIs
<1>5. commands \in Seq(Command) /\ Send(cmd)
  BY <1>1 DEF PacedInv, PartyTypeOK, SpotifyTypeOK
<1>. HIDE DEF cmd
<1>6. /\ \A i \in DOMAIN commands' : i \in DOMAIN commands \/ commands'[i] = cmd
      /\ \A i \in DOMAIN commands : commands'[i] = commands[i]
      /\ commands' # << >> /\ TrackCommands' = TrackCommands
  BY <1>4, <1>5, SendTracks
<1>7. OneOnItsWay'
  <2>1. \A i \in TrackCommands : i \in DOMAIN commands
    BY DEF TrackCommands
  <2>. QED BY <1>2, <1>3, <1>4, <1>6, <2>1 DEF OneOnItsWay, PacedInv
<1>8. StartsSilent'
  <2>1. CASE Counted
    <3>1. \A i \in DOMAIN commands : commands[i].do # "playURI"
      BY <2>1 DEF PacedInv, StartsSilent
    <3>. QED BY <1>3, <1>4, <1>6, <2>1, <3>1 DEF StartsSilent
  <2>2. CASE ~Counted
    <3>1. cmd = SetPlaying(FALSE)
      BY <1>1, <1>4, <2>2 DEF Counted
    <3>2. /\ nextTracks = << >> /\ \A i \in DOMAIN calls : calls[i] = Metadata(NoSong)
          /\ \A i \in DOMAIN commands : commands[i].do # "queueURI"
          /\ currentTrack # NoSong =>
                \A i \in DOMAIN commands :
                    commands[i] = SetPlaying(FALSE) \/ commands[i].do = "playURI"
          /\ children # << >> \/ TrackCommands # {} => calls = << >> /\ ~isPlaying
      BY <2>2 DEF PacedInv, StartsSilent
    <3>3. \A i \in DOMAIN commands' : commands'[i].do # "queueURI"
      BY <1>4, <1>6, <3>2
    <3>4. currentTrack # NoSong =>
              \A i \in DOMAIN commands' :
                  commands'[i] = SetPlaying(FALSE) \/ commands'[i].do = "playURI"
      BY <1>6, <3>1, <3>2
    <3>. QED BY <1>2, <1>3, <1>6, <2>2, <3>2, <3>3, <3>4 DEF StartsSilent
  <2>. QED BY <2>1, <2>2
<1>9. TracksArePlaced'
  BY <1>2, <1>3, <1>6 DEF PacedInv, TracksArePlaced
<1>. QED BY <1>7, <1>8, <1>9

-----------------------------------------------------------------------------
(***************************************************************************)
(* The controller receives a command.                                      *)
(***************************************************************************)
LEMMA ReceiveTrack ==
  ASSUME PacedInv, commands # << >>, commands' = Tail(commands), IsTrack(Head(commands)),
         children' = children
  PROVE  /\ TrackCommands # {} /\ TrackCommands' = {} /\ children = << >>
         /\ Head(commands).track \in Songs
         /\ Shown # << >> /\ Head(commands).track = Last(Shown)
         /\ \A i \in DOMAIN commands' : commands'[i].do \notin {"playURI", "queueURI"}
<1>1. commands \in Seq(Command)
  BY DEF PacedInv, PartyTypeOK, SpotifyTypeOK
<1>2. 1 \in TrackCommands /\ commands[1] = Head(commands) /\ Head(commands) \in Command
  BY <1>1, ReceiveTracks
<1>3. \A i \in TrackCommands : i = 1
  BY <1>2 DEF PacedInv, OneOnItsWay
<1>4. TrackCommands' = {}
  <2>1. \A i \in TrackCommands' : i \in Nat \ {0} /\ i + 1 \in TrackCommands
    BY <1>1, ReceiveTracks
  <2>. QED BY <1>3, <2>1
<1>5. \A i \in DOMAIN commands' : ~IsTrack(commands'[i])
  BY <1>1, <1>4, ReceiveTracks
<1>6. Head(commands).track \in Songs
  BY <1>2 DEF IsTrack, Command
<1>7. Shown # << >> /\ Head(commands).track = Last(Shown) /\ children = << >>
  BY <1>2 DEF PacedInv, OneOnItsWay
<1>. QED BY <1>2, <1>4, <1>5, <1>6, <1>7 DEF IsTrack

LEMMA ReceivePlay ==
  ASSUME PacedInv, Receive, ViewRests, Head(commands).do = "playURI",
         Replace(Head(commands).track)
  PROVE  OneOnItsWay' /\ StartsSilent' /\ TracksArePlaced'
<1>. DEFINE track == Head(commands).track
<1>1. /\ commands # << >> /\ commands' = Tail(commands) /\ IsTrack(Head(commands))
      /\ children' = children
  BY DEF Receive, IsTrack, ViewRests
<1>2. /\ TrackCommands # {} /\ TrackCommands' = {} /\ children' = << >>
      /\ track \in Songs /\ Shown # << >> /\ track = Last(Shown)
      /\ \A i \in DOMAIN commands' : commands'[i].do \notin {"playURI", "queueURI"}
  BY <1>1, ReceiveTrack
<1>3. ~Counted
  <2>1. commands \in Seq(Command)
    BY DEF PacedInv, PartyTypeOK, SpotifyTypeOK
  <2>2. 1 \in DOMAIN commands /\ commands[1].do = "playURI"
    BY <1>1, <2>1, ReceiveTracks
  <2>. QED BY <2>2 DEF PacedInv, StartsSilent
<1>4. calls = << >>
  BY <1>2, <1>3 DEF PacedInv, StartsSilent
<1>5. errors = 0 => Len(Shown) = 1
  BY <1>2, <1>3 DEF PacedInv, TracksArePlaced
<1>6. Shown \in Seq(Songs) /\ Shown' = Shown /\ errors' = errors
  BY ShownIs, HeardRests DEF PacedInv, Receive
<1>7. currentTrack' = track /\ nextTracks' = << >>
  BY DEF Replace
<1>. HIDE DEF track
<1>8. Tracks' = <<track>>
  BY <1>2, <1>7, SpotifyAssumption DEF Tracks
<1>9. calls' = <<Metadata(track), Played>> \/ calls' = <<Played, Metadata(track)>>
  BY <1>4 DEF Replace, Tell, track
<1>10. /\ Len(calls') = 2 /\ DOMAIN calls' = 1..2
       /\ calls'[1] \in {Metadata(track), Played} /\ calls'[2] \in {Metadata(track), Played}
  BY <1>9
<1>11. Played \in ToSet(calls')
  <2>1. CASE calls' = <<Metadata(track), Played>>
    <3>1. 2 \in DOMAIN calls' /\ calls'[2] = Played
      BY <2>1
    <3>. QED BY <3>1 DEF ToSet
  <2>2. CASE calls' = <<Played, Metadata(track)>>
    <3>1. 1 \in DOMAIN calls' /\ calls'[1] = Played
      BY <2>2
    <3>. QED BY <3>1 DEF ToSet
  <2>. QED BY <1>9, <2>1, <2>2
<1>12. Counted'
  BY <1>11 DEF Counted
<1>13. OneOnItsWay'
  BY <1>2 DEF OneOnItsWay
<1>14. StartsSilent'
  BY <1>2, <1>12 DEF StartsSilent
<1>15. TracksArePlaced'
  <2>1. \A i, j \in DOMAIN calls' : i < j /\ calls'[j] = Played => calls'[i] # NoTrack
    <3>1. \A i \in 1..2 : calls'[i] \in {Metadata(track), Played}
      BY <1>10
    <3>2. Metadata(track) # NoTrack /\ Played # NoTrack
      BY <1>2, CallsDiffer
    <3>. QED BY <1>10, <3>1, <3>2
  <2>. DEFINE l == Len(Shown)
              told == calls'
              have == Tracks'
              exact == errors = 0
  <2>2. /\ l \in Nat \ {0} /\ Shown[l] = track /\ exact \in BOOLEAN /\ (exact => l = 1)
        /\ told[1] \in {Metadata(track), Played} /\ told[2] \in {Metadata(track), Played}
        /\ have[1] = track /\ Len(have) = 1 /\ Len(told) = 2
    BY <1>2, <1>5, <1>6, <1>8, <1>10 DEF Last
  <2>. HIDE DEF l, told, have, exact
  <2>3. HavePlaces(2, told, 1, have, l, Shown, FALSE, FALSE, exact)
    <3>1. /\ Shown[l] \in Songs /\ have[1] = Shown[l]
          /\ told[1] \in {Metadata(Shown[l]), Played} /\ told[2] \in {Metadata(Shown[l]), Played}
      BY <1>2, <2>2
    <3>2. l \in Nat \ {0} /\ exact \in BOOLEAN /\ (exact => l = 1)
      BY <2>2
    <3>3. /\ \A i \in 1..2 : told[i] \in {Metadata(Shown[l]), Played}
          /\ have[1] = Shown[l]
      BY <3>1
    <3>. QED BY <3>1, <3>2, <3>3, PlaceStart
  <2>4. ArePlaced(told, have, Shown, FALSE, FALSE, exact)
    BY <2>2, <2>3 DEF ArePlaced, l
  <2>5. (children' # << >>) = FALSE /\ (TrackCommands' # {}) = FALSE
    BY <1>2
  <2>6. ArePlaced(calls', Tracks', Shown', children' # << >>, TrackCommands' # {}, errors' = 0)
    BY <1>6, <2>4, <2>5 DEF told, have, exact
  <2>. QED BY <1>2, <1>6, <1>12, <2>1, <2>6 DEF TracksArePlaced
<1>. QED BY <1>13, <1>14, <1>15

LEMMA ReceiveQueue ==
  ASSUME PacedInv, Receive, ViewRests, Head(commands).do = "queueURI",
         Follow(Head(commands).track)
  PROVE  OneOnItsWay' /\ StartsSilent' /\ TracksArePlaced'
<1>. DEFINE track == Head(commands).track
<1>1. /\ commands # << >> /\ commands' = Tail(commands) /\ IsTrack(Head(commands))
      /\ children' = children
  BY DEF Receive, IsTrack, ViewRests
<1>2. /\ TrackCommands # {} /\ TrackCommands' = {} /\ children = << >> /\ children' = << >>
      /\ track \in Songs /\ Shown # << >> /\ track = Last(Shown)
      /\ \A i \in DOMAIN commands' : commands'[i].do \notin {"playURI", "queueURI"}
  BY <1>1, ReceiveTrack
<1>3. Counted
  <2>1. commands \in Seq(Command)
    BY DEF PacedInv, PartyTypeOK, SpotifyTypeOK
  <2>2. 1 \in DOMAIN commands /\ commands[1].do = "queueURI"
    BY <1>1, <2>1, ReceiveTracks
  <2>. QED BY <2>2 DEF PacedInv, StartsSilent
<1>4. Shown' = Shown /\ errors' = errors /\ gotFirstTrack' = gotFirstTrack
  BY HeardRests DEF PacedInv, Receive
<1>5. /\ ArePlaced(calls, Tracks, Shown, FALSE, TRUE, errors = 0)
      /\ NoTrackBeforePlayed(calls)
  <2>1. (children # << >>) = FALSE /\ (TrackCommands # {}) = TRUE
    BY <1>2
  <2>. QED BY <1>3, <2>1 DEF PacedInv, TracksArePlaced, NoTrackBeforePlayed
<1>. HIDE DEF track
<1>6. Follow(track)
  BY DEF track
<1>7. currentTrack' \in MaybeSongs /\ Tell(<<Metadata(currentTrack')>>) /\ calls \in Seq(Call)
  <2>1. currentTrack' = track \/ currentTrack' = currentTrack
    BY <1>6 DEF Follow
  <2>. QED BY <1>2, <1>6, <2>1 DEF Follow, PacedInv, PartyTypeOK, SpotifyTypeOK, MaybeSongs
<1>8. Metadata(currentTrack') \in Call /\ Metadata(currentTrack') # Played
  BY <1>7, TellType DEF Metadata, Played
<1>9. ToSet(calls') = ToSet(calls) \cup {Metadata(currentTrack')} /\ NoTrackBeforePlayed(calls')
  BY <1>5, <1>7, <1>8, TellIs
<1>10. Counted'
  BY <1>3, <1>4, <1>9 DEF Counted
<1>11. OneOnItsWay'
  BY <1>2 DEF OneOnItsWay
<1>12. StartsSilent'
  BY <1>2, <1>10 DEF StartsSilent
<1>13. TracksArePlaced'
  <2>1. ArePlaced(calls', Tracks', Shown', FALSE, FALSE, errors = 0)
    <3>1. Last(Shown) = track /\ PartyTypeOK /\ (errors = 0) \in BOOLEAN
      BY <1>2 DEF PacedInv
    <3>. QED BY <1>2, <1>4, <1>5, <1>6, <3>1, FollowPlaced
  <2>2. (children' # << >>) = FALSE /\ (TrackCommands' # {}) = FALSE
    BY <1>2
  <2>. QED BY <1>2, <1>4, <1>9, <1>10, <2>1, <2>2 DEF TracksArePlaced, NoTrackBeforePlayed
<1>. QED BY <1>11, <1>12, <1>13

LEMMA ReceiveOther ==
  ASSUME PacedInv, commands # << >>, commands' = Tail(commands), ~IsTrack(Head(commands))
  PROVE  /\ \A i \in DOMAIN commands' : i + 1 \in DOMAIN commands /\ commands'[i] = commands[i + 1]
         /\ TrackCommands' = {} <=> TrackCommands = {}
         /\ \A i, j \in TrackCommands' : i = j
         /\ \A i \in TrackCommands' : Shown # << >> /\ commands'[i].track = Last(Shown)
         /\ 1 \in DOMAIN commands /\ commands[1] = Head(commands) /\ Head(commands) \in Command
<1>1. commands \in Seq(Command)
  BY DEF PacedInv, PartyTypeOK, SpotifyTypeOK
<1>2. /\ \A i \in DOMAIN commands' : i + 1 \in DOMAIN commands /\ commands'[i] = commands[i + 1]
      /\ \A i \in TrackCommands' : i \in Nat \ {0} /\ i + 1 \in TrackCommands
      /\ TrackCommands' \subseteq DOMAIN commands'
      /\ 1 \in DOMAIN commands /\ commands[1] = Head(commands) /\ Head(commands) \in Command
      /\ TrackCommands # {} => TrackCommands' # {}
  BY <1>1, ReceiveTracks
<1>3. ASSUME NEW i \in TrackCommands', NEW j \in TrackCommands' PROVE i = j
  <2>1. i + 1 = j + 1
    BY <1>2 DEF PacedInv, OneOnItsWay
  <2>. QED BY <1>2, <2>1
<1>4. ASSUME NEW i \in TrackCommands' PROVE Shown # << >> /\ commands'[i].track = Last(Shown)
  BY <1>2 DEF PacedInv, OneOnItsWay
<1>. QED BY <1>2, <1>3, <1>4

LEMMA ReceiveSkip ==
  ASSUME PacedInv, Receive, ViewRests, Head(commands).do = "skipNext", Advance
  PROVE  OneOnItsWay' /\ StartsSilent' /\ TracksArePlaced'
<1>1. /\ commands # << >> /\ commands' = Tail(commands) /\ ~IsTrack(Head(commands))
      /\ children' = children
  BY DEF Receive, IsTrack, ViewRests
<1>2. /\ \A i \in DOMAIN commands' : i + 1 \in DOMAIN commands /\ commands'[i] = commands[i + 1]
      /\ TrackCommands' = {} <=> TrackCommands = {}
      /\ 1 \in DOMAIN commands /\ commands[1] = Head(commands) /\ Head(commands) \in Command
  BY <1>1, ReceiveOther
<1>3. children = << >> /\ TrackCommands = {}
  <2>1. Head(commands) = SkipNext
    BY <1>2 DEF Command, SkipNext
  <2>. QED BY <1>2, <2>1 DEF PacedInv, OneOnItsWay
<1>4. Shown' = Shown /\ errors' = errors /\ gotFirstTrack' = gotFirstTrack
  BY HeardRests DEF PacedInv, Receive
<1>5. currentTrack' \in MaybeSongs /\ calls \in Seq(Call) /\ Tell(<<Metadata(currentTrack')>>)
  BY AdvanceType DEF Advance, PacedInv, PartyTypeOK, SpotifyTypeOK
<1>6. Metadata(currentTrack') \in Call /\ Metadata(currentTrack') # Played
  BY <1>5, TellType DEF Metadata, Played
<1>7. NoTrackBeforePlayed(calls)
  BY DEF PacedInv, TracksArePlaced, NoTrackBeforePlayed
<1>8. /\ ToSet(calls') = ToSet(calls) \cup {Metadata(currentTrack')}
      /\ NoTrackBeforePlayed(calls')
      /\ Len(calls) \in Nat /\ Len(calls') = Len(calls) + 1
      /\ calls'[Len(calls) + 1] = Metadata(currentTrack')
      /\ \A i \in 1..Len(calls) : calls'[i] = calls[i]
  BY <1>5, <1>6, <1>7, TellIs
<1>9. Counted' = Counted
  BY <1>4, <1>6, <1>8 DEF Counted
<1>10. OneOnItsWay'
  BY <1>1, <1>2, <1>3 DEF OneOnItsWay
<1>11. StartsSilent'
  <2>1. CASE Counted
    <3>1. \A i \in DOMAIN commands : commands[i].do # "playURI"
      BY <2>1 DEF PacedInv, StartsSilent
    <3>. QED BY <1>2, <1>9, <2>1, <3>1 DEF StartsSilent
  <2>2. CASE ~Counted
    <3>1. currentTrack = NoSong /\ nextTracks = << >>
      BY <1>2, <2>2 DEF PacedInv, StartsSilent, SetPlaying
    <3>2. currentTrack' = NoSong /\ nextTracks' = << >> /\ ~isPlaying'
      BY <3>1 DEF Advance
    <3>3. \A i \in DOMAIN calls' : calls'[i] = Metadata(NoSong)
      <4>1. \A i \in 1..Len(calls) : calls[i] = Metadata(NoSong)
        BY <1>5, <2>2 DEF PacedInv, StartsSilent
      <4>2. DOMAIN calls' = 1..(Len(calls) + 1)
        <5>1. calls' \in Seq(Call)
          BY AdvanceType DEF PacedInv, PartyTypeOK
        <5>. QED BY <1>8, <5>1
      <4>3. \A i \in 1..(Len(calls) + 1) : i \in 1..Len(calls) \/ i = Len(calls) + 1
        BY <1>8
      <4>. QED BY <1>8, <3>2, <4>1, <4>2, <4>3
    <3>4. \A i \in DOMAIN commands' : commands'[i].do # "queueURI"
      BY <1>2, <2>2 DEF PacedInv, StartsSilent
    <3>. QED BY <1>1, <1>2, <1>3, <1>9, <2>2, <3>2, <3>3, <3>4 DEF StartsSilent
  <2>. QED BY <2>1, <2>2
<1>12. TracksArePlaced'
  <2>1. CASE Counted
    <3>1. (children # << >>) = FALSE /\ (TrackCommands # {}) = FALSE
      BY <1>3
    <3>2. (children' # << >>) = FALSE /\ (TrackCommands' # {}) = FALSE
      BY <1>1, <1>2, <1>3
    <3>3. Shown # << >> /\ ArePlaced(calls, Tracks, Shown, FALSE, FALSE, errors = 0)
      BY <2>1, <3>1 DEF PacedInv, TracksArePlaced
    <3>4. PartyTypeOK /\ (errors = 0) \in BOOLEAN /\ FALSE \in BOOLEAN
      BY DEF PacedInv
    <3>5. ArePlaced(calls', Tracks', Shown', FALSE, FALSE, errors = 0)
      BY <1>4, <3>3, <3>4, AdvancePlaced
    <3>. QED BY <1>4, <1>8, <1>9, <2>1, <3>2, <3>3, <3>5 DEF TracksArePlaced, NoTrackBeforePlayed
  <2>2. CASE ~Counted
    BY <1>2, <1>4, <1>8, <1>9, <2>2 DEF TracksArePlaced, NoTrackBeforePlayed, PacedInv
  <2>. QED BY <2>1, <2>2
<1>. QED BY <1>10, <1>11, <1>12

LEMMA ReceiveSetPlaying ==
  ASSUME PacedInv, Receive, ViewRests, Head(commands).do = "setPlaying",
         isPlaying' = (Head(commands).on /\ currentTrack # NoSong),
         UNCHANGED <<currentTrack, nextTracks, hasMetadata, calls>>
  PROVE  OneOnItsWay' /\ StartsSilent' /\ TracksArePlaced'
<1>1. /\ commands # << >> /\ commands' = Tail(commands) /\ ~IsTrack(Head(commands))
      /\ children' = children
  BY DEF Receive, IsTrack, ViewRests
<1>2. /\ \A i \in DOMAIN commands' : i + 1 \in DOMAIN commands /\ commands'[i] = commands[i + 1]
      /\ TrackCommands' = {} <=> TrackCommands = {}
      /\ \A i, j \in TrackCommands' : i = j
      /\ \A i \in TrackCommands' : Shown # << >> /\ commands'[i].track = Last(Shown)
      /\ 1 \in DOMAIN commands /\ commands[1] = Head(commands) /\ Head(commands) \in Command
  BY <1>1, ReceiveOther
<1>3. /\ Shown' = Shown /\ errors' = errors /\ gotFirstTrack' = gotFirstTrack
      /\ calls' = calls /\ currentTrack' = currentTrack /\ nextTracks' = nextTracks
  BY HeardRests DEF PacedInv, Receive
<1>4. Counted' = Counted /\ Tracks' = Tracks
  BY <1>3 DEF Counted, Tracks
<1>5. OneOnItsWay'
  <2>1. children # << >> \/ TrackCommands # {} =>
            \A i \in DOMAIN commands' : commands'[i] # SkipNext
    BY <1>2 DEF PacedInv, OneOnItsWay
  <2>. QED BY <1>1, <1>2, <1>3, <2>1 DEF PacedInv, OneOnItsWay
<1>6. StartsSilent'
  <2>1. CASE Counted
    <3>1. \A i \in DOMAIN commands : commands[i].do # "playURI"
      BY <2>1 DEF PacedInv, StartsSilent
    <3>. QED BY <1>2, <1>4, <2>1, <3>1 DEF StartsSilent
  <2>2. CASE ~Counted
    <3>1. /\ nextTracks = << >> /\ \A i \in DOMAIN calls : calls[i] = Metadata(NoSong)
          /\ \A i \in DOMAIN commands : commands[i].do # "queueURI"
          /\ currentTrack # NoSong =>
                \A i \in DOMAIN commands :
                    commands[i] = SetPlaying(FALSE) \/ commands[i].do = "playURI"
          /\ children # << >> \/ TrackCommands # {} => calls = << >> /\ ~isPlaying
      BY <2>2 DEF PacedInv, StartsSilent
    <3>2. ~isPlaying'
      <4>1. currentTrack # NoSong => commands[1] = SetPlaying(FALSE)
        BY <1>2, <3>1
      <4>2. SetPlaying(FALSE).on = FALSE
        BY DEF SetPlaying
      <4>. QED BY <1>2, <4>1, <4>2
    <3>3. \A i \in DOMAIN commands' : commands'[i].do # "queueURI"
      BY <1>2, <3>1
    <3>4. currentTrack # NoSong =>
              \A i \in DOMAIN commands' :
                  commands'[i] = SetPlaying(FALSE) \/ commands'[i].do = "playURI"
      BY <1>2, <3>1
    <3>. QED BY <1>1, <1>2, <1>3, <1>4, <2>2, <3>1, <3>2, <3>3, <3>4 DEF StartsSilent
  <2>. QED BY <2>1, <2>2
<1>7. TracksArePlaced'
  <2>1. (TrackCommands' # {}) = (TrackCommands # {})
    BY <1>2
  <2>2. TrackCommands' = {} <=> TrackCommands = {}
    BY <1>2
  <2>3. CASE Counted
    BY <1>1, <1>3, <1>4, <2>1, <2>3 DEF PacedInv, TracksArePlaced
  <2>4. CASE ~Counted
    BY <1>1, <1>3, <1>4, <2>2, <2>4 DEF PacedInv, TracksArePlaced
  <2>. QED BY <2>3, <2>4
<1>. QED BY <1>5, <1>6, <1>7

LEMMA FailParts ==
  ASSUME PacedInv, Fail, ViewRests
  PROVE  OneOnItsWay' /\ StartsSilent' /\ TracksArePlaced'
<1>1. /\ commands # << >> /\ commands' = Tail(commands) /\ IsTrack(Head(commands))
      /\ children' = children
  BY DEF Fail, IsTrack, ViewRests
<1>2. /\ TrackCommands # {} /\ TrackCommands' = {} /\ children = << >> /\ children' = << >>
      /\ \A i \in DOMAIN commands' : commands'[i].do \notin {"playURI", "queueURI"}
  BY <1>1, ReceiveTrack
<1>3. /\ Shown' = Shown /\ gotFirstTrack' = gotFirstTrack
      /\ calls' = calls /\ currentTrack' = currentTrack /\ nextTracks' = nextTracks
      /\ isPlaying' = isPlaying /\ errors' = errors + 1
  BY HeardRests DEF PacedInv, Fail, controllerVars
<1>4. Counted' = Counted /\ Tracks' = Tracks
  BY <1>3 DEF Counted, Tracks
<1>5. errors' # 0
  BY <1>3, SpotifyAssumption DEF PacedInv, PartyTypeOK, SpotifyTypeOK
<1>6. OneOnItsWay'
  BY <1>2 DEF OneOnItsWay
<1>7. StartsSilent'
  <2>1. CASE Counted
    BY <1>2, <1>4, <2>1 DEF StartsSilent
  <2>2. CASE ~Counted
    <3>1. /\ nextTracks = << >> /\ \A i \in DOMAIN calls : calls[i] = Metadata(NoSong)
          /\ currentTrack # NoSong =>
                \A i \in DOMAIN commands :
                    commands[i] = SetPlaying(FALSE) \/ commands[i].do = "playURI"
          /\ calls = << >> /\ ~isPlaying
      BY <1>2, <2>2 DEF PacedInv, StartsSilent
    <3>2. \A i \in DOMAIN commands' : i + 1 \in DOMAIN commands /\ commands'[i] = commands[i + 1]
      BY <1>1, ReceiveTracks DEF PacedInv, PartyTypeOK, SpotifyTypeOK
    <3>3. currentTrack # NoSong =>
              \A i \in DOMAIN commands' :
                  commands'[i] = SetPlaying(FALSE) \/ commands'[i].do = "playURI"
      BY <3>1, <3>2
    <3>. QED BY <1>2, <1>3, <1>4, <2>2, <3>1, <3>3 DEF StartsSilent
  <2>. QED BY <2>1, <2>2
<1>8. TracksArePlaced'
  <2>1. CASE Counted
    <3>1. /\ Shown # << >>
          /\ ArePlaced(calls, Tracks, Shown, children # << >>, TrackCommands # {}, errors = 0)
      BY <2>1 DEF PacedInv, TracksArePlaced
    <3>2. ArePlaced(calls, Tracks, Shown, FALSE, FALSE, FALSE)
      BY <3>1, PlaceRefused DEF ArePlaced
    <3>3. (children' # << >>) = FALSE /\ (TrackCommands' # {}) = FALSE /\ (errors' = 0) = FALSE
      BY <1>2, <1>5
    <3>. QED BY <1>3, <1>4, <2>1, <3>1, <3>2, <3>3 DEF TracksArePlaced, PacedInv
  <2>2. CASE ~Counted
    BY <1>3, <1>4, <1>5, <2>2 DEF TracksArePlaced, PacedInv
  <2>. QED BY <2>1, <2>2
<1>. QED BY <1>6, <1>7, <1>8

\* A track ends by itself.
LEMMA EndsParts ==
  ASSUME PacedInv, TrackEnds, ViewRests
  PROVE  OneOnItsWay' /\ StartsSilent' /\ TracksArePlaced'
<1>1. /\ isPlaying /\ Advance /\ gotFirstTrack' = gotFirstTrack /\ commands' = commands
      /\ errors' = errors /\ children' = children /\ currentTrack # NoSong
  BY DEF TrackEnds, ViewRests, PacedInv, PartyTypeOK, SpotifyTypeOK
<1>2. Shown' = Shown /\ TrackCommands' = TrackCommands
  BY <1>1, HeardRests DEF PacedInv, TrackCommands
<1>3. currentTrack' \in MaybeSongs /\ calls \in Seq(Call) /\ Tell(<<Metadata(currentTrack')>>)
      /\ calls' \in Seq(Call)
  BY <1>1, AdvanceType DEF Advance, PacedInv, PartyTypeOK, SpotifyTypeOK
<1>4. Metadata(currentTrack') \in Call /\ Metadata(currentTrack') # Played
  BY <1>3, TellType DEF Metadata, Played
<1>5. NoTrackBeforePlayed(calls)
  BY DEF PacedInv, TracksArePlaced, NoTrackBeforePlayed
<1>6. /\ ToSet(calls') = ToSet(calls) \cup {Metadata(currentTrack')}
      /\ NoTrackBeforePlayed(calls')
      /\ Len(calls) \in Nat /\ Len(calls') = Len(calls) + 1
      /\ calls'[Len(calls) + 1] = Metadata(currentTrack')
      /\ \A i \in 1..Len(calls) : calls'[i] = calls[i]
  BY <1>3, <1>4, <1>5, TellIs
<1>7. Counted' = Counted
  BY <1>1, <1>4, <1>6 DEF Counted
<1>8. OneOnItsWay'
  BY <1>1, <1>2, <1>4, <1>6 DEF OneOnItsWay, PacedInv
<1>9. StartsSilent'
  <2>1. CASE Counted
    BY <1>1, <1>7, <2>1 DEF StartsSilent, PacedInv
  <2>2. CASE ~Counted
    <3>1. /\ nextTracks = << >> /\ \A i \in DOMAIN calls : calls[i] = Metadata(NoSong)
          /\ \A i \in DOMAIN commands : commands[i].do # "queueURI"
          /\ children = << >> /\ TrackCommands = {}
      BY <1>1, <2>2 DEF PacedInv, StartsSilent
    <3>2. currentTrack' = NoSong /\ nextTracks' = << >> /\ ~isPlaying'
      BY <1>1, <3>1 DEF Advance
    <3>3. \A i \in DOMAIN calls' : calls'[i] = Metadata(NoSong)
      <4>1. \A i \in 1..Len(calls) : calls[i] = Metadata(NoSong)
        BY <1>3, <3>1
      <4>2. DOMAIN calls' = 1..(Len(calls) + 1)
        BY <1>3, <1>6
      <4>3. \A i \in 1..(Len(calls) + 1) : i \in 1..Len(calls) \/ i = Len(calls) + 1
        BY <1>6
      <4>. QED BY <1>6, <3>2, <4>1, <4>2, <4>3
    <3>. QED BY <1>1, <1>2, <1>7, <2>2, <3>1, <3>2, <3>3 DEF StartsSilent
  <2>. QED BY <2>1, <2>2
<1>10. TracksArePlaced'
  <2>1. CASE Counted
    <3>1. /\ Shown # << >>
          /\ ArePlaced(calls, Tracks, Shown, children # << >>, TrackCommands # {}, errors = 0)
      BY <2>1 DEF PacedInv, TracksArePlaced
    <3>2. /\ PartyTypeOK /\ (errors = 0) \in BOOLEAN
          /\ (children # << >>) \in BOOLEAN /\ (TrackCommands # {}) \in BOOLEAN
      BY DEF PacedInv
    <3>3. ArePlaced(calls', Tracks', Shown', children # << >>, TrackCommands # {}, errors = 0)
      BY <1>1, <1>2, <3>1, <3>2, AdvancePlaced
    <3>. QED BY <1>1, <1>2, <1>6, <1>7, <2>1, <3>1, <3>3 DEF TracksArePlaced, NoTrackBeforePlayed
  <2>2. CASE ~Counted
    BY <1>1, <1>2, <1>6, <1>7, <2>2 DEF TracksArePlaced, NoTrackBeforePlayed, PacedInv
  <2>. QED BY <2>1, <2>2
<1>. QED BY <1>8, <1>9, <1>10

LEMMA ControllerParts ==
  ASSUME PacedInv, Controller
  PROVE  OneOnItsWay' /\ StartsSilent' /\ TracksArePlaced'
<1>1. ViewRests
  BY DEF Controller, ViewRests
<1>2. ASSUME Receive PROVE OneOnItsWay' /\ StartsSilent' /\ TracksArePlaced'
  <2>1. CASE Head(commands).do = "playURI" /\ Replace(Head(commands).track)
    BY <1>1, <1>2, <2>1, ReceivePlay
  <2>2. CASE Head(commands).do = "queueURI" /\ Follow(Head(commands).track)
    BY <1>1, <1>2, <2>2, ReceiveQueue
  <2>3. CASE Head(commands).do = "skipNext" /\ Advance
    BY <1>1, <1>2, <2>3, ReceiveSkip
  <2>4. CASE /\ Head(commands).do = "setPlaying"
             /\ isPlaying' = (Head(commands).on /\ currentTrack # NoSong)
             /\ UNCHANGED <<currentTrack, nextTracks, hasMetadata, calls>>
    BY <1>1, <1>2, <2>4, ReceiveSetPlaying
  <2>. QED BY <1>2, <2>1, <2>2, <2>3, <2>4 DEF Receive, Perform
<1>. QED BY <1>1, <1>2, FailParts, EndsParts DEF Controller

-----------------------------------------------------------------------------
(***************************************************************************)
(* A call is handled, or next is tapped.                                   *)
(***************************************************************************)
LEMMA HandleDrops ==
  ASSUME PacedInv, calls # << >>, calls' = Tail(calls), Counted, Shown' = Shown,
         currentTrack' = currentTrack, nextTracks' = nextTracks,
         Head(calls) = Played \/ Head(calls) = Metadata(currentSong)
  PROVE  ArePlaced(calls', Tracks', Shown', children # << >>, TrackCommands # {}, errors = 0)
<1>1. PartyTypeOK /\ calls \in Seq(Call)
  BY DEF PacedInv, PartyTypeOK, SpotifyTypeOK
<1>2. /\ Shown # << >>
      /\ ArePlaced(calls, Tracks, Shown, children # << >>, TrackCommands # {}, errors = 0)
  BY DEF PacedInv, TracksArePlaced
<1>3. Shown \in Seq(Songs) /\ Tracks \in Seq(Songs) /\ Len(Shown) \in Nat \ {0} /\ Len(Tracks) \in Nat
  <2>1. Shown \in Seq(Songs) /\ Tracks \in Seq(Songs)
    BY <1>1, ShownIs
  <2>. QED BY <1>2, <2>1
<1>4. Shown[1] = currentSong /\ Shown[1] \in Songs
  <2>1. Shown = FirstAnd(currentSong, songQueue)
    BY <1>1, ShownIs
  <2>2. currentSong \in MaybeSongs /\ songQueue \in Seq(Songs)
    BY <1>1 DEF PartyTypeOK
  <2>3. currentSong # NoSong
    BY <1>2 DEF PacedInv, IsHeardOnce, Shown
  <2>. QED BY <2>1, <2>2, <2>3, FirstAndIs DEF MaybeSongs
<1>5. Len(Shown) > 1 => Shown[1] # Shown[2]
  <2>. SUFFICES ASSUME Len(Shown) > 1 PROVE Shown[1] # Shown[2]
    OBVIOUS
  <2>. DEFINE s == Shown \o children
              p == songsPlayed
  <2>1. /\ children \in Seq(Songs) /\ queue \in Seq(Songs) /\ Len(children) \in Nat
        /\ Len(queue) \in Nat /\ p \in Nat
    BY <1>1 DEF PartyTypeOK
  <2>2. /\ s \in Seq(Songs) /\ Len(s) = Len(Shown) + Len(children)
        /\ s[1] = Shown[1] /\ s[2] = Shown[2]
    BY <1>3, <2>1
  <2>3. p + Len(s) = Len(queue) /\ s = SubSeq(queue, p + 1, Len(queue))
    BY <1>3, <2>1, <2>2 DEF PacedInv, IsHeardOnce
  <2>. HIDE DEF s, p
  <2>4. \A k \in 1..Len(s) : s[k] = queue[p + k]
    BY <2>1, <2>2, <2>3, SuffixIs
  <2>5. 1 \in 1..Len(s) /\ 2 \in 1..Len(s) /\ p + 1 \in 1..(Len(queue) - 1)
    BY <1>3, <2>1, <2>2, <2>3
  <2>6. queue[p + 1] # queue[(p + 1) + 1] /\ (p + 1) + 1 = p + 2
    BY <2>1, <2>5 DEF PacedInv, IsHeardOnce
  <2>. QED BY <2>2, <2>4, <2>5, <2>6
<1>6. /\ Len(calls) \in Nat \ {0} /\ Len(calls') = Len(calls) - 1
      /\ calls[1] = Head(calls)
      /\ \A i \in 1..(Len(calls) - 1) : calls'[i] = calls[i + 1]
  BY <1>1, HandledIs
<1>. DEFINE n == Len(calls)
            m == Len(Tracks)
            l == Len(Shown)
            told2 == calls'
            coming == children # << >>
            sent == TrackCommands # {}
            exact == errors = 0
<1>7. /\ n \in Nat \ {0} /\ m \in Nat /\ l \in Nat \ {0}
      /\ coming \in BOOLEAN /\ sent \in BOOLEAN /\ exact \in BOOLEAN
      /\ Drops(n, calls, told2) /\ Len(told2) = n - 1
  BY <1>3, <1>6 DEF Drops
<1>8. /\ Shown[1] \in Songs /\ (l > 1 => Shown[1] # Shown[2])
      /\ calls[1] = Played \/ calls[1] = Metadata(Shown[1])
  BY <1>4, <1>5, <1>6
<1>9. HavePlaces(n, calls, m, Tracks, l, Shown, coming, sent, exact)
  BY <1>2 DEF ArePlaced
<1>. HIDE DEF n, m, l, told2, coming, sent, exact
<1>10. HavePlaces(n - 1, told2, m, Tracks, l, Shown, coming, sent, exact)
  BY <1>7, <1>8, <1>9, PlaceDrop
<1>11. ArePlaced(told2, Tracks, Shown, coming, sent, exact)
  BY <1>7, <1>10 DEF ArePlaced, m, l
<1>12. Tracks' = Tracks
  BY DEF Tracks
<1>. QED BY <1>11, <1>12 DEF told2, coming, sent, exact

\* The answer to a playURI: what is loaded is paused, and has the place it had.
LEMMA HandlePlayed ==
  ASSUME PacedInv, HandleCall, Head(calls).of = "played", FirstTrackPlayed, UNCHANGED viewVars
  PROVE  IsHeardOnce' /\ OneOnItsWay' /\ StartsSilent' /\ TracksArePlaced'
<1>1. /\ calls \in Seq(Call) /\ calls # << >> /\ calls' = Tail(calls)
      /\ currentTrack' = currentTrack /\ nextTracks' = nextTracks /\ errors' = errors
      /\ children' = children /\ ViewRests
  BY DEF HandleCall, controllerVars, PacedInv, PartyTypeOK, SpotifyTypeOK, ViewRests
<1>2. IsHeardOnce' /\ Shown' = Shown
  BY <1>1, HeardRests DEF PacedInv
<1>3. /\ Head(calls) \in Call /\ ToSet(calls) = ToSet(calls') \cup {Head(calls)}
      /\ NoTrackBeforePlayed(calls')
  <2>1. NoTrackBeforePlayed(calls)
    BY DEF PacedInv, TracksArePlaced, NoTrackBeforePlayed
  <2>. QED BY <1>1, <2>1, HandledIs
<1>4. Head(calls) = Played
  BY <1>3 DEF Call, Played
<1>5. Counted /\ children = << >> /\ TrackCommands = {}
  BY <1>3, <1>4 DEF Counted, PacedInv, OneOnItsWay
<1>6. Counted'
  BY DEF FirstTrackPlayed, Counted
<1>7. /\ commands \in Seq(Command) /\ Send(SetPlaying(FALSE))
      /\ SetPlaying(FALSE) \in Command /\ ~IsTrack(SetPlaying(FALSE))
      /\ SetPlaying(FALSE).do # "playURI"
  BY SetPlayingIs DEF FirstTrackPlayed, PacedInv, PartyTypeOK, SpotifyTypeOK
<1>8. /\ TrackCommands' = TrackCommands
      /\ \A i \in DOMAIN commands' : i \in DOMAIN commands \/ commands'[i] = SetPlaying(FALSE)
      /\ \A i \in DOMAIN commands : commands'[i] = commands[i]
  BY <1>7, SendTracks
<1>9. OneOnItsWay'
  BY <1>1, <1>5, <1>8 DEF OneOnItsWay
<1>10. StartsSilent'
  <2>1. \A i \in DOMAIN commands : commands[i].do # "playURI"
    BY <1>5 DEF PacedInv, StartsSilent
  <2>. QED BY <1>6, <1>7, <1>8, <2>1 DEF StartsSilent
<1>11. TracksArePlaced'
  <2>1. ArePlaced(calls', Tracks', Shown', children # << >>, TrackCommands # {}, errors = 0)
    BY <1>1, <1>2, <1>4, <1>5, HandleDrops
  <2>2. Shown # << >>
    BY <1>5 DEF PacedInv, TracksArePlaced
  <2>. QED BY <1>1, <1>2, <1>3, <1>6, <1>8, <2>1, <2>2 DEF TracksArePlaced, NoTrackBeforePlayed
<1>. QED BY <1>2, <1>9, <1>10, <1>11

\* The controller tells of the track that is shown.
LEMMA HandleShown ==
  ASSUME PacedInv, HandleCall, Head(calls).of = "metadata", Head(calls).track = currentSong,
         UNCHANGED <<viewVars, gotFirstTrack, commands>>
  PROVE  IsHeardOnce' /\ OneOnItsWay' /\ StartsSilent' /\ TracksArePlaced'
<1>1. /\ calls \in Seq(Call) /\ calls # << >> /\ calls' = Tail(calls)
      /\ currentTrack' = currentTrack /\ nextTracks' = nextTracks /\ isPlaying' = isPlaying
      /\ errors' = errors /\ children' = children /\ ViewRests
      /\ gotFirstTrack' = gotFirstTrack /\ commands' = commands
  BY DEF HandleCall, controllerVars, PacedInv, PartyTypeOK, SpotifyTypeOK, ViewRests
<1>2. IsHeardOnce' /\ Shown' = Shown /\ TrackCommands' = TrackCommands
  BY <1>1, HeardRests DEF PacedInv, TrackCommands
<1>3. /\ Head(calls) \in Call /\ ToSet(calls) = ToSet(calls') \cup {Head(calls)}
      /\ NoTrackBeforePlayed(calls')
      /\ Len(calls) \in Nat \ {0} /\ Len(calls') = Len(calls) - 1
      /\ \A i \in 1..(Len(calls) - 1) : calls'[i] = calls[i + 1]
  <2>1. NoTrackBeforePlayed(calls)
    BY DEF PacedInv, TracksArePlaced, NoTrackBeforePlayed
  <2>. QED BY <1>1, <2>1, HandledIs
<1>4. Head(calls) = Metadata(currentSong) /\ Head(calls) # Played
  BY <1>3 DEF Call, Played, Metadata
<1>5. Counted' = Counted
  BY <1>1, <1>3, <1>4 DEF Counted
<1>6. OneOnItsWay'
  BY <1>1, <1>2, <1>3 DEF OneOnItsWay, PacedInv
<1>7. StartsSilent'
  <2>1. CASE Counted
    BY <1>1, <1>5, <2>1 DEF StartsSilent, PacedInv
  <2>2. CASE ~Counted
    <3>1. /\ \A i \in DOMAIN calls : calls[i] = Metadata(NoSong)
          /\ children = << >> /\ TrackCommands = {}
      BY <1>1, <2>2 DEF PacedInv, StartsSilent
    <3>2. \A i \in DOMAIN calls' : calls'[i] = Metadata(NoSong)
      <4>1. \A i \in 1..(Len(calls) - 1) : i + 1 \in DOMAIN calls
        BY <1>1
      <4>2. DOMAIN calls' = 1..(Len(calls) - 1)
        BY <1>1
      <4>. QED BY <1>3, <3>1, <4>1, <4>2
    <3>. QED BY <1>1, <1>2, <1>5, <2>2, <3>1, <3>2 DEF StartsSilent, PacedInv
  <2>. QED BY <2>1, <2>2
<1>8. TracksArePlaced'
  <2>1. CASE Counted
    <3>1. ArePlaced(calls', Tracks', Shown', children # << >>, TrackCommands # {}, errors = 0)
      BY <1>1, <1>2, <1>4, <2>1, HandleDrops
    <3>2. Shown # << >>
      BY <2>1 DEF PacedInv, TracksArePlaced
    <3>. QED BY <1>1, <1>2, <1>3, <1>5, <2>1, <3>1, <3>2 DEF TracksArePlaced, NoTrackBeforePlayed
  <2>2. CASE ~Counted
    BY <1>1, <1>2, <1>3, <1>5, <2>2 DEF TracksArePlaced, NoTrackBeforePlayed, PacedInv
  <2>. QED BY <2>1, <2>2
<1>. QED BY <1>2, <1>6, <1>7, <1>8

\* It tells of another track: the song shown has finished, and others follow it.
LEMMA HandlePops ==
  ASSUME PacedInv, calls # << >>, calls' = Tail(calls), Counted, songQueue # << >>,
         Shown' = Tail(Shown), Head(calls) \in Call, Head(calls) # Played,
         Head(calls) # Metadata(currentSong),
         currentTrack' = currentTrack, nextTracks' = nextTracks
  PROVE  /\ ArePlaced(calls', Tracks', Shown', children # << >>, TrackCommands # {}, errors = 0)
         /\ Shown # << >> /\ Shown' # << >> /\ Last(Shown') = Last(Shown)
<1>1. PartyTypeOK /\ calls \in Seq(Call)
  BY DEF PacedInv, PartyTypeOK, SpotifyTypeOK
<1>2. /\ Shown # << >>
      /\ ArePlaced(calls, Tracks, Shown, children # << >>, TrackCommands # {}, errors = 0)
  BY DEF PacedInv, TracksArePlaced
<1>3. /\ Shown \in Seq(Songs) /\ Tracks \in Seq(Songs) /\ Len(Tracks) \in Nat
      /\ Len(Shown) = 1 + Len(songQueue) /\ Len(songQueue) \in Nat \ {0}
      /\ Shown[1] = currentSong
  <2>1. Shown = FirstAnd(currentSong, songQueue) /\ Shown \in Seq(Songs) /\ Tracks \in Seq(Songs)
    BY <1>1, ShownIs
  <2>2. currentSong \in MaybeSongs /\ songQueue \in Seq(Songs)
    BY <1>1 DEF PartyTypeOK
  <2>3. currentSong # NoSong
    BY <1>2 DEF PacedInv, IsHeardOnce, Shown
  <2>4. Len(FirstAnd(currentSong, songQueue)) = 1 + Len(songQueue)
        /\ FirstAnd(currentSong, songQueue)[1] = currentSong
    BY <2>2, <2>3, FirstAndIs
  <2>. QED BY <2>1, <2>2, <2>4
<1>4. /\ Len(Shown) \in Nat /\ Len(Shown) > 1
      /\ Len(Tail(Shown)) = Len(Shown) - 1 /\ Tail(Shown) # << >>
      /\ \A k \in 1..(Len(Shown) - 1) : Tail(Shown)[k] = Shown[k + 1]
  <2>1. Len(Shown) \in Nat /\ Len(Shown) > 1
    BY <1>3
  <2>2. /\ Len(Tail(Shown)) = Len(Shown) - 1 /\ Tail(Shown) \in Seq(Songs)
        /\ \A k \in 1..(Len(Shown) - 1) : Tail(Shown)[k] = Shown[k + 1]
    BY <1>2, <1>3
  <2>. DEFINE rest == Tail(Shown)
             l == Len(Shown)
  <2>3. l \in Nat /\ l > 1 /\ Len(rest) = l - 1 /\ rest \in Seq(Songs)
    BY <2>1, <2>2
  <2>. HIDE DEF rest, l
  <2>4. Len(rest) # 0
    BY <2>3
  <2>5. rest # << >>
    BY <2>3, <2>4
  <2>. QED BY <2>1, <2>2, <2>5 DEF rest
<1>5. Last(Tail(Shown)) = Last(Shown)
  <2>1. Len(Shown) - 1 \in 1..(Len(Shown) - 1) /\ (Len(Shown) - 1) + 1 = Len(Shown)
    BY <1>4
  <2>2. Tail(Shown)[Len(Shown) - 1] = Shown[Len(Shown)]
    BY <1>4, <2>1
  <2>. QED BY <1>4, <2>2 DEF Last
<1>6. /\ Len(calls) \in Nat \ {0} /\ Len(calls') = Len(calls) - 1
      /\ calls[1] = Head(calls)
      /\ \A i \in 1..(Len(calls) - 1) : calls'[i] = calls[i + 1]
  BY <1>1, HandledIs
<1>7. calls[1] = NoTrack \/ \E song \in Songs : song # Shown[1] /\ calls[1] = Metadata(song)
  <2>1. Head(calls) = NoTrack \/ \E song \in Songs : Head(calls) = Metadata(song)
    BY CallsDiffer
  <2>. QED BY <1>3, <1>6, <2>1
<1>. DEFINE n == Len(calls)
            m == Len(Tracks)
            l == Len(Shown)
            told2 == calls'
            shown2 == Tail(Shown)
            coming == children # << >>
            sent == TrackCommands # {}
            exact == errors = 0
<1>8. /\ n \in Nat \ {0} /\ m \in Nat /\ l \in Nat \ {0} /\ l > 1
      /\ coming \in BOOLEAN /\ sent \in BOOLEAN /\ exact \in BOOLEAN
      /\ Drops(n, calls, told2) /\ Len(told2) = n - 1
      /\ Drops(l, Shown, shown2) /\ Len(shown2) = l - 1
  BY <1>3, <1>4, <1>6 DEF Drops
<1>9. HavePlaces(n, calls, m, Tracks, l, Shown, coming, sent, exact)
  BY <1>2 DEF ArePlaced
<1>. HIDE DEF n, m, l, told2, shown2, coming, sent, exact
<1>10. HavePlaces(n - 1, told2, m, Tracks, l - 1, shown2, coming, sent, exact)
  BY <1>7, <1>8, <1>9, PlacePop
<1>11. ArePlaced(told2, Tracks, shown2, coming, sent, exact)
  BY <1>8, <1>10 DEF ArePlaced, m
<1>12. Tracks' = Tracks
  BY DEF Tracks
<1>13. ArePlaced(calls', Tracks', Shown', children # << >>, TrackCommands # {}, errors = 0)
  BY <1>11, <1>12 DEF told2, shown2, coming, sent, exact
<1>. QED BY <1>2, <1>4, <1>5, <1>13

\* No other song is shown: it has no track, and nothing is on its way to it.
LEMMA HandleLast ==
  ASSUME PacedInv, calls # << >>, calls' = Tail(calls), Counted, songQueue = << >>,
         Head(calls) \in Call, Head(calls) # Played, Head(calls) # Metadata(currentSong)
  PROVE  /\ Head(calls) = NoTrack /\ Played \notin ToSet(calls')
         /\ Tracks = << >> /\ TrackCommands = {}
         /\ children # << >> => calls' = << >>
         /\ \A i \in DOMAIN calls' : calls'[i] = NoTrack
<1>1. PartyTypeOK /\ calls \in Seq(Call)
  BY DEF PacedInv, PartyTypeOK, SpotifyTypeOK
<1>2. /\ Shown # << >> /\ NoTrackBeforePlayed(calls)
      /\ ArePlaced(calls, Tracks, Shown, children # << >>, TrackCommands # {}, errors = 0)
  BY DEF PacedInv, TracksArePlaced, NoTrackBeforePlayed
<1>3. /\ Tracks \in Seq(Songs) /\ Len(Tracks) \in Nat /\ Len(Shown) = 1 /\ Shown[1] = currentSong
  <2>1. Shown = FirstAnd(currentSong, songQueue) /\ Tracks \in Seq(Songs)
    BY <1>1, ShownIs
  <2>2. currentSong \in MaybeSongs /\ songQueue \in Seq(Songs) /\ Len(songQueue) = 0
    BY <1>1 DEF PartyTypeOK
  <2>3. currentSong # NoSong
    BY <1>2 DEF PacedInv, IsHeardOnce, Shown
  <2>4. Len(FirstAnd(currentSong, songQueue)) = 1 + Len(songQueue)
        /\ FirstAnd(currentSong, songQueue)[1] = currentSong
    BY <2>2, <2>3, FirstAndIs
  <2>. QED BY <2>1, <2>2, <2>4
<1>4. /\ Len(calls) \in Nat \ {0} /\ Len(calls') = Len(calls) - 1
      /\ calls[1] = Head(calls)
      /\ \A i \in 1..(Len(calls) - 1) : calls'[i] = calls[i + 1]
      /\ Played \in ToSet(calls') => Head(calls) # NoTrack
  BY <1>1, <1>2, HandledIs
<1>. DEFINE n == Len(calls)
            m == Len(Tracks)
            coming == children # << >>
            sent == TrackCommands # {}
            exact == errors = 0
<1>5. /\ n \in Nat \ {0} /\ m \in Nat /\ 1 \in Nat \ {0}
      /\ coming \in BOOLEAN /\ sent \in BOOLEAN /\ exact \in BOOLEAN
  BY <1>3, <1>4
<1>6. HavePlaces(n, calls, m, Tracks, 1, Shown, coming, sent, exact)
  BY <1>2, <1>3 DEF ArePlaced
<1>. HIDE DEF n, m, coming, sent, exact
<1>7. Head(calls) = NoTrack
  <2>1. Head(calls) = NoTrack \/ \E song \in Songs : Head(calls) = Metadata(song)
    BY CallsDiffer
  <2>2. ASSUME NEW song \in Songs, Head(calls) = Metadata(song) PROVE FALSE
    <3>1. song # Shown[1] /\ calls[1] = Metadata(song)
      BY <1>3, <1>4, <2>2
    <3>2. 1 > 1
      BY <1>5, <1>6, <3>1, PlaceBehind
    <3>. QED BY <3>2
  <2>. QED BY <2>1, <2>2
<1>8. Played \notin ToSet(calls')
  BY <1>4, <1>7
<1>9. /\ m = 0 /\ ~sent /\ (coming => n = 1)
      /\ \A i \in 2..n : \A song \in Songs : calls[i] # Metadata(song)
  <2>1. calls[1] = NoTrack
    BY <1>4, <1>7
  <2>2. NothingBehind(n, calls, m, coming, sent)
    BY <1>5, <1>6, <2>1, PlaceLast
  <2>. QED BY <2>2 DEF NothingBehind
<1>10. Tracks = << >>
  BY <1>3, <1>9 DEF m
<1>11. calls' \in Seq(Call) /\ DOMAIN calls' = 1..(Len(calls) - 1)
  BY <1>1
<1>12. children # << >> => calls' = << >>
  <2>1. children # << >> => Len(calls') = 0
    BY <1>4, <1>9 DEF coming, n
  <2>. QED BY <1>11, <2>1
<1>13. ASSUME NEW i \in DOMAIN calls' PROVE calls'[i] = NoTrack
  <2>1. calls'[i] \in Call /\ calls'[i] \in ToSet(calls')
    BY <1>11 DEF ToSet
  <2>2. i + 1 \in 2..n /\ calls'[i] = calls[i + 1]
    BY <1>4, <1>11 DEF n
  <2>3. \A song \in Songs : calls'[i] # Metadata(song)
    BY <1>9, <2>2
  <2>. QED BY <1>8, <2>1, <2>3, CallsDiffer
<1>. QED BY <1>7, <1>8, <1>9, <1>10, <1>12, <1>13 DEF sent

\* The call tells that the song shown has finished.
LEMMA HandleFinish ==
  ASSUME PacedInv, HandleCall, Head(calls).of = "metadata", Head(calls).track # currentSong,
         FinishShown, ClearAfterLast, UNCHANGED commands
  PROVE  IsHeardOnce' /\ OneOnItsWay' /\ StartsSilent' /\ TracksArePlaced'
<1>1. /\ PartyTypeOK /\ calls \in Seq(Call) /\ calls # << >> /\ calls' = Tail(calls)
      /\ UNCHANGED <<currentTrack, nextTracks, hasMetadata, isPlaying, errors, commands,
                     sessionVars, queue, children>>
      /\ TrackCommands' = TrackCommands /\ Tracks' = Tracks
  BY DEF PacedInv, PartyTypeOK, SpotifyTypeOK, HandleCall, controllerVars, TrackCommands, Tracks
<1>2. /\ Head(calls) \in Call /\ Head(calls) # Played /\ Head(calls) # Metadata(currentSong)
      /\ NoTrackBeforePlayed(calls')
      /\ ToSet(calls) = ToSet(calls') \cup {Head(calls)}
      /\ \A i \in DOMAIN calls' : calls'[i] \in ToSet(calls')
  <2>1. NoTrackBeforePlayed(calls)
    BY DEF PacedInv, TracksArePlaced, NoTrackBeforePlayed
  <2>2. Head(calls) # Played /\ Head(calls) # Metadata(currentSong)
    BY DEF Played, Metadata
  <2>3. /\ Head(calls) \in Call /\ NoTrackBeforePlayed(calls')
        /\ ToSet(calls) = ToSet(calls') \cup {Head(calls)}
    BY <1>1, <2>1, HandledIs
  <2>. QED BY <2>2, <2>3 DEF ToSet
<1>3. Counted' = (gotFirstTrack' \/ Played \in ToSet(calls'))
      /\ (Played \in ToSet(calls') <=> Played \in ToSet(calls))
  BY <1>2 DEF Counted
<1>4. CASE Counted
  <2>1. Shown # << >> /\ currentSong # NoSong
    BY <1>4 DEF PacedInv, TracksArePlaced, IsHeardOnce, Shown
  <2>2. IsHeardOnce' /\ Shown' = Tail(Shown)
    BY <1>1, <2>1, HeardFinished DEF PacedInv
  <2>3. CASE songQueue # << >>
    <3>1. gotFirstTrack' = gotFirstTrack /\ Counted'
      <4>1. gotFirstTrack' = gotFirstTrack
        BY <1>1, <2>3 DEF ClearAfterLast, PartyTypeOK, SpotifyTypeOK
      <4>. QED BY <1>3, <1>4, <4>1 DEF Counted
    <3>2. /\ ArePlaced(calls', Tracks', Shown', children # << >>, TrackCommands # {}, errors = 0)
          /\ Shown # << >> /\ Shown' # << >> /\ Last(Shown') = Last(Shown)
      BY <1>1, <1>2, <1>4, <2>2, <2>3, HandlePops
    <3>3. OneOnItsWay'
      BY <1>1, <1>3, <3>2 DEF OneOnItsWay, PacedInv
    <3>4. StartsSilent'
      BY <1>1, <1>4, <3>1 DEF StartsSilent, PacedInv
    <3>5. TracksArePlaced'
      BY <1>1, <1>2, <3>1, <3>2 DEF TracksArePlaced, NoTrackBeforePlayed
    <3>. QED BY <2>2, <3>3, <3>4, <3>5
  <2>4. CASE songQueue = << >>
    <3>1. /\ Head(calls) = NoTrack /\ Played \notin ToSet(calls')
          /\ Tracks = << >> /\ TrackCommands = {}
          /\ children # << >> => calls' = << >>
          /\ \A i \in DOMAIN calls' : calls'[i] = NoTrack
      BY <1>1, <1>2, <1>4, <2>4, HandleLast
    <3>2. ~Counted'
      BY <1>3, <2>4, <3>1 DEF ClearAfterLast
    <3>3. Shown' = << >>
      <4>1. currentSong' = NoSong /\ songQueue' = << >>
        BY <2>4 DEF FinishShown
      <4>. QED BY <4>1 DEF Shown
    <3>4. currentTrack = NoSong /\ nextTracks = << >> /\ ~isPlaying
      <4>1. currentTrack \in MaybeSongs /\ nextTracks \in Seq(Songs)
            /\ (isPlaying => currentTrack # NoSong) /\ isPlaying \in BOOLEAN
        BY <1>1 DEF PartyTypeOK, SpotifyTypeOK
      <4>2. Tracks = FirstAnd(currentTrack, nextTracks)
        BY DEF Tracks, FirstAnd
      <4>3. currentTrack = NoSong
        BY <3>1, <4>1, <4>2, FirstAndIs
      <4>4. nextTracks = << >>
        BY <3>1, <4>1, <4>2, <4>3, FirstAndIs
      <4>. QED BY <4>1, <4>3, <4>4
    <3>5. OneOnItsWay'
      BY <1>1, <1>3, <3>1 DEF OneOnItsWay, PacedInv
    <3>6. StartsSilent'
      <4>1. \A i \in DOMAIN commands' : commands'[i].do # "queueURI"
        BY <1>1, <3>1 DEF TrackCommands, IsTrack
      <4>2. \A i \in DOMAIN calls' : calls'[i] = Metadata(NoSong)
        BY <3>1 DEF NoTrack
      <4>3. children' = << >> \/ calls' = << >>
        BY <1>1, <3>1
      <4>. QED BY <1>1, <3>1, <3>2, <3>4, <4>1, <4>2, <4>3 DEF StartsSilent
    <3>7. TracksArePlaced'
      <4>1. Len(Shown') = 0
        BY <3>3
      <4>. QED BY <1>1, <1>2, <3>1, <3>2, <4>1 DEF TracksArePlaced, NoTrackBeforePlayed
    <3>. QED BY <2>2, <3>5, <3>6, <3>7
  <2>. QED BY <2>3, <2>4
<1>5. CASE ~Counted
  <2>1. /\ nextTracks = << >> /\ \A i \in DOMAIN calls : calls[i] = Metadata(NoSong)
        /\ children = << >> /\ TrackCommands = {}
        /\ ~gotFirstTrack /\ Played \notin ToSet(calls)
    BY <1>1, <1>5 DEF PacedInv, StartsSilent, Counted
  <2>2. currentSong # NoSong
    <3>1. 1 \in DOMAIN calls /\ Head(calls) = calls[1]
      BY <1>1
    <3>. QED BY <1>2, <2>1, <3>1
  <2>3. IsHeardOnce' /\ Shown # << >>
    BY <1>1, <2>2, HeardFinished DEF PacedInv
  <2>4. errors # 0
    <3>1. Len(Shown) # 0
      BY <1>1, <2>3, ShownIs
    <3>. QED BY <1>5, <2>1, <3>1 DEF PacedInv, TracksArePlaced
  <2>5. ~Counted'
    BY <1>3, <2>1 DEF ClearAfterLast
  <2>6. OneOnItsWay'
    BY <1>1, <2>1 DEF OneOnItsWay, PacedInv
  <2>7. StartsSilent'
    <3>1. \A i \in DOMAIN calls' : calls'[i] = Metadata(NoSong)
      <4>1. \A i \in DOMAIN calls' : calls'[i] \in ToSet(calls)
        BY <1>2
      <4>. QED BY <2>1, <4>1 DEF ToSet
    <3>2. children' = << >> /\ TrackCommands' = {}
      BY <1>1, <2>1
    <3>. QED BY <1>1, <1>5, <2>1, <2>5, <3>1, <3>2 DEF StartsSilent, PacedInv
  <2>8. TracksArePlaced'
    BY <1>1, <1>2, <2>4, <2>5 DEF TracksArePlaced, NoTrackBeforePlayed
  <2>. QED BY <2>3, <2>6, <2>7, <2>8
<1>. QED BY <1>4, <1>5

LEMMA HandleParts ==
  ASSUME PacedInv, HandleCall
  PROVE  IsHeardOnce' /\ OneOnItsWay' /\ StartsSilent' /\ TracksArePlaced'
<1>1. CASE Head(calls).of = "played" /\ FirstTrackPlayed /\ UNCHANGED viewVars
  BY <1>1, HandlePlayed
<1>2. CASE /\ Head(calls).of = "metadata" /\ PlayerDidStartPlaying(Head(calls).track)
           /\ UNCHANGED commands
  <2>1. CASE Head(calls).track = currentSong
    <3>1. UNCHANGED <<viewVars, gotFirstTrack, commands>>
      BY <1>2, <2>1 DEF PlayerDidStartPlaying
    <3>. QED BY <1>2, <2>1, <3>1, HandleShown
  <2>2. CASE Head(calls).track # currentSong
    <3>1. FinishShown /\ ClearAfterLast
      BY <1>2, <2>2 DEF PlayerDidStartPlaying
    <3>. QED BY <1>2, <2>2, <3>1, HandleFinish
  <2>. QED BY <2>1, <2>2
<1>. QED BY <1>1, <1>2 DEF HandleCall

\* The host skips, when it shows what the controller plays.
LEMMA NextParts ==
  ASSUME PacedInv, OneSession, Settled, TapNext
  PROVE  IsHeardOnce' /\ OneOnItsWay' /\ StartsSilent' /\ TracksArePlaced'
<1>1. /\ PartyTypeOK /\ commands = << >> /\ calls = << >> /\ children = << >>
      /\ TrackCommands = {}
      /\ UNCHANGED <<currentTrack, nextTracks, hasMetadata, isPlaying, calls, errors,
                     sessionVars, queue, children>>
      /\ Tracks' = Tracks
  BY NoCommand DEF PacedInv, OneSession, TapNext, Settled, controllerVars, Tracks
<1>2. commands \in Seq(Command) /\ calls \in Seq(Call)
  BY <1>1 DEF PartyTypeOK, SpotifyTypeOK
<1>3. Played \notin ToSet(calls) /\ DOMAIN calls = {} /\ DOMAIN commands = {}
  BY <1>1 DEF ToSet
<1>4. CASE nextTracks # << >>
  <2>1. Send(SkipNext) /\ UNCHANGED <<viewVars, gotFirstTrack>>
    BY <1>4 DEF TapNext
  <2>2. SkipNext \in Command /\ ~IsTrack(SkipNext) /\ SkipNext.do # "playURI"
    BY DEF SkipNext, Command, IsTrack
  <2>3. TrackCommands' = {} /\ \A i \in DOMAIN commands' : commands'[i].do # "playURI"
    BY <1>1, <1>2, <1>3, <2>1, <2>2, SendTracks
  <2>4. IsHeardOnce' /\ Shown' = Shown
    BY <1>1, <2>1, HeardRests DEF ViewRests, PacedInv
  <2>5. Counted /\ Counted'
    <3>1. Counted
      BY <1>4 DEF PacedInv, StartsSilent
    <3>. QED BY <1>1, <2>1, <3>1 DEF Counted
  <2>6. OneOnItsWay'
    BY <1>1, <2>3 DEF OneOnItsWay
  <2>7. StartsSilent'
    BY <2>3, <2>5 DEF StartsSilent
  <2>8. TracksArePlaced'
    BY <1>1, <2>3, <2>4, <2>5 DEF TracksArePlaced, PacedInv
  <2>. QED BY <2>4, <2>6, <2>7, <2>8
<1>5. CASE nextTracks = << >>
  <2>1. /\ IF currentTrack # NoSong THEN Send(SetPlaying(FALSE)) ELSE UNCHANGED commands
        /\ gotFirstTrack' = FALSE
        /\ IF currentSong # NoSong THEN FinishShown ELSE UNCHANGED viewVars
    BY <1>5 DEF TapNext
  <2>2. /\ TrackCommands' = {}
        /\ \A i \in DOMAIN commands' : commands'[i] = SetPlaying(FALSE)
        /\ currentTrack # NoSong => commands' # << >>
    <3>1. CASE currentTrack # NoSong
      BY <1>1, <1>2, <1>3, <2>1, <3>1, SetPlayingIs, SendTracks
    <3>2. CASE currentTrack = NoSong
      BY <1>1, <1>3, <2>1, <3>2 DEF TrackCommands
    <3>. QED BY <3>1, <3>2
  <2>3. ~Counted'
    BY <1>1, <1>3, <2>1 DEF Counted
  <2>4. /\ IsHeardOnce'
        /\ currentSong # NoSong => Shown # << >> /\ Shown' = Tail(Shown)
        /\ currentSong = NoSong => Shown' = Shown
    <3>1. CASE currentSong # NoSong
      BY <1>1, <2>1, <3>1, HeardFinished DEF PacedInv
    <3>2. CASE currentSong = NoSong
      BY <1>1, <2>1, <3>2, HeardRests DEF ViewRests, PacedInv
    <3>. QED BY <3>1, <3>2
  <2>5. errors = 0 => Len(Shown') = 0
    <3>. SUFFICES ASSUME errors = 0 PROVE Len(Shown') = 0
      OBVIOUS
    <3>1. Shown \in Seq(Songs) /\ Tracks \in Seq(Songs) /\ Len(Shown) \in Nat
      BY <1>1, ShownIs
    <3>2. CASE Counted
      <4>1. /\ Shown # << >> /\ currentSong # NoSong
            /\ ArePlaced(calls, Tracks, Shown, FALSE, FALSE, TRUE)
        <5>1. /\ Shown # << >>
              /\ ArePlaced(calls, Tracks, Shown, children # << >>, TrackCommands # {}, errors = 0)
          BY <3>2 DEF PacedInv, TracksArePlaced
        <5>2. currentSong # NoSong
          BY <5>1 DEF PacedInv, IsHeardOnce, Shown
        <5>. DEFINE coming == children # << >>
                    sent == TrackCommands # {}
                    exact == errors = 0
        <5>3. coming = FALSE /\ sent = FALSE /\ exact = TRUE
          BY <1>1
        <5>4. ArePlaced(calls, Tracks, Shown, coming, sent, exact)
          BY <5>1
        <5>. HIDE DEF coming, sent, exact
        <5>5. ArePlaced(calls, Tracks, Shown, FALSE, FALSE, TRUE)
          BY <5>3, <5>4
        <5>. QED BY <5>1, <5>2, <5>5
      <4>2. Len(Tracks) \in Nat /\ Len(Tracks) <= 1
        BY <1>5 DEF Tracks
      <4>. DEFINE m == Len(Tracks)
                  l == Len(Shown)
      <4>3. /\ m \in Nat /\ m <= 1 /\ l \in Nat \ {0}
            /\ HavePlaces(0, calls, m, Tracks, l, Shown, FALSE, FALSE, TRUE)
        <5>1. m \in Nat /\ m <= 1 /\ l \in Nat /\ l # 0
          BY <3>1, <4>1, <4>2
        <5>2. Len(calls) = 0
          BY <1>1
        <5>3. HavePlaces(Len(calls), calls, m, Tracks, l, Shown, FALSE, FALSE, TRUE)
          BY <4>1 DEF ArePlaced
        <5>. QED BY <5>1, <5>2, <5>3
      <4>. HIDE DEF m, l
      <4>4. m = l
        BY <4>3, PlaceRest
      <4>5. l = 1
        BY <4>3, <4>4
      <4>. QED BY <2>4, <3>1, <4>1, <4>5 DEF l
    <3>3. CASE ~Counted
      <4>1. Len(Shown) = 0
        BY <1>1, <3>3 DEF PacedInv, TracksArePlaced
      <4>2. currentSong = NoSong
        BY <2>4, <3>1, <4>1
      <4>. QED BY <2>4, <4>1, <4>2
    <3>. QED BY <3>2, <3>3
  <2>6. OneOnItsWay'
    BY <1>1, <2>2 DEF OneOnItsWay
  <2>7. StartsSilent'
    <3>1. isPlaying => currentTrack # NoSong
      BY <1>1 DEF PartyTypeOK, SpotifyTypeOK
    <3>2. \A i \in DOMAIN commands' : commands'[i].do # "queueURI"
      BY <2>2, SetPlayingIs
    <3>. QED BY <1>1, <1>3, <1>5, <2>2, <2>3, <3>1, <3>2 DEF StartsSilent
  <2>8. TracksArePlaced'
    BY <1>1, <1>3, <2>2, <2>3, <2>5 DEF TracksArePlaced
  <2>. QED BY <2>4, <2>6, <2>7, <2>8
<1>. QED BY <1>4, <1>5

-----------------------------------------------------------------------------
(***************************************************************************)
(* Steps, and the invariant.                                               *)
(***************************************************************************)
LEMMA SessionParts ==
  ASSUME PacedInv, OneSession, ValidateSession \/ StartPlayer \/ SubscribeToUpdates
  PROVE  IsHeardOnce' /\ OneOnItsWay' /\ StartsSilent' /\ TracksArePlaced'
<1>1. IsHeardOnce' /\ children' = children
  BY HeardSession DEF PacedInv
<1>2. UNCHANGED <<gotFirstTrack, commands, currentTrack, nextTracks, isPlaying, calls, errors,
                  currentSong, songQueue>>
  BY DEF ValidateSession, StartPlayer, SubscribeToUpdates, spotifyVars, controllerVars, viewVars
<1>3. /\ Shown' = Shown /\ Tracks' = Tracks /\ TrackCommands' = TrackCommands
      /\ Counted' = Counted
  BY <1>2 DEF Shown, Tracks, TrackCommands, Counted
<1>. QED BY <1>1, <1>2, <1>3 DEF PacedInv, OneOnItsWay, StartsSilent, TracksArePlaced

LEMMA PacedInit == Init => PacedInv
<1>. SUFFICES ASSUME Init PROVE PacedInv
  OBVIOUS
<1>1. PartyTypeOK
  BY PartyTypeInit
<1>2. /\ commands = << >> /\ calls = << >> /\ children = << >> /\ queue = << >>
      /\ gotFirstTrack = FALSE /\ currentTrack = NoSong /\ nextTracks = << >> /\ isPlaying = FALSE
      /\ currentSong = NoSong /\ songQueue = << >> /\ songsPlayed = 0
      /\ validations = 0 /\ unanswered = 0 /\ subscribing = 0 /\ observers = 0
  BY DEF Init, SpotifyInit
<1>3. TrackCommands = {} /\ Shown = << >> /\ ToSet(calls) = {} /\ ~Counted
  BY <1>2 DEF TrackCommands, Shown, ToSet, Counted
<1>4. IsHeardOnce
  <2>1. Shown \o children = << >> /\ SubSeq(queue, 1, 0) = << >> /\ Len(queue) = 0
    BY <1>2, <1>3
  <2>. QED BY <1>2, <1>3, <2>1 DEF IsHeardOnce
<1>5. OneOnItsWay
  BY <1>2, <1>3 DEF OneOnItsWay
<1>6. StartsSilent
  BY <1>2, <1>3 DEF StartsSilent
<1>7. TracksArePlaced
  BY <1>2, <1>3 DEF TracksArePlaced
<1>. QED BY <1>1, <1>4, <1>5, <1>6, <1>7 DEF PacedInv

LEMMA PacedIsNext == [PacedNext]_partyVars => [Next]_partyVars
BY DEF PacedNext, Next

LEMMA PacedStep ==
  ASSUME OneSession, PacedInv, [PacedNext]_partyVars
  PROVE  PacedInv'
<1>1. PartyTypeOK'
  BY PartyTypeStep, PacedIsNext DEF PacedInv
<1>2. IsHeardOnce' /\ OneOnItsWay' /\ StartsSilent' /\ TracksArePlaced'
  <2>1. CASE Subscription
    BY <2>1, SessionParts DEF Subscription
  <2>2. ASSUME Settled, observers > 0, NEW song \in Songs, SongIsAdded(song)
        PROVE  IsHeardOnce' /\ OneOnItsWay' /\ StartsSilent' /\ TracksArePlaced'
    BY <2>2, AddedParts, HeardAdded DEF PacedInv
  <2>3. CASE DidAddSong
    BY <2>3, ShownParts, HeardShown DEF PacedInv, OneOnItsWay
  <2>4. CASE HandleCall
    BY <2>4, HandleParts
  <2>5. CASE TapPlayPause
    BY <2>5, PlayPauseParts, HeardRests DEF PacedInv, TapPlayPause, ViewRests
  <2>6. CASE Settled /\ TapNext
    BY <2>6, NextParts
  <2>7. CASE Controller
    BY <2>7, ControllerParts, HeardRests DEF PacedInv, Controller, ViewRests
  <2>8. CASE UNCHANGED partyVars
    <3>1. UNCHANGED <<gotFirstTrack, commands, currentTrack, nextTracks, isPlaying, calls, errors,
                      currentSong, songQueue, children>> /\ ViewRests
      BY <2>8 DEF partyVars, spotifyVars, controllerVars, viewVars, ViewRests
    <3>2. /\ Shown' = Shown /\ Tracks' = Tracks /\ TrackCommands' = TrackCommands
          /\ Counted' = Counted
      BY <3>1 DEF Shown, Tracks, TrackCommands, Counted
    <3>3. IsHeardOnce'
      BY <3>1, HeardRests DEF PacedInv
    <3>. QED BY <3>1, <3>2, <3>3 DEF PacedInv, OneOnItsWay, StartsSilent, TracksArePlaced
  <2>. QED BY <2>1, <2>2, <2>3, <2>4, <2>5, <2>6, <2>7, <2>8 DEF PacedNext, Callback, Added
<1>. QED BY <1>1, <1>2 DEF PacedInv

(***************************************************************************)
(* Every variable of the party and of its player holds values of its kind, *)
(* in every behaviour, paced or not.                                       *)
(***************************************************************************)
THEOREM PartyTypeCorrect == Spec => []PartyTypeOK
<1>1. Init => PartyTypeOK
  BY PartyTypeInit
<1>2. PartyTypeOK /\ [Next]_partyVars => PartyTypeOK'
  BY PartyTypeStep
<1>. QED BY <1>1, <1>2, PTL DEF Spec

LEMMA PacedInvariance == ASSUME OneSession PROVE PacedSpec => []PacedInv
<1>1. Init => PacedInv
  BY PacedInit
<1>2. PacedInv /\ [PacedNext]_partyVars => PacedInv'
  BY PacedStep
<1>. QED BY <1>1, <1>2, PTL DEF PacedSpec

(***************************************************************************)
(* With one session that is validated, every song that was heard of is     *)
(* shown or counted as played, once and in the order of the queue.         *)
(***************************************************************************)
THEOREM SongsAreCounted == ASSUME OneSession PROVE PacedSpec => []CountIsSlot
<1>1. PacedInv => CountIsSlot
  BY DEF PacedInv, IsHeardOnce, CountIsSlot
<1>. QED BY <1>1, PacedInvariance, PTL

\* Without a command on its way, the controller has what it is to play.
LEMMA NothingSent ==
  ASSUME TrackCommands = {}, nextTracks \in Seq(Songs)
  PROVE  TracksSent = << >> /\ ToPlay = Loaded \o nextTracks
<1>1. Cardinality(TrackCommands) = 0
  BY FS_EmptySet
<1>2. TracksSent = << >>
  BY <1>1 DEF TracksSent
<1>3. Loaded \in Seq({currentTrack} \cup Songs)
  <2>1. Loaded = << >> \/ Loaded = <<currentTrack>>
    BY DEF Loaded
  <2>2. << >> \in Seq({currentTrack} \cup Songs) /\ <<currentTrack>> \in Seq({currentTrack} \cup Songs)
    OBVIOUS
  <2>. QED BY <2>1, <2>2
<1>4. Loaded \o nextTracks \in Seq({currentTrack} \cup Songs)
  BY <1>3
<1>5. (Loaded \o nextTracks) \o << >> = Loaded \o nextTracks
  BY <1>4
<1>. QED BY <1>2, <1>5 DEF ToPlay

(***************************************************************************)
(* Once all is told and no command failed, the controller has to play what *)
(* the host shows, in the same order.                                      *)
(***************************************************************************)
THEOREM ShowsWhatIsPlayed == ASSUME OneSession PROVE PacedSpec => []PlaysWhatIsShown
<1>1. ASSUME PacedInv, Settled, errors = 0
      PROVE  ToPlay = Shown
  <2>1. /\ PartyTypeOK /\ commands = << >> /\ calls = << >> /\ children = << >>
        /\ TrackCommands = {}
    BY <1>1, NoCommand DEF PacedInv, Settled
  <2>2. /\ currentTrack \in MaybeSongs /\ nextTracks \in Seq(Songs)
        /\ Shown \in Seq(Songs) /\ Tracks \in Seq(Songs) /\ Len(Shown) \in Nat
    BY <2>1, ShownIs DEF PartyTypeOK, SpotifyTypeOK
  <2>3. ToPlay = Loaded \o nextTracks
    BY <2>1, <2>2, NothingSent
  <2>4. CASE Counted
    <3>1. Loaded \o nextTracks = Tracks
      BY <2>4 DEF Loaded, Tracks
    <3>. DEFINE coming == children # << >>
                sent == TrackCommands # {}
                exact == errors = 0
                m == Len(Tracks)
                l == Len(Shown)
    <3>2. coming = FALSE /\ sent = FALSE /\ exact = TRUE /\ Len(calls) = 0
      BY <1>1, <2>1
    <3>3. Shown # << >> /\ HavePlaces(Len(calls), calls, m, Tracks, l, Shown, coming, sent, exact)
      BY <1>1, <2>4 DEF PacedInv, TracksArePlaced, ArePlaced
    <3>4. m \in Nat /\ l \in Nat \ {0}
      BY <2>2, <3>3
    <3>. HIDE DEF coming, sent, exact, m, l
    <3>5. HavePlaces(0, calls, m, Tracks, l, Shown, FALSE, FALSE, TRUE)
      BY <3>2, <3>3
    <3>6. m = l /\ Extends(m, Shown, Tracks)
      BY <3>4, <3>5, PlaceRest
    <3>7. Tracks = Shown
      BY <2>2, <3>6 DEF m, l, Extends
    <3>. QED BY <2>3, <3>1, <3>7
  <2>5. CASE ~Counted
    <3>1. nextTracks = << >> /\ Loaded = << >>
      BY <1>1, <2>5 DEF PacedInv, StartsSilent, Loaded
    <3>2. Len(Shown) = 0
      BY <1>1, <2>1, <2>5 DEF PacedInv, TracksArePlaced
    <3>3. Shown = << >>
      BY <2>2, <3>2
    <3>. QED BY <2>3, <3>1, <3>3
  <2>. QED BY <2>4, <2>5
<1>2. PacedInv => PlaysWhatIsShown
  BY <1>1 DEF PlaysWhatIsShown
<1>. QED BY <1>2, PacedInvariance, PTL

-----------------------------------------------------------------------------
(***************************************************************************)
(* The player is a jukebox.                                                *)
(***************************************************************************)
\* What the controller has, and the tracks of commands on their way.
Ready == Loaded \o nextTracks

SentOf(cmds, tracks) ==
    LET nth(k) == CHOOSE i \in tracks : Cardinality({j \in tracks : j <= i}) = k
    IN [k \in 1..Cardinality(tracks) |-> cmds[nth(k)].track]

LEMMA SentOfOne ==
  ASSUME NEW cmds, NEW i \in Nat
  PROVE  SentOf(cmds, {i}) = <<cmds[i].track>>
<1>1. Cardinality({i}) = 1
  BY FS_Singleton
<1>2. {j \in {i} : j <= i} = {i}
  OBVIOUS
<1>. DEFINE Nth(x, k) == Cardinality({j \in {i} : j <= x}) = k
<1>3. Nth(i, 1)
  BY <1>1, <1>2
<1>. HIDE DEF Nth
<1>4. (CHOOSE x \in {i} : Nth(x, 1)) = i
  BY <1>3
<1>5. SentOf(cmds, {i}) = [k \in 1..1 |-> cmds[CHOOSE x \in {i} : Nth(x, k)].track]
  BY <1>1 DEF SentOf, Nth
<1>. DEFINE At(k) == CHOOSE x \in {i} : Nth(x, k)
<1>6. \A k \in 1..1 : At(k) = i
  <2>1. \A k \in 1..1 : k = 1
    OBVIOUS
  <2>2. At(1) = i
    BY <1>4
  <2>. HIDE DEF At
  <2>. QED BY <2>1, <2>2
<1>7. SentOf(cmds, {i}) = [k \in 1..1 |-> cmds[At(k)].track]
  BY <1>5
<1>. HIDE DEF At
<1>8. SentOf(cmds, {i}) = [k \in 1..1 |-> cmds[i].track]
  BY <1>6, <1>7
<1>. QED BY <1>8

PartsToPlay ==
    /\ Ready \in Seq(Songs) /\ TracksSent \in Seq(Songs)
    /\ ToPlay = Ready \o TracksSent
    /\ Ready = IF Counted THEN Tracks ELSE << >>
    /\ TrackCommands = {} => TracksSent = << >>
    /\ \A i \in TrackCommands : TracksSent = <<commands[i].track>> /\ commands[i].track \in Songs

LEMMA PartsToPlayAre == PacedInv => PartsToPlay
<1>. SUFFICES ASSUME PacedInv PROVE PartsToPlay
  OBVIOUS
<1>1. /\ PartyTypeOK /\ commands \in Seq(Command) /\ nextTracks \in Seq(Songs)
      /\ currentTrack \in MaybeSongs /\ Tracks \in Seq(Songs)
  BY ShownIs DEF PacedInv, PartyTypeOK, SpotifyTypeOK
<1>2. TracksSent = SentOf(commands, TrackCommands)
  BY DEF TracksSent, SentOf
<1>3. TrackCommands = {} => TracksSent = << >>
  BY <1>1, NothingSent
<1>4. ASSUME NEW i \in TrackCommands
      PROVE  TracksSent = <<commands[i].track>> /\ commands[i].track \in Songs
  <2>1. i \in DOMAIN commands /\ i \in Nat /\ IsTrack(commands[i]) /\ commands[i] \in Command
    BY <1>1 DEF TrackCommands
  <2>2. TrackCommands = {i}
    BY DEF PacedInv, OneOnItsWay
  <2>3. commands[i].track \in Songs
    BY <2>1 DEF Command, IsTrack
  <2>. QED BY <1>2, <2>1, <2>2, <2>3, SentOfOne
<1>5. TracksSent \in Seq(Songs)
  <2>1. CASE TrackCommands = {}
    BY <1>3, <2>1
  <2>2. CASE TrackCommands # {}
    <3>1. PICK i \in TrackCommands : TRUE
      BY <2>2
    <3>2. TracksSent = <<commands[i].track>> /\ commands[i].track \in Songs
      BY <1>4
    <3>. QED BY <3>2
  <2>. QED BY <2>1, <2>2
<1>6. Ready = IF Counted THEN Tracks ELSE << >>
  <2>1. CASE Counted
    BY <2>1 DEF Ready, Loaded, Tracks
  <2>2. CASE ~Counted
    <3>1. nextTracks = << >> /\ Loaded = << >>
      BY <2>2 DEF PacedInv, StartsSilent, Loaded
    <3>. QED BY <2>2, <3>1 DEF Ready
  <2>. QED BY <2>1, <2>2
<1>7. ToPlay = Ready \o TracksSent
  BY DEF ToPlay, Ready
<1>8. Ready \in Seq(Songs)
  BY <1>1, <1>6
<1>. QED BY <1>3, <1>4, <1>5, <1>6, <1>7, <1>8 DEF PartsToPlay

LEMMA PartsOfStep == PacedInv /\ PacedInv' => PartsToPlay /\ PartsToPlay'
  BY PartsToPlayAre, PTL

Sounding == isPlaying /\ ToPlay # << >>
Plays == Player!Next \/ UNCHANGED <<ToPlay, Sounding>>

\* Nothing that is played changes.
LEMMA PlayRests ==
  ASSUME ToPlay' = ToPlay, isPlaying' = isPlaying
  PROVE  Plays
BY DEF Plays, Sounding

\* The commands that are added, if any, are not for a track.
LEMMA SentRests ==
  ASSUME PartsToPlay, PartsToPlay', TrackCommands' = TrackCommands,
         \A i \in TrackCommands : commands'[i] = commands[i]
  PROVE  TracksSent' = TracksSent
<1>1. CASE TrackCommands = {}
  BY <1>1 DEF PartsToPlay
<1>2. CASE TrackCommands # {}
  <2>1. PICK i \in TrackCommands : TRUE
    BY <1>2
  <2>. QED BY <2>1 DEF PartsToPlay
<1>. QED BY <1>1, <1>2

LEMMA PlayGives ==
  ASSUME PacedInv, PacedInv', OneSession, DidAddSong
  PROVE  Plays
<1>. DEFINE song == Head(children)
            cmd == IF gotFirstTrack THEN QueueURI(song) ELSE PlayURI(song)
<1>1. children # << >> /\ song \in Songs /\ commands \in Seq(Command)
  BY DEF DidAddSong, PacedInv, PartyTypeOK, SpotifyTypeOK
<1>2. TrackCommands = {}
  BY <1>1 DEF PacedInv, OneOnItsWay
<1>3. /\ cmd \in Command /\ IsTrack(cmd) /\ cmd.track = song /\ Send(cmd)
  BY <1>1, TrackIs DEF DidAddSong, Enqueue
<1>4. PartsToPlay /\ PartsToPlay'
  BY PartsOfStep
<1>5. Ready' = Ready /\ isPlaying' = isPlaying
  BY DEF DidAddSong, controllerVars, Ready, Loaded, Counted
<1>. HIDE DEF song, cmd
<1>6. TracksSent' = <<song>>
  <2>1. Len(commands) + 1 \in TrackCommands' /\ commands'[Len(commands) + 1] = cmd
    BY <1>1, <1>3, SendTracks
  <2>2. TracksSent' = <<commands'[Len(commands) + 1].track>>
    BY <1>4, <2>1 DEF PartsToPlay
  <2>. QED BY <1>3, <2>1, <2>2
<1>7. ToPlay = Ready /\ ToPlay \in Seq(Songs)
  BY <1>2, <1>4 DEF PartsToPlay
<1>8. ToPlay' = Append(ToPlay, song)
  <2>1. ToPlay' = ToPlay \o <<song>>
    BY <1>4, <1>5, <1>6, <1>7 DEF PartsToPlay
  <2>2. ToPlay \o <<song>> = Append(ToPlay, song)
    BY <1>1, <1>7
  <2>. QED BY <2>1, <2>2
<1>9. ToPlay' # << >>
  BY <1>1, <1>7, <1>8
<1>10. Sounding' \in {Sounding, TRUE}
  <2>1. isPlaying \in BOOLEAN
    BY DEF PacedInv, PartyTypeOK, SpotifyTypeOK
  <2>. QED BY <1>5, <1>9, <2>1 DEF Sounding
<1>. QED BY <1>1, <1>8, <1>10 DEF Plays, Player!Next, Player!Give, Sounding

LEMMA PlayHandles ==
  ASSUME PacedInv, PacedInv', HandleCall
  PROVE  Plays
<1>1. /\ PartyTypeOK /\ calls \in Seq(Call) /\ commands \in Seq(Command)
      /\ calls # << >> /\ calls' = Tail(calls)
      /\ isPlaying' = isPlaying /\ currentTrack' = currentTrack /\ nextTracks' = nextTracks
      /\ gotFirstTrack \in BOOLEAN
  BY DEF PacedInv, PartyTypeOK, SpotifyTypeOK, HandleCall, controllerVars
<1>2. PartsToPlay /\ PartsToPlay'
  BY PartsOfStep
<1>3. Tracks' = Tracks
  BY <1>1 DEF Tracks
<1>4. Head(calls) \in Call /\ ToSet(calls) = ToSet(calls') \cup {Head(calls)}
  BY <1>1, HandledIs
<1>5. TracksSent' = TracksSent
  <2>1. commands' = commands \/ Send(SetPlaying(FALSE))
    BY DEF HandleCall, FirstTrackPlayed
  <2>2. /\ TrackCommands' = TrackCommands
        /\ \A i \in TrackCommands : commands'[i] = commands[i]
    <3>1. CASE commands' = commands
      BY <3>1 DEF TrackCommands
    <3>2. CASE Send(SetPlaying(FALSE))
      <4>1. SetPlaying(FALSE) \in Command /\ ~IsTrack(SetPlaying(FALSE))
        BY SetPlayingIs
      <4>. QED BY <1>1, <3>2, <4>1, SendTracks DEF TrackCommands
    <3>. QED BY <2>1, <3>1, <3>2
  <2>. QED BY <1>2, <2>2, SentRests
<1>6. Ready' = Ready
  <2>1. CASE Head(calls).of = "played" /\ FirstTrackPlayed
    <3>1. Head(calls) = Played /\ 1 \in DOMAIN calls /\ calls[1] = Head(calls)
      BY <1>1, <1>4, <2>1 DEF Call, Played
    <3>2. Counted
      BY <1>4, <3>1 DEF Counted
    <3>3. Counted'
      BY <2>1 DEF FirstTrackPlayed, Counted
    <3>. QED BY <1>2, <1>3, <3>2, <3>3 DEF PartsToPlay
  <2>2. CASE Head(calls).of = "metadata" /\ PlayerDidStartPlaying(Head(calls).track)
    <3>1. Head(calls) # Played
      BY <2>2 DEF Played
    <3>2. Counted' <=> (gotFirstTrack' \/ Played \in ToSet(calls))
      BY <1>4, <3>1 DEF Counted
    <3>3. CASE gotFirstTrack' = gotFirstTrack
      <4>1. Counted' <=> Counted
        BY <3>2, <3>3 DEF Counted
      <4>. QED BY <1>2, <1>3, <4>1 DEF PartsToPlay
    <3>4. CASE gotFirstTrack' # gotFirstTrack
      <4>1. /\ Head(calls).track # currentSong /\ gotFirstTrack /\ ~gotFirstTrack'
            /\ songQueue = << >>
        BY <1>1, <2>2, <3>4 DEF PlayerDidStartPlaying, ClearAfterLast
      <4>2. Counted /\ Head(calls) # Metadata(currentSong)
        BY <4>1 DEF Counted, Metadata
      <4>3. Tracks = << >>
        BY <1>1, <1>4, <3>1, <4>1, <4>2, HandleLast
      <4>. QED BY <1>2, <1>3, <4>3 DEF PartsToPlay
    <3>. QED BY <3>3, <3>4
  <2>. QED BY <2>1, <2>2 DEF HandleCall
<1>. QED BY <1>1, <1>2, <1>5, <1>6, PlayRests DEF PartsToPlay

LEMMA PlayTaps ==
  ASSUME PacedInv, PacedInv', OneSession, TapPlayPause \/ (Settled /\ TapNext)
  PROVE  Plays
<1>1. /\ commands \in Seq(Command) /\ calls' = calls /\ isPlaying' = isPlaying
      /\ currentTrack' = currentTrack /\ nextTracks' = nextTracks
      /\ isPlaying \in BOOLEAN
  BY DEF PacedInv, PartyTypeOK, SpotifyTypeOK, TapPlayPause, TapNext, controllerVars
<1>2. PartsToPlay /\ PartsToPlay'
  BY PartsOfStep
<1>3. TracksSent' = TracksSent
  <2>1. commands' = commands \/ \E cmd \in Command : ~IsTrack(cmd) /\ Send(cmd)
    <3>1. SkipNext \in Command /\ ~IsTrack(SkipNext)
      BY DEF SkipNext, Command, IsTrack
    <3>2. /\ SetPlaying(TRUE) \in Command /\ ~IsTrack(SetPlaying(TRUE))
          /\ SetPlaying(FALSE) \in Command /\ ~IsTrack(SetPlaying(FALSE))
      BY SetPlayingIs
    <3>3. CASE TapPlayPause
      BY <3>2, <3>3 DEF TapPlayPause, Play, Pause
    <3>4. CASE TapNext
      BY <3>1, <3>2, <3>4 DEF TapNext
    <3>. QED BY <3>3, <3>4
  <2>2. /\ TrackCommands' = TrackCommands
        /\ \A i \in TrackCommands : commands'[i] = commands[i]
    <3>1. CASE commands' = commands
      BY <3>1 DEF TrackCommands
    <3>2. CASE \E cmd \in Command : ~IsTrack(cmd) /\ Send(cmd)
      BY <1>1, <3>2, SendTracks DEF TrackCommands
    <3>. QED BY <2>1, <3>1, <3>2
  <2>. QED BY <1>2, <2>2, SentRests
<1>4. CASE gotFirstTrack' = gotFirstTrack
  <2>1. Ready' = Ready
    BY <1>1, <1>4 DEF Ready, Loaded, Counted
  <2>. QED BY <1>1, <1>2, <1>3, <2>1, PlayRests DEF PartsToPlay
<1>5. CASE gotFirstTrack' # gotFirstTrack
  <2>1. Settled /\ TapNext /\ nextTracks = << >> /\ gotFirstTrack' = FALSE
    BY <1>5 DEF TapNext, TapPlayPause
  <2>2. commands = << >> /\ calls = << >> /\ TrackCommands = {}
    BY <2>1, NoCommand DEF TapNext, OneSession, Settled
  <2>3. Loaded' = << >> /\ Ready' = << >> /\ Ready = Loaded
    <3>1. ~Counted'
      BY <1>1, <2>1, <2>2 DEF Counted, ToSet
    <3>2. Loaded' = << >> /\ (Loaded = << >> \/ Loaded = <<currentTrack>>)
      BY <3>1 DEF Loaded
    <3>. QED BY <1>1, <2>1, <3>2 DEF Ready
  <2>4. TracksSent = << >>
    BY <1>2, <2>2 DEF PartsToPlay
  <2>5. ToPlay' = << >> /\ ToPlay = Loaded
    BY <1>2, <1>3, <2>3, <2>4 DEF PartsToPlay
  <2>6. CASE Loaded = << >>
    BY <1>1, <2>5, <2>6, PlayRests
  <2>7. CASE Loaded # << >>
    <3>1. Loaded = <<currentTrack>> /\ Tail(<<currentTrack>>) = << >>
      BY <2>7 DEF Loaded
    <3>2. ToPlay # << >> /\ ToPlay' = Tail(ToPlay) /\ Sounding' = FALSE
      BY <2>5, <2>7, <3>1 DEF Sounding
    <3>. QED BY <3>2 DEF Plays, Player!Next, Player!Finish, Sounding
  <2>. QED BY <2>6, <2>7
<1>. QED BY <1>4, <1>5

LEMMA TailOfConcat ==
  ASSUME NEW s \in Seq(Songs), NEW t \in Seq(Songs), s # << >>
  PROVE  Tail(s \o t) = Tail(s) \o t
<1>. DEFINE u == Tail(s \o t)
            v == Tail(s) \o t
<1>1. Len(s) \in Nat \ {0} /\ Len(t) \in Nat /\ Tail(s) \in Seq(Songs) /\ Len(Tail(s)) = Len(s) - 1
  OBVIOUS
<1>2. s \o t \in Seq(Songs) /\ Len(s \o t) = Len(s) + Len(t) /\ s \o t # << >>
  BY <1>1
<1>3. u \in Seq(Songs) /\ Len(u) = Len(s) + Len(t) - 1
  BY <1>1, <1>2
<1>4. v \in Seq(Songs) /\ Len(v) = Len(s) + Len(t) - 1
  BY <1>1
<1>5. \A k \in 1..(Len(s) + Len(t) - 1) : u[k] = v[k]
  <2>. SUFFICES ASSUME NEW k \in 1..(Len(s) + Len(t) - 1) PROVE u[k] = v[k]
    OBVIOUS
  <2>1. u[k] = (s \o t)[k + 1]
    BY <1>1, <1>2
  <2>2. CASE k <= Len(s) - 1
    <3>1. k + 1 \in 1..Len(s) /\ k \in 1..Len(Tail(s))
      BY <1>1, <2>2
    <3>2. (s \o t)[k + 1] = s[k + 1]
      BY <3>1
    <3>3. v[k] = Tail(s)[k]
      BY <1>1, <3>1
    <3>4. Tail(s)[k] = s[k + 1]
      BY <1>1, <3>1
    <3>. QED BY <2>1, <3>2, <3>3, <3>4
  <2>3. CASE k > Len(s) - 1
    <3>1. k - (Len(s) - 1) \in 1..Len(t) /\ (k + 1) - Len(s) = k - (Len(s) - 1)
      BY <1>1, <2>3
    <3>2. (s \o t)[k + 1] = t[(k + 1) - Len(s)]
      BY <1>1, <2>3
    <3>3. v[k] = t[k - (Len(s) - 1)]
      BY <1>1, <2>3
    <3>. QED BY <2>1, <3>1, <3>2, <3>3
  <2>. QED BY <1>1, <2>2, <2>3
<1>. HIDE DEF u, v
<1>6. u = v
  BY <1>3, <1>4, <1>5
<1>. QED BY <1>6 DEF u, v

\* The commands but the first are as before, which is not for a track.
LEMMA SentShifts ==
  ASSUME PacedInv, PartsToPlay, PartsToPlay', commands # << >>, commands' = Tail(commands),
         ~IsTrack(Head(commands))
  PROVE  TracksSent' = TracksSent
<1>1. commands \in Seq(Command)
  BY DEF PacedInv, PartyTypeOK, SpotifyTypeOK
<1>2. /\ TrackCommands' = {} <=> TrackCommands = {}
      /\ \A i \in TrackCommands' : i + 1 \in TrackCommands /\ commands'[i] = commands[i + 1]
  BY <1>1, ReceiveTracks
<1>3. CASE TrackCommands = {}
  BY <1>2, <1>3 DEF PartsToPlay
<1>4. CASE TrackCommands # {}
  <2>1. PICK i \in TrackCommands' : TRUE
    BY <1>2, <1>4
  <2>2. TracksSent' = <<commands'[i].track>>
    BY DEF PartsToPlay
  <2>3. TracksSent = <<commands[i + 1].track>>
    BY <1>2 DEF PartsToPlay
  <2>. QED BY <1>2, <2>2, <2>3
<1>. QED BY <1>3, <1>4

\* A track that ends or is skipped leaves from the front.
LEMMA PlayAdvances ==
  ASSUME PacedInv, PartsToPlay, PartsToPlay', Advance,
         TracksSent' = TracksSent, gotFirstTrack' = gotFirstTrack
  PROVE  Plays
<1>1. /\ SpotifyTypeOK /\ currentTrack \in MaybeSongs /\ nextTracks \in Seq(Songs)
      /\ calls \in Seq(Call) /\ isPlaying \in BOOLEAN
      /\ isPlaying \/ nextTracks # << >> => currentTrack # NoSong
  BY DEF PacedInv, PartyTypeOK, SpotifyTypeOK
<1>2. Counted' = Counted
  <2>1. currentTrack' \in MaybeSongs
    BY <1>1, AdvanceType
  <2>2. Metadata(currentTrack') \in Call /\ Metadata(currentTrack') # Played
    BY <1>1, <2>1, TellType DEF Metadata, Played
  <2>3. ToSet(calls') = ToSet(calls) \cup {Metadata(currentTrack')}
    BY <1>1, <2>2, TellIs DEF Advance
  <2>. QED BY <2>2, <2>3 DEF Counted
<1>3. Tracks' = nextTracks
  <2>1. CASE nextTracks = << >>
    BY <2>1 DEF Advance, Tracks
  <2>2. CASE nextTracks # << >>
    <3>1. currentTrack' = Head(nextTracks) /\ nextTracks' = Tail(nextTracks)
      BY <2>2 DEF Advance
    <3>2. Head(nextTracks) # NoSong /\ <<Head(nextTracks)>> \o Tail(nextTracks) = nextTracks
      BY <1>1, <2>2, SpotifyAssumption
    <3>. QED BY <3>1, <3>2 DEF Tracks
  <2>. QED BY <2>1, <2>2
<1>4. isPlaying' = (isPlaying /\ nextTracks # << >>)
  BY DEF Advance
<1>5. CASE ~Counted
  <2>1. ToPlay' = ToPlay
    BY <1>2, <1>5 DEF PartsToPlay
  <2>2. nextTracks = << >> /\ (TrackCommands # {} => ~isPlaying)
    BY <1>5 DEF PacedInv, StartsSilent
  <2>3. ~isPlaying \/ ToPlay = << >>
    <3>1. TrackCommands = {} => ToPlay = << >>
      BY <1>5 DEF PartsToPlay
    <3>. QED BY <2>2, <3>1
  <2>4. Sounding' = FALSE /\ Sounding = FALSE
    BY <1>4, <2>2, <2>3 DEF Sounding
  <2>. QED BY <2>1, <2>4 DEF Plays
<1>6. CASE Counted /\ currentTrack = NoSong
  <2>1. nextTracks = << >> /\ ~isPlaying
    BY <1>1, <1>6
  <2>2. Tracks = << >>
    BY <1>6, <2>1 DEF Tracks
  <2>3. Ready' = Ready
    BY <1>2, <1>3, <1>6, <2>1, <2>2 DEF PartsToPlay
  <2>. QED BY <1>1, <1>4, <2>1, <2>3, PlayRests DEF PartsToPlay
<1>7. CASE Counted /\ currentTrack # NoSong
  <2>1. Tracks # << >> /\ Tail(Tracks) = nextTracks /\ Tracks \in Seq(Songs)
    BY <1>1, <1>7, FirstAndIs DEF Tracks, FirstAnd
  <2>2. ToPlay = Tracks \o TracksSent /\ ToPlay' = nextTracks \o TracksSent
    BY <1>2, <1>3, <1>7 DEF PartsToPlay
  <2>3. ToPlay' = Tail(ToPlay)
    BY <2>1, <2>2, TailOfConcat DEF PartsToPlay
  <2>4. ToPlay # << >>
    BY <2>1, <2>2 DEF PartsToPlay
  <2>5. nextTracks # << >> => ToPlay' # << >>
    BY <1>1, <2>2 DEF PartsToPlay
  <2>6. Sounding' \in {Sounding, FALSE} /\ (Sounding' => ToPlay' # << >>)
    BY <1>1, <1>4, <2>4, <2>5 DEF Sounding
  <2>. QED BY <2>3, <2>4, <2>6 DEF Plays, Player!Next, Player!Finish, Sounding
<1>. QED BY <1>5, <1>6, <1>7

\* The first track is played.
LEMMA PlayStarts ==
  ASSUME PacedInv, PartsToPlay, PartsToPlay', Receive, ViewRests, Head(commands).do = "playURI",
         Replace(Head(commands).track)
  PROVE  Plays
<1>. DEFINE track == Head(commands).track
<1>1. commands # << >> /\ commands' = Tail(commands) /\ commands \in Seq(Command)
  BY DEF Receive, PacedInv, PartyTypeOK, SpotifyTypeOK
<1>2. IsTrack(Head(commands)) /\ children' = children
  BY DEF IsTrack, ViewRests
<1>3. TrackCommands # {} /\ TrackCommands' = {} /\ track \in Songs
  BY <1>1, <1>2, ReceiveTrack
<1>4. 1 \in TrackCommands /\ 1 \in DOMAIN commands /\ commands[1] = Head(commands)
  BY <1>1, <1>2, ReceiveTracks
<1>5. ~Counted /\ ~isPlaying
  BY <1>3, <1>4 DEF PacedInv, StartsSilent
<1>6. currentTrack' = track /\ nextTracks' = << >> /\ isPlaying' = TRUE /\ Counted'
  <2>1. currentTrack' = track /\ nextTracks' = << >> /\ isPlaying' = TRUE
    BY DEF Replace
  <2>2. calls \in Seq(Call) /\ Played \in Call /\ Metadata(track) \in Call
    BY <1>3, CallsDiffer DEF PacedInv, PartyTypeOK, SpotifyTypeOK
  <2>3. Played \in ToSet(calls')
    <3>1. CASE calls' = calls \o <<Metadata(track), Played>>
      <4>1. Len(calls) + 2 \in DOMAIN calls' /\ calls'[Len(calls) + 2] = Played
        BY <2>2, <3>1
      <4>. QED BY <4>1 DEF ToSet
    <3>2. CASE calls' = calls \o <<Played, Metadata(track)>>
      <4>1. Len(calls) + 1 \in DOMAIN calls' /\ calls'[Len(calls) + 1] = Played
        BY <2>2, <3>2
      <4>. QED BY <4>1 DEF ToSet
    <3>. QED BY <3>1, <3>2 DEF Replace, Tell
  <2>. QED BY <2>1, <2>3 DEF Counted
<1>7. Ready = << >> /\ TracksSent = <<track>>
  BY <1>4, <1>5 DEF PartsToPlay
<1>8. Ready' = <<track>> /\ TracksSent' = << >>
  <2>1. Tracks' = <<track>>
    BY <1>3, <1>6, SpotifyAssumption DEF Tracks
  <2>. QED BY <1>3, <1>6, <2>1 DEF PartsToPlay
<1>. HIDE DEF track
<1>9. ToPlay = <<track>> /\ ToPlay' = <<track>>
  <2>1. << >> \o <<track>> = <<track>> /\ <<track>> \o << >> = <<track>>
    OBVIOUS
  <2>. QED BY <1>7, <1>8, <2>1 DEF PartsToPlay
<1>10. ToPlay # << >> /\ Sounding' = ~Sounding
  BY <1>5, <1>6, <1>9 DEF Sounding
<1>. QED BY <1>9, <1>10 DEF Plays, Player!Next, Player!PlayOrPause, Sounding

\* A track is queued: it was the last to play, and is.
LEMMA PlayFollows ==
  ASSUME PacedInv, PartsToPlay, PartsToPlay', Receive, ViewRests, Head(commands).do = "queueURI",
         Follow(Head(commands).track)
  PROVE  Plays
<1>. DEFINE track == Head(commands).track
<1>1. /\ commands # << >> /\ commands' = Tail(commands) /\ commands \in Seq(Command)
      /\ gotFirstTrack' = gotFirstTrack /\ isPlaying' = isPlaying
      /\ calls \in Seq(Call) /\ currentTrack \in MaybeSongs /\ nextTracks \in Seq(Songs)
      /\ nextTracks # << >> => currentTrack # NoSong
  BY DEF Receive, Follow, PacedInv, PartyTypeOK, SpotifyTypeOK
<1>2. IsTrack(Head(commands)) /\ children' = children
  BY DEF IsTrack, ViewRests
<1>3. TrackCommands # {} /\ TrackCommands' = {} /\ track \in Songs
  BY <1>1, <1>2, ReceiveTrack
<1>4. 1 \in TrackCommands /\ 1 \in DOMAIN commands /\ commands[1] = Head(commands)
  BY <1>1, <1>2, ReceiveTracks
<1>5. Counted
  BY <1>4 DEF PacedInv, StartsSilent
<1>6. Counted'
  <2>1. currentTrack' \in MaybeSongs
    BY <1>1, <1>3 DEF Follow, MaybeSongs
  <2>2. Metadata(currentTrack') \in Call
    BY <1>1, <2>1, TellType
  <2>3. ToSet(calls') = ToSet(calls) \cup {Metadata(currentTrack')}
    BY <1>1, <2>2, TellIs DEF Follow
  <2>. QED BY <1>1, <1>5, <2>3 DEF Counted
<1>7. Tracks \in Seq(Songs) /\ Tracks' = Tracks \o <<track>>
  <2>1. CASE currentTrack = NoSong
    <3>1. currentTrack' = track /\ nextTracks' = << >> /\ nextTracks = << >> /\ track # NoSong
      BY <1>1, <1>3, <2>1, SpotifyAssumption DEF Follow
    <3>2. Tracks = << >> /\ Tracks' = <<track>>
      BY <2>1, <3>1 DEF Tracks
    <3>. QED BY <3>2
  <2>2. CASE currentTrack # NoSong
    <3>1. currentTrack' = currentTrack /\ nextTracks' = Append(nextTracks, track)
      BY <2>2 DEF Follow
    <3>2. Tracks = <<currentTrack>> \o nextTracks
          /\ Tracks' = <<currentTrack>> \o Append(nextTracks, track)
      BY <2>2, <3>1 DEF Tracks
    <3>3. currentTrack \in Songs
      BY <1>1, <2>2 DEF MaybeSongs
    <3>. HIDE DEF track
    <3>4. /\ Append(nextTracks, track) = nextTracks \o <<track>>
          /\ <<currentTrack>> \in Seq(Songs) /\ <<track>> \in Seq(Songs)
      BY <1>1, <1>3, <3>3, AppendIsConcat
    <3>5. <<currentTrack>> \o (nextTracks \o <<track>>) = (<<currentTrack>> \o nextTracks) \o <<track>>
      BY <1>1, <3>4, ConcatAssociative
    <3>6. <<currentTrack>> \o nextTracks \in Seq(Songs)
      BY <1>1, <3>4
    <3>. QED BY <3>2, <3>4, <3>5, <3>6
  <2>. QED BY <2>1, <2>2
<1>8. TracksSent = <<track>> /\ TracksSent' = << >>
  BY <1>3, <1>4 DEF PartsToPlay
<1>. HIDE DEF track
<1>9. ToPlay = Tracks \o <<track>> /\ ToPlay' = (Tracks \o <<track>>) \o << >>
  BY <1>5, <1>6, <1>7, <1>8 DEF PartsToPlay
<1>10. (Tracks \o <<track>>) \o << >> = Tracks \o <<track>>
  <2>1. Tracks \o <<track>> \in Seq(Songs)
    BY <1>3, <1>7
  <2>. QED BY <2>1
<1>. QED BY <1>1, <1>9, <1>10, PlayRests

LEMMA PlayRefuses ==
  ASSUME PacedInv, PartsToPlay, PartsToPlay', Fail, ViewRests
  PROVE  Plays
<1>. DEFINE track == Head(commands).track
<1>1. /\ commands # << >> /\ commands' = Tail(commands) /\ commands \in Seq(Command)
      /\ UNCHANGED <<gotFirstTrack, isPlaying, calls, currentTrack, nextTracks, children>>
      /\ IsTrack(Head(commands)) /\ isPlaying \in BOOLEAN
  BY DEF Fail, ViewRests, controllerVars, IsTrack, PacedInv, PartyTypeOK, SpotifyTypeOK
<1>2. TrackCommands' = {} /\ track \in Songs
  BY <1>1, ReceiveTrack
<1>3. 1 \in TrackCommands /\ commands[1] = Head(commands)
  BY <1>1, ReceiveTracks
<1>4. TracksSent = <<track>> /\ TracksSent' = << >>
  BY <1>2, <1>3 DEF PartsToPlay
<1>5. Ready' = Ready /\ Ready \in Seq(Songs)
  BY <1>1 DEF Ready, Loaded, Counted, PartsToPlay
<1>. HIDE DEF track
<1>6. ToPlay = Ready \o <<track>> /\ ToPlay' = Ready
  BY <1>4, <1>5 DEF PartsToPlay
<1>7. /\ Ready \o <<track>> # << >> /\ Len(Ready \o <<track>>) - 1 = Len(Ready)
      /\ SubSeq(Ready \o <<track>>, 1, Len(Ready)) = Ready
  BY <1>2, <1>5
<1>8. ToPlay # << >> /\ ToPlay' = SubSeq(ToPlay, 1, Len(ToPlay) - 1)
  BY <1>6, <1>7
<1>9. Sounding' \in {Sounding, FALSE}
  BY <1>1, <1>8 DEF Sounding
<1>. QED BY <1>8, <1>9 DEF Plays, Player!Next, Player!Refuse, Sounding

LEMMA PlayControls ==
  ASSUME PacedInv, PacedInv', Controller
  PROVE  Plays
<1>1. ViewRests /\ PartsToPlay /\ PartsToPlay'
  BY PartsOfStep DEF Controller, ViewRests
<1>2. ASSUME Receive PROVE Plays
  <2>1. /\ commands # << >> /\ commands' = Tail(commands) /\ gotFirstTrack' = gotFirstTrack
    BY <1>2 DEF Receive
  <2>2. CASE Head(commands).do = "playURI" /\ Replace(Head(commands).track)
    BY <1>1, <1>2, <2>2, PlayStarts
  <2>3. CASE Head(commands).do = "queueURI" /\ Follow(Head(commands).track)
    BY <1>1, <1>2, <2>3, PlayFollows
  <2>4. CASE Head(commands).do = "skipNext" /\ Advance
    <3>1. ~IsTrack(Head(commands))
      BY <2>4 DEF IsTrack
    <3>2. TracksSent' = TracksSent
      BY <1>1, <2>1, <3>1, SentShifts
    <3>. QED BY <1>1, <2>1, <2>4, <3>2, PlayAdvances
  <2>5. CASE /\ Head(commands).do = "setPlaying"
             /\ isPlaying' = (Head(commands).on /\ currentTrack # NoSong)
             /\ UNCHANGED <<currentTrack, nextTracks, hasMetadata, calls>>
    <3>1. ~IsTrack(Head(commands))
      BY <2>5 DEF IsTrack
    <3>2. TracksSent' = TracksSent
      BY <1>1, <2>1, <3>1, SentShifts
    <3>3. Ready' = Ready
      BY <2>1, <2>5 DEF Ready, Loaded, Counted
    <3>4. ToPlay' = ToPlay
      BY <1>1, <3>2, <3>3 DEF PartsToPlay
    <3>5. isPlaying \in BOOLEAN /\ isPlaying' \in BOOLEAN
      BY <2>5 DEF PacedInv, PartyTypeOK, SpotifyTypeOK
    <3>6. CASE isPlaying' = isPlaying
      BY <3>4, <3>6, PlayRests
    <3>7. CASE isPlaying' # isPlaying
      <4>1. CASE ToPlay = << >>
        <5>1. Sounding' = FALSE /\ Sounding = FALSE
          BY <3>4, <4>1 DEF Sounding
        <5>. QED BY <3>4, <5>1 DEF Plays
      <4>2. CASE ToPlay # << >>
        <5>1. Sounding' = ~Sounding
          BY <3>4, <3>5, <3>7, <4>2 DEF Sounding
        <5>. QED BY <3>4, <4>2, <5>1 DEF Plays, Player!Next, Player!PlayOrPause, Sounding
      <4>. QED BY <4>1, <4>2
    <3>. QED BY <3>6, <3>7
  <2>. QED BY <1>2, <2>2, <2>3, <2>4, <2>5 DEF Receive, Perform
<1>3. ASSUME Fail PROVE Plays
  BY <1>1, <1>3, PlayRefuses
<1>4. ASSUME TrackEnds PROVE Plays
  <2>1. Advance /\ commands' = commands /\ gotFirstTrack' = gotFirstTrack
    BY <1>4 DEF TrackEnds
  <2>2. TracksSent' = TracksSent
    BY <2>1 DEF TracksSent, TrackCommands
  <2>. QED BY <1>1, <2>1, <2>2, PlayAdvances
<1>. QED BY <1>2, <1>3, <1>4 DEF Controller

(***************************************************************************)
(* The class and its controller implement Jukebox: songs leave the player  *)
(* once, from the front, in the order they were given to it, although a    *)
(* command is carried out later than the flag it depends on is read.       *)
(***************************************************************************)
THEOREM IsJukeboxHolds == ASSUME OneSession PROVE PacedSpec => IsJukebox
<1>1. Init => Player!Init
  <2>. SUFFICES ASSUME Init PROVE ToPlay = << >> /\ Sounding = FALSE
    BY DEF Player!Init, Sounding
  <2>1. PartsToPlay /\ Ready = << >> /\ TrackCommands = {} /\ isPlaying = FALSE
    <3>1. PartsToPlay /\ commands = << >> /\ isPlaying = FALSE
          /\ currentTrack = NoSong /\ nextTracks = << >>
      BY PacedInit, PartsToPlayAre DEF Init, SpotifyInit
    <3>. QED BY <3>1, NoCommand DEF Ready, Loaded
  <2>. QED BY <2>1 DEF PartsToPlay, Sounding
<1>2. PacedInv /\ PacedInv' /\ [PacedNext]_partyVars => [Player!Next]_<<ToPlay, Sounding>>
  <2>. SUFFICES ASSUME PacedInv, PacedInv', [PacedNext]_partyVars PROVE Plays
    BY DEF Plays
  <2>1. ASSUME UNCHANGED <<gotFirstTrack, commands, currentTrack, nextTracks, isPlaying, calls>>
        PROVE  Plays
    <3>1. ToPlay' = ToPlay
      BY <2>1 DEF ToPlay, Loaded, Counted, TracksSent, TrackCommands
    <3>. QED BY <2>1, <3>1, PlayRests
  <2>2. CASE Subscription \/ Added \/ UNCHANGED partyVars
    <3>1. UNCHANGED spotifyVars
      BY <2>2 DEF Subscription, ValidateSession, StartPlayer, SubscribeToUpdates, Added, SongIsAdded, partyVars
    <3>. QED BY <2>1, <3>1 DEF spotifyVars, controllerVars
  <2>. QED BY <2>2, PlayGives, PlayHandles, PlayTaps, PlayControls DEF PacedNext, Callback
<1>. QED BY <1>1, <1>2, PacedInvariance, PTL
         DEF PacedSpec, IsJukebox, Player!Spec, Player!jukeboxVars, Sounding

=============================================================================

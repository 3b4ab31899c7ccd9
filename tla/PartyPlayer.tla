----------------------------- MODULE PartyPlayer -----------------------------
(***************************************************************************)
(* The PartyPlayerViewController of every device of an Apple Music party:  *)
(* the one place where the shared queue of Datastore and the music player  *)
(* of the device meet.  The host hears of each song that is added, hands   *)
(* it to its player and marks songs as played; an attendee shows the queue *)
(* as it is in the database.  Both run the same code, the kind of          *)
(* subscription apart.                                                     *)
(***************************************************************************)
EXTENDS Datastore, AppleMusicPlayer, SequencesExt

CONSTANTS
    Host,           \* the device that plays the music
    OwnMusic,       \* the devices whose owners also use the Music app
    MayRestart,     \* the devices whose app may die and resume the session
    MayClose,       \* the devices whose user may close the party
    MaxObservers,   \* bound: subscriptions of one device
    MaxPrepares     \* bound: the host taps play while fewer calls wait than this

ASSUME PartyAssumption ==
    /\ Host \in Devices
    /\ OwnMusic \subseteq Devices /\ MayRestart \subseteq Devices
    /\ MayClose \subseteq Devices
    /\ MaxObservers \in Nat \ {0} /\ MaxPrepares \in Nat

VARIABLES
    joined,         \* joined[d]: the party is loaded and the player created
    closed,         \* closed[d]: the party was closed, and is not joined again
    events,         \* events[d]: snapshots raised by the SDK and not handled
    currentSong,    \* currentSong[d]: the song shown as playing, or NoSong
    songQueue,      \* songQueue[d]: the songs shown as next
    songsPlayed     \* songsPlayed[d]: calls of didFinish since viewDidLoad

viewVars == <<currentSong, songQueue, songsPlayed>>
partyVars == <<vars, playerVars, viewVars, joined, closed, events>>

-----------------------------------------------------------------------------
\* The slot of S that has k - 1 others before it.
NthSlot(S, k) == CHOOSE i \in S : Cardinality({j \in S : j < i}) = k - 1

(***************************************************************************)
(* The snapshots an action makes the SDK raise.  The host has observers of *)
(* .childAdded: each child that is new in its view, in the order of the    *)
(* slots, for each observer.  An attendee has observers of .value: its     *)
(* whole view when it changed.  A new observer first gets what there is.   *)
(***************************************************************************)
ChildrenLatestFirst(q, S) ==                                        \* a mutant
    [k \in 1..Cardinality(S) |-> q[NthSlot(S, Cardinality(S) + 1 - k)]]

Children(q, S) == [k \in 1..Cardinality(S) |-> q[NthSlot(S, k)]]

Repeated(s, n) == IF s = << >> THEN s ELSE [k \in 1..n * Len(s) |-> s[((k - 1) \div n) + 1]]

ViewNext(d) == Overlay(cache'[d], unacked'[d] \o outbox'[d])

\* A mutant: "Send one initial view of DB", and no more than that.
RaisedAtFirst(d) ==
    IF observers'[d] = observers[d] THEN << >>
    ELSE LET q == ViewNext(d)
         IN IF d = Host THEN Children(q, DOMAIN q) ELSE <<q>>

Raised(d) ==
    LET isNew == observers'[d] > observers[d]
        q == ViewNext(d)
    IN IF ~Listening(d)' THEN << >>
       ELSE IF d # Host THEN IF isNew \/ q # View(d) THEN <<q>> ELSE << >>
       ELSE IF isNew THEN Children(q, DOMAIN q)
       ELSE Repeated(Children(q, DOMAIN q \ DOMAIN View(d)), observers[d])

RaiseEvents == events' = [d \in Devices |-> events[d] \o Raised(d)]

-----------------------------------------------------------------------------
PartyInit ==
    /\ Init
    /\ PlayerInit
    /\ joined = [d \in Devices |-> FALSE]
    /\ closed = [d \in Devices |-> FALSE]
    /\ events = [d \in Devices |-> << >>]
    /\ currentSong = [d \in Devices |-> NoSong]
    /\ songQueue = [d \in Devices |-> << >>]
    /\ songsPlayed = [d \in Devices |-> 0]

\* viewDidAppear: the party is read and the player created.
JoinParty(d) ==
    /\ ~joined[d] /\ ~closed[d]
    /\ joined' = [joined EXCEPT ![d] = TRUE]
    /\ UNCHANGED <<vars, playerVars, viewVars, closed, events>>

InParty(d) == joined[d] /\ ~closed[d]

\* hasValidSession: one second after each successful validation.
HasValidSession(d) ==
    /\ joined[d]
    /\ observers[d] < MaxObservers
    /\ SubscribeToUpdates(d)
    /\ RaiseEvents
    /\ UNCHANGED <<playerVars, viewVars, joined, closed>>

\* The actions of Datastore, and the snapshots they raise.  The search has a
\* party to add to once the party is loaded.
TapSong(d, s) ==
    /\ InParty(d)
    /\ AddSong(d, s)
    /\ UNCHANGED <<playerVars, viewVars, joined, closed, events>>

AddSongCallback(d) ==
    /\ RefuseDuplicate(d) \/ StoreSong(d)
    /\ RaiseEvents
    /\ UNCHANGED <<playerVars, viewVars, joined, closed>>

Network(d) ==
    /\ Transmit(d) \/ Receive(d) \/ LoseConnection(d)
    /\ RaiseEvents
    /\ UNCHANGED <<playerVars, viewVars, joined, closed>>

-----------------------------------------------------------------------------
\* didAddSong(song), on the host: the song is shown as playing when nothing is,
\* else as the last of the next ones, and handed to the player.  A snapshot
\* without a song is not decoded.
ShowAsCurrent(d, song) ==                                           \* a mutant
    /\ currentSong' = [currentSong EXCEPT ![d] = song]
    /\ UNCHANGED songQueue

ShowAdded(d, song) ==
    IF currentSong[d] = NoSong
    THEN /\ currentSong' = [currentSong EXCEPT ![d] = song]
         /\ UNCHANGED songQueue
    ELSE /\ songQueue' = [songQueue EXCEPT ![d] = Append(@, song)]
         /\ UNCHANGED currentSong

DidAddSong(d) ==
    /\ d = Host /\ events[d] # << >>
    /\ events' = [events EXCEPT ![d] = Tail(@)]
    /\ LET entry == Head(events[d])
       IN IF entry.song = NoSong \/ entry.played
          THEN UNCHANGED <<playerVars, viewVars>>
          ELSE /\ ShowAdded(d, entry.song)
               /\ Enqueue(d, entry.song, ~closed[d])
               /\ UNCHANGED songsPlayed
    /\ UNCHANGED <<vars, joined, closed>>

\* The songs of the queue q that are not played, in the order of their slots.
Unplayed(q) ==
    LET slots == {i \in DOMAIN q : ~q[i].played}
    IN [k \in 1..Cardinality(slots) |-> q[NthSlot(slots, k)].song]

Decodable(q) == IsArray(q) /\ ~HasHole(q) /\ \A i \in DOMAIN q : q[i].song # NoSong

\* queueDidChange(songs), on an attendee: what the player shows is replaced.
QueueDidChange(d) ==
    /\ d # Host /\ events[d] # << >>
    /\ events' = [events EXCEPT ![d] = Tail(@)]
    /\ LET q == Head(events[d])
           toPlay == Unplayed(q)
       IN IF ~Decodable(q)
          THEN UNCHANGED <<currentSong, songQueue>>
          ELSE /\ currentSong' = [currentSong EXCEPT ![d] =
                                    IF toPlay = << >> THEN NoSong ELSE Head(toPlay)]
               /\ songQueue' = [songQueue EXCEPT ![d] =
                                    IF toPlay = << >> THEN << >> ELSE Tail(toPlay)]
    /\ UNCHANGED <<vars, playerVars, songsPlayed, joined, closed>>

\* nowPlayingChanged, which calls playerDidStartPlaying with the item that is
\* now playing.  Another item than the one shown: the one shown has finished.  An
\* item without an ID is ignored.
IsAnyItem(d) == TRUE                                                \* a mutant
IsOtherItem(d) == NowPlaying(d) \notin {currentSong[d], LocalSong}

\* didFinish with the count of songs played, which is one more after it.
CountAndFinish(d) ==                                                \* a mutant
    /\ DidFinish(d, songsPlayed[d] + 1)
    /\ songsPlayed' = [songsPlayed EXCEPT ![d] = @ + 1]

FinishWithoutCount(d) ==                                            \* a mutant
    /\ DidFinish(d, songsPlayed[d])
    /\ UNCHANGED songsPlayed

FinishAndCount(d) ==
    /\ DidFinish(d, songsPlayed[d])
    /\ songsPlayed' = [songsPlayed EXCEPT ![d] = @ + 1]

ShowNext(d) ==
    /\ currentSong' = [currentSong EXCEPT ![d] =
            IF songQueue[d] = << >> THEN NoSong ELSE Head(songQueue[d])]
    /\ songQueue' = [songQueue EXCEPT ![d] = IF @ = << >> THEN @ ELSE Tail(@)]

AlwaysClear(d) == ClearQueue(d)                                     \* a mutant
ClearAfterLast(d) ==
    IF songQueue[d] = << >>
    THEN ClearQueue(d)
    ELSE UNCHANGED <<hasSetInitialQueue, items, loaded, playing, preparing>>

NowPlayingChanged(d) ==
    /\ TakeNote(d)
    /\ IF IsOtherItem(d)
       THEN FinishAndCount(d) /\ RaiseEvents /\ ShowNext(d) /\ ClearAfterLast(d)
       ELSE UNCHANGED <<vars, hasSetInitialQueue, items, loaded, playing, preparing,
                        viewVars, events>>
    /\ UNCHANGED <<joined, closed>>

-----------------------------------------------------------------------------
\* The buttons of the host, and the end of a song.  The player is observed from
\* the moment it is created.
TapPlayPause ==
    /\ InParty(Host)
    /\ IF playing[Host]
       THEN Pause(Host)
       ELSE preparing[Host] < MaxPrepares /\ Play(Host)
    /\ UNCHANGED <<vars, viewVars, joined, closed, events>>

PlayerIsPrepared(d) ==
    /\ Prepared(d, InParty(d))
    /\ UNCHANGED <<vars, viewVars, joined, closed, events>>

TapNext ==
    /\ InParty(Host)
    /\ SkipToNext(Host)
    /\ UNCHANGED <<vars, viewVars, joined, closed, events>>

SongFinishes(d) ==
    /\ SongEnds(d, InParty(d))
    /\ UNCHANGED <<vars, viewVars, joined, closed, events>>

\* didTapClose.  removeAllObservers, called at the root of the database, removes no
\* observer of the queue: what is added to it still reaches the view controller,
\* which hands it to its player.  Bounded: a party is closed once it is subscribed to.
TapClose(d) ==
    /\ d \in MayClose /\ InParty(d) /\ Listening(d)
    /\ closed' = [closed EXCEPT ![d] = TRUE]
    /\ Stop(d)
    /\ UNCHANGED <<vars, viewVars, joined, events>>

\* Bounded: the owner does it only while the device has marked at most MaxQueue
\* songs as played and has handled the last notification.
OwnerPlays(d) ==
    /\ d \in OwnMusic
    /\ songsPlayed[d] <= MaxQueue /\ notes[d] = 0
    /\ PlayOwnMusic(d, InParty(d))
    /\ UNCHANGED <<vars, viewVars, joined, closed, events>>

\* The app of d dies, by iOS or by a failed cast of addSong; it opens again, and
\* resumes the party from the stored session with a new view controller.
ResumeSession(d) ==
    /\ \/ d \in MayRestart /\ Restart(d)
       \/ TrapOnCast(d)
    /\ PlayerForgets(d)
    /\ joined' = [joined EXCEPT ![d] = FALSE]
    /\ events' = [events EXCEPT ![d] = << >>]
    /\ currentSong' = [currentSong EXCEPT ![d] = NoSong]
    /\ songQueue' = [songQueue EXCEPT ![d] = << >>]
    /\ songsPlayed' = [songsPlayed EXCEPT ![d] = 0]
    /\ UNCHANGED closed

PartyNext ==
    \/ TapPlayPause \/ TapNext
    \/ \E d \in Devices :
        \/ JoinParty(d) \/ HasValidSession(d)
        \/ \E s \in Songs : TapSong(d, s)
        \/ AddSongCallback(d) \/ Network(d)
        \/ DidAddSong(d) \/ QueueDidChange(d) \/ NowPlayingChanged(d)
        \/ TapClose(d)
        \/ PlayerIsPrepared(d) \/ SongFinishes(d) \/ OwnerPlays(d)
        \/ ResumeSession(d)

(***************************************************************************)
(* What runs without anybody doing anything: the party is joined and       *)
(* subscribed to, callbacks and notifications are handled, and a message   *)
(* gets through in the end.  Users need do nothing, no song need end.      *)
(***************************************************************************)
PartyFairness ==
    \A d \in Devices :
        /\ WF_partyVars(JoinParty(d))
        /\ WF_partyVars(observers[d] = 0 /\ HasValidSession(d))
        /\ WF_partyVars(AddSongCallback(d))
        /\ WF_partyVars((Transmit(d) \/ Receive(d)) /\ Network(d))
        /\ WF_partyVars(DidAddSong(d) \/ QueueDidChange(d))
        /\ WF_partyVars(NowPlayingChanged(d))

PartySpec == PartyInit /\ [][PartyNext]_partyVars
FairPartySpec == PartySpec /\ PartyFairness

-----------------------------------------------------------------------------
(***************************************************************************)
(* Every variable of the party holds values of its kind.                   *)
(***************************************************************************)
PartyTypeOK ==
    /\ TypeOK
    /\ PlayerTypeOK
    /\ joined \in [Devices -> BOOLEAN] /\ closed \in [Devices -> BOOLEAN]
    /\ currentSong \in [Devices -> MaybeSongs]
    /\ songQueue \in [Devices -> Seq(Songs)]
    /\ songsPlayed \in [Devices -> Nat]
    /\ \A d \in Devices : \A k \in DOMAIN events[d] :
          IF d = Host THEN events[d][k] \in Entry ELSE IsQueue(events[d][k])

Shown(d) == (IF currentSong[d] = NoSong THEN << >> ELSE <<currentSong[d]>>) \o songQueue[d]

(***************************************************************************)
(* The host is never ahead of its player: what the player has left to play *)
(* is the end of what the host shows, in the same order, even when song    *)
(* changes are handled late or several at a time.                          *)
(***************************************************************************)
PlayerIsShown == IsSuffix(items[Host], Shown(Host))

(***************************************************************************)
(* Why the host, whose owner plays nothing else, keeps in step.  Its       *)
(* player has songs the host shows; a notification that waits while no     *)
(* item is loaded is of a song that has ended and is still shown.  The     *)
(* host hears of every slot once: those it has counted, shows, and is to   *)
(* handle are all that it sees.  Only the host marks songs as played, and  *)
(* no mark, wherever it is on its way, is for a slot it has not counted.   *)
(***************************************************************************)
Undisturbed ==
    /\ OwnMusic = {} /\ Host \notin MayRestart
    /\ MaxObservers = 1 /\ MaxNotes = 1

PlayerFollows ==
    /\ PlayerIsShown
    /\ items[Host] \in Seq(Songs)
    /\ ~hasSetInitialQueue[Host] => items[Host] = << >>
    /\ currentSong[Host] = NoSong => songQueue[Host] = << >>
    /\ notes[Host] > 0 =>
          /\ ~closed[Host]
          /\ loaded[Host] \/ Len(items[Host]) < Len(Shown(Host))
    /\ \A d \in Devices \ {Host} :
          ~playing[d] /\ ~loaded[d] /\ preparing[d] = 0 /\ notes[d] = 0

HeardOnce ==
    /\ observers[Host] <= MaxObservers
    /\ \A k \in DOMAIN events[Host] :
          events[Host][k].song # NoSong /\ ~events[Host][k].played
    /\ IF Listening(Host)
       THEN songsPlayed[Host] + Len(Shown(Host)) + Len(events[Host])
              = Cardinality(DOMAIN View(Host))
       ELSE songsPlayed[Host] = 0 /\ Shown(Host) = << >> /\ events[Host] = << >>

MarksBefore(ws, n) == \A k \in DOMAIN ws : ws[k].song = NoSong => ws[k].slot < n
PlayedBefore(q, n) == \A i \in DOMAIN q : q[i].played => i < n

MarksUpTo(n) ==
    /\ PlayedBefore(server, n)
    /\ \A d \in Devices :
          /\ PlayedBefore(cache[d], n)
          /\ MarksBefore(Writes(inbox[d]), n)
          /\ MarksBefore(outbox[d], n) /\ MarksBefore(unacked[d], n)

MarksAreOld == MarksUpTo(songsPlayed[Host])

PartyInv == PlayerFollows /\ HeardOnce /\ MarksAreOld

(***************************************************************************)
(* What the host shows, and will show when it has handled the snapshots it *)
(* has, is the queue of the party from the slot songsPlayed on: the count  *)
(* it passes to didFinish is the slot of the song it shows as playing.     *)
(***************************************************************************)
ShownIsQueue ==
    Listening(Host) =>
        LET heard == [k \in 1..Len(events[Host]) |-> events[Host][k].song]
            shown == Shown(Host) \o heard
            q == View(Host)
        IN /\ songsPlayed[Host] + Len(shown) = Cardinality(DOMAIN q)
           /\ \A k \in 1..Len(shown) : q[songsPlayed[Host] + k - 1].song = shown[k]

(***************************************************************************)
(* While no connection is lost (a song that is sent again takes the place  *)
(* of its mark, too), the songs marked as played at the server are the     *)
(* ones before some slot, and never the song the host shows as playing or  *)
(* a later one.                                                            *)
(***************************************************************************)
PlayedIsPrefix ==
    \A i \in DOMAIN server :
        server[i].played =>
            /\ i < songsPlayed[Host]
            /\ \A j \in 0..i : j \in DOMAIN server /\ server[j].played

(***************************************************************************)
(* Why they are, while no connection is lost.  Only the host marks songs   *)
(* as played.  Each of its marks on the way to the server comes after the  *)
(* marks of all slots before it, and every slot it has counted is marked,  *)
(* at the server or by a write on its way there.                           *)
(***************************************************************************)
PlayedSlots(q) == {i \in DOMAIN q : q[i].played}
Marks(ws) == {ws[k].slot : k \in {j \in DOMAIN ws : ws[j].song = NoSong}}

InOrder(S, ws) ==
    \A k \in DOMAIN ws : ws[k].song = NoSong =>
        \A i \in 0..(ws[k].slot - 1) :
            i \in S \/ \E j \in 1..(k - 1) : ws[j].song = NoSong /\ ws[j].slot = i

MarksInOrder ==
    /\ \A d \in Devices \ {Host} : Marks(outbox[d]) = {}
    /\ IsInitialSegment(PlayedSlots(server))
    /\ InOrder(PlayedSlots(server), outbox[Host])
    /\ 0..(songsPlayed[Host] - 1) \subseteq PlayedSlots(server) \cup Marks(outbox[Host])

(***************************************************************************)
(* "We know it's finished, so notify playerr": when the host has nothing   *)
(* left to show and clears the queue of its player, the player is done.    *)
(***************************************************************************)
ClearedWhenFinished ==
    [][hasSetInitialQueue'[Host] = FALSE /\ songsPlayed'[Host] > songsPlayed[Host]
         => items[Host] = << >>]_partyVars

(***************************************************************************)
(* The player of the host is a jukebox: every song it is given is played   *)
(* after the ones before it, in spite of an enqueue that replaces all that *)
(* the system player has, and is left only from the front.                 *)
(***************************************************************************)
Player == INSTANCE Jukebox WITH toPlay <- items[Host], sounding <- playing[Host]

HostIsJukebox == Player!Spec

(***************************************************************************)
(* "As the host, leaving now will close the party": the player of a host   *)
(* that has closed it is given no song any more.                           *)
(***************************************************************************)
ClosedIsSilent ==
    [][closed[Host] => Len(items'[Host]) <= Len(items[Host])]_partyVars

(***************************************************************************)
(* However long messages take, every attendee in the end shows exactly the *)
(* songs of the queue at the server that are not played, in their order.   *)
(***************************************************************************)
AttendeesCatchUp ==
    <>[](\A d \in Devices \ {Host} : Shown(d) = Unplayed(server))

=============================================================================

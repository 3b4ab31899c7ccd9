--------------------------- MODULE AppleMusicPlayer ---------------------------
(***************************************************************************)
(* The AppleMusicPlayer of every device, over the system music player it   *)
(* drives.  The system player is one for the whole device: it plays on     *)
(* when the app dies, and the owner may use it from the Music app.  It     *)
(* posts a notification when its now-playing item changes; the app reads   *)
(* the item only when it handles the notification.  It plays when it has   *)
(* prepared to, of which it tells the app in a callback.                   *)
(***************************************************************************)
EXTENDS PartyTypes, Integers, Sequences

CONSTANTS
    OwnSong,        \* any song the owner plays that is not one of Songs,
    LocalSong,      \*   and any that has no ID in the store
    MaxNotes        \* bound: notifications that wait for one app; with 1 those
                    \*   the app has not handled are delivered as one

ASSUME PlayerAssumption ==
    /\ OwnSong \notin MaybeSongs /\ LocalSong \notin MaybeSongs
    /\ MaxNotes \in Nat \ {0}

VARIABLES
    hasSetInitialQueue, \* hasSetInitialQueue[d]: enqueue appends to the queue
    items,              \* items[d]: what the system player has left to play, from
                        \*   the now-playing item on
    loaded,             \* loaded[d]: the head of items[d] is the now-playing item
    playing,            \* playing[d]: the playback state is .playing
    preparing,          \* preparing[d]: calls of prepareToPlay without an answer
    notes               \* notes[d]: notifications posted and not handled

playerVars == <<hasSetInitialQueue, items, loaded, playing, preparing, notes>>

\* What the system player can have to play.
Items == Songs \cup {OwnSong, LocalSong}

NowPlaying(d) == IF loaded[d] THEN Head(items[d]) ELSE NoSong

PlayerInit ==
    /\ hasSetInitialQueue = [d \in Devices |-> FALSE]
    /\ items = [d \in Devices |-> << >>]
    /\ loaded = [d \in Devices |-> FALSE]
    /\ playing = [d \in Devices |-> FALSE]
    /\ preparing = [d \in Devices |-> 0]
    /\ notes = [d \in Devices |-> 0]

\* The now-playing item changes; an app that observes the player is notified.
Notify(d, observed) ==
    notes' = [notes EXCEPT ![d] = IF observed /\ @ < MaxNotes THEN @ + 1 ELSE @]

Prepare(d) == preparing' = [preparing EXCEPT ![d] = @ + 1]

\* enqueue: the first song sets the queue and plays it, the others are appended.
\* Assumed: setQueue replaces all that the player has, its now-playing item too.
Enqueue(d, song, observed) ==
    IF hasSetInitialQueue[d]
    THEN /\ items' = [items EXCEPT ![d] = Append(@, song)]
         /\ UNCHANGED <<hasSetInitialQueue, loaded, playing, preparing, notes>>
    ELSE /\ hasSetInitialQueue' = [hasSetInitialQueue EXCEPT ![d] = TRUE]
         /\ items' = [items EXCEPT ![d] = <<song>>]
         /\ Notify(d, observed /\ loaded[d])
         /\ Prepare(d)
         /\ UNCHANGED <<loaded, playing>>

\* clearQueue: nothing is removed from the player, the next song replaces it all.
ClearQueue(d) ==
    /\ hasSetInitialQueue' = [hasSetInitialQueue EXCEPT ![d] = FALSE]
    /\ UNCHANGED <<items, loaded, playing, preparing>>

\* play, with its guard.
Play(d) ==
    /\ hasSetInitialQueue[d]
    /\ Prepare(d)
    /\ UNCHANGED <<hasSetInitialQueue, items, loaded, playing, notes>>

\* The callback of prepareToPlay: the player is told to play, which loads the
\* now-playing item, and the app is notified of it; or it could not prepare.
PlayUnloaded(d, observed) ==                                        \* a mutant
    /\ items[d] # << >>
    /\ playing' = [playing EXCEPT ![d] = TRUE]
    /\ UNCHANGED <<loaded, notes>>

PlayItem(d, observed) ==
    /\ items[d] # << >>
    /\ playing' = [playing EXCEPT ![d] = TRUE]
    /\ loaded' = [loaded EXCEPT ![d] = TRUE]
    /\ Notify(d, observed /\ ~loaded[d])

Prepared(d, observed) ==
    /\ preparing[d] > 0
    /\ preparing' = [preparing EXCEPT ![d] = @ - 1]
    /\ PlayItem(d, observed) \/ UNCHANGED <<loaded, playing, notes>>
    /\ UNCHANGED <<hasSetInitialQueue, items>>

Pause(d) ==
    /\ playing[d]
    /\ playing' = [playing EXCEPT ![d] = FALSE]
    /\ UNCHANGED <<hasSetInitialQueue, items, loaded, preparing, notes>>

\* stop and unsubscribeFromUpdates.  Assumed: a stopped player keeps its queue, has
\* no now-playing item, and goes on with what it prepares.
Stop(d) ==
    /\ playing' = [playing EXCEPT ![d] = FALSE]
    /\ loaded' = [loaded EXCEPT ![d] = FALSE]
    /\ notes' = [notes EXCEPT ![d] = 0]
    /\ UNCHANGED <<hasSetInitialQueue, items, preparing>>

\* The player leaves the now-playing item, paused or not.
Advance(d, observed) ==
    /\ items' = [items EXCEPT ![d] = Tail(@)]
    /\ loaded' = [loaded EXCEPT ![d] = Len(items[d]) > 1]
    /\ playing' = [playing EXCEPT ![d] = @ /\ Len(items[d]) > 1]
    /\ Notify(d, observed)
    /\ UNCHANGED <<hasSetInitialQueue, preparing>>

\* next, with the guard of the app.
SkipToNext(d) ==
    /\ hasSetInitialQueue[d] /\ loaded[d]
    /\ Advance(d, TRUE)

\* A song ends by itself.
SongEnds(d, observed) ==
    /\ playing[d]
    /\ Advance(d, observed)

\* The owner plays something else in the Music app.
PlayOwnMusic(d, observed) ==
    /\ \E own \in {OwnSong, LocalSong} \ {NowPlaying(d)} :
          items' = [items EXCEPT ![d] = <<own>>]
    /\ loaded' = [loaded EXCEPT ![d] = TRUE]
    /\ playing' = [playing EXCEPT ![d] = TRUE]
    /\ Notify(d, observed)
    /\ UNCHANGED <<hasSetInitialQueue, preparing>>

\* The app handles the oldest of its notifications.
TakeNote(d) ==
    /\ notes[d] > 0
    /\ notes' = [notes EXCEPT ![d] = @ - 1]

\* The app of d dies, and its callbacks with it: the system player keeps its queue
\* and its state.
PlayerForgets(d) ==
    /\ hasSetInitialQueue' = [hasSetInitialQueue EXCEPT ![d] = FALSE]
    /\ preparing' = [preparing EXCEPT ![d] = 0]
    /\ notes' = [notes EXCEPT ![d] = 0]
    /\ UNCHANGED <<items, loaded, playing>>

PlayerTypeOK ==
    /\ hasSetInitialQueue \in [Devices -> BOOLEAN]
    /\ items \in [Devices -> Seq(Items)]
    /\ loaded \in [Devices -> BOOLEAN]
    /\ playing \in [Devices -> BOOLEAN]
    /\ preparing \in [Devices -> Nat]
    /\ notes \in [Devices -> 0..MaxNotes]
    /\ \A d \in Devices : (playing[d] => loaded[d]) /\ (loaded[d] => items[d] # << >>)

=============================================================================

# A verification of Mixed

Mixed is an iOS app for parties with one shared playlist: a host plays the
songs, and everybody in the party adds songs to a queue in a Firebase Realtime
Database. This directory holds TLA+ modules that model the core of the app,
TLC configurations that check them on small instances, and proofs checked by
TLAPS. Paths below are relative to `src/Mixed/Mixed/` unless they start with
`src/`.

## The system

### Components, their state and operations

| Component | State | Operations | Talks to | What makes it correct |
|---|---|---|---|---|
| **Datastore** (`Model/Datastore.swift`) | the node `v2-parties-beta/<id>/queue`: children `0, 1, 2, ...`, each a song with a `played` flag | `addSong`, `addSongs`, `didFinish`, `subscribeToUpdates`, `createNewParty`, `joinParty`, `submitFeedback` | the Firebase client; its delegate `PartyPlayerViewController` | no holes in the queue, every child a song, no song lost, twice in a row, or unmarked |
| **Firebase client** (`src/Mixed/Pods/FirebaseDatabase`) | per device: a cache of the node, writes that are not acknowledged, observers | `setValue`, `observe`, `observeSingleEvent`, reconnection | the server, over a connection that can be lost | local writes show at once; every write reaches the server in order, at least once |
| **PartyPlayerViewController** (`Controller/`) | `currentSong`, `songQueue`, `songsPlayed`, `party`, `musicPlayer` | `didAddSong`, `queueDidChange`, `playerDidStartPlaying`, `hasValidSession`, buttons | Datastore, the player | what the host shows is what its player plays and what the database says; attendees catch up |
| **AppleMusicPlayer** (`Model/Players/`) | `hasSetInitialQueue`; the system player's items and playback state | `enqueue`, `clearQueue`, `play`, `pause`, `next`, `nowPlayingChanged` | the system player, the view controller | songs play in the order they were added, none is dropped |
| **SpotifyMusicPlayer** | `hasStarted`, `gotFirstTrack`; the Spotify SDK's track and queue | the same interface | the Spotify SDK | the same, although its commands are answered later |
| **Sessions and party lifecycle** (`Datastore`, `Model/PartyConfiguration/SessionManager.swift`, `MainMenuViewController`, `JoinPartyViewController`, `AppDelegate`) | the stored party ID, role and date | create, join, resume, close, expiry after 8 hours | Datastore, user defaults | one party per ID; a party is there when it is read; a session is stored while a player is shown; a closed party is not heard of again |
| **Song search** (`SongSearchViewController`, `SongSearchField`, `SearchCacher`, `Autocompleter`) | search state, results, hints, three recent searches | search, cancel, tap a row | the providers, Datastore | the song added is the one tapped |
| **Playlists** (`PlaylistViewController`, `Model/Playlists`) | a set of selected songs | select, add all (`addSongs`) | Datastore | every selected song is added once |
| **Providers, configuration, user, feedback, PartyManager, views** | a token, a name; otherwise none | requests and parsing; drawing | web services | not part of the core |

### How they interact

All app code runs on the main queue, one callback at a time; what makes the app
concurrent is that it is spread over devices, that reads and commands are
answered by callbacks, and that the system player acts by itself.

* `addSong` reads the queue with `observeSingleEvent` and, in the callback,
  writes the song to the slot whose number is the length it read. There is no
  transaction.
* The host observes `.childAdded`: one call of `didAddSong` for each child it
  had not seen. Attendees observe `.value`: the whole queue on each change.
* The system player posts a notification when its item changes. The handler
  reads the item that is playing *then*; if it is not the one shown, the shown
  one is taken as finished and `didFinish(songsPlayed)` marks its slot.
* After a restart the app resumes the party from its stored session with a new
  view controller, while the system player goes on.
* The Spotify controller takes commands and answers them later, by callbacks
  and changes of its metadata; `playerDidStartPlaying` handles those as it
  handles the notifications of the system player.
* `createNewParty` reads an ID and makes three writes without waiting for them;
  the session is stored and the player opened at once, and the player reads the
  party again. The SDK sends unanswered reads and writes again after a lost
  connection, the reads first.
* The answers to searches replace `searchResults` on a thread of the network;
  the table is reloaded on the main queue later. A tap looks the row up in the
  data of its moment.

### What is hard

Reads that are old when they are acted on; writes of several devices to the
same slot; writes sent again after a reconnection; played marks computed from a
count; notifications handled late; apps that die; attendees that must catch up;
a player that carries out commands later than the flag they depend on is read;
parties that are shown before they exist; taps on rows of older data; answers
out of order.
`PROJECT.json` lists each hazard at its line with the properties that cover it.

## The modules

| Module | Models | State | Actions |
|---|---|---|---|
| `PartyTypes` | devices and songs | - | - |
| `PartyDatabase` | the queue node at the server and the Firebase client in each device | `server`, `cache`, `inbox`, `outbox`, `unacked`, `observers` | `SetValue`, `ServerApply`, `Deliver`, `Observe`, `Reconnect`, `Forget` |
| `Datastore` (extends it) | `Datastore.swift` on one party | `adding`, `faults` | `AddSong`, `RefuseDuplicate`, `StoreSong`, `TrapOnCast`, `DidFinish`, `SubscribeToUpdates`, `Transmit`, `Receive`, `LoseConnection`, `Restart` |
| `PlaylistImport` (extends `Datastore`) | `addSongs` and the screen that calls it | `importing`, `due`, `selected`, `crossed` | `DidTapAddToPlaylist`, `AddSongs`, `AddSongCallback`, `TapSong`, `RestartApp`, `Network`, `Others` |
| `AppleMusicPlayer` | the player class and the system player below it | `hasSetInitialQueue`, `items`, `loaded`, `playing`, `preparing`, `notes` | `Enqueue`, `ClearQueue`, `Play`, `Prepared`, `Pause`, `Stop`, `SkipToNext`, `SongEnds`, `PlayOwnMusic`, `TakeNote`, `PlayerForgets` |
| `PartyPlayer` (extends the two) | the view controller of every device: the composition | `joined`, `closed`, `events`, `currentSong`, `songQueue`, `songsPlayed` | `JoinParty`, `HasValidSession`, `TapSong`, `AddSongCallback`, `DidAddSong`, `QueueDidChange`, `NowPlayingChanged`, `TapPlayPause`, `PlayerIsPrepared`, `TapNext`, `SongFinishes`, `OwnerPlays`, `TapClose`, `ResumeSession`, `Network` |
| `Jukebox` | what the app wants of any player: songs leave it once, in the order they were given | `toPlay`, `sounding` | `Give`, `Finish`, `Refuse`, `PlayOrPause` |
| `SpotifyMusicPlayer` | the class and the controller of the Spotify SDK | `gotFirstTrack`, `commands`, `currentTrack`, `nextTracks`, `hasMetadata`, `isPlaying`, `calls`, `errors` | `Enqueue`, `Play`, `Pause`, `FirstTrackPlayed`, `Receive`, `Fail`, `TrackEnds` |
| `SpotifyParty` (extends it) | the view controller of the host of a Spotify party, with validation | `validations`, `unanswered`, `subscribing`, `observers`, `queue`, `children`, `currentSong`, `songQueue`, `songsPlayed` | `ValidateSession`, `StartPlayer`, `SubscribeToUpdates`, `SongIsAdded`, `DidAddSong`, `HandleCall`, `TapPlayPause`, `TapNext`, `Controller` |
| `PartyLifecycle` | creating, joining, closing and resuming parties | `fields`, `filled`, `requests`, `answers`, `screen`, `shown`, `loaded`, `session`, `asks`, `faults`, `cut`, `drawnTwice` | `TapCreate`, `TapJoin`, `OpenLink`, `DrawAgain`, `CreateNewParty`, `JoinParty`, `NoPartyFound`, `PartyIsRead`, `Acknowledged`, `ResumeSession`, `ShowMenu`, `AddSong`, `TapClose`, `Restart`, `SearchTooEarly`, `Serve`, `LoseConnection` |
| `SongSearch` | the search, its field, `SearchCacher`, and the answers of the providers | `open`, `provider`, `state`, `text`, the four data sources, `rows`, `reloadDue`, `searches`, `hints`, `stored`, `asked`, `answered` | `OpenSearch`, `BackArrow`, `TypeText`, `TypingTraps`, `DidCancelSearch`, `TapReturn`, `Found`, `NothingFound`, `Suggested`, `PlaylistsCome`, `Reload`, `TapSong`, `TapQuery`, `TapPlaylist` |
| `Datastore_proofs`, `DatastoreSole_proofs` | theorems about `Datastore`: no holes and no failed cast; one adder | - | - |
| `PlaylistImport_proofs`, `PartyPlayer_proofs`, `PartySole_proofs` | theorems about the two compositions with it | - | - |
| `SpotifyParty_proofs` | theorems about `SpotifyParty`, with its refinement of `Jukebox` | - | - |
| `PartyLifecycle_proofs` | theorems about `PartyLifecycle` | - | - |
| `SongSearch_proofs` | theorems about `SongSearch` | - | - |
| `MCDatastore`, `MCPlaylistImport`, `MCPartyPlayer`, `MCSongSearch` | small instances, symmetry sets | - | - |

How state corresponds to code:

* A queue is a function from slots to entries `[song, played]`. A child that
  only ever received `played` has the song `NoSong`. `server` is the node at
  the server. `Overlay` is the client's view: its cache with its own pending
  writes on top (`applyUserOverwriteAtPath`), and `Pending(d)` the SDK's
  `outstandingPuts`, split by whether the server has applied them, which the
  device does not know.
* `AddSong` is the read; the answer (length and last `songURL`, which is all
  the callback uses) waits in `adding[d]`. The callback is `RefuseDuplicate`,
  `StoreSong` or `TrapOnCast`: duplicate, write, and the failed `as!`.
* `IsArray` is the SDK's rule for when a snapshot's value is an array; a
  missing element is `NSNull`.
* A write and the snapshots the SDK raises for it are one step
  (`RaiseEvents`); their delivery to the delegate is a later one.
* `notes[d]` counts the notifications the app has not handled;
  `NowPlayingChanged` is the whole of `playerDidStartPlaying`.
* A device has one subscription in the checked instances. An attendee's second
  observer (on the party node, `Datastore.swift:152`) delivers the same queue a
  second time, and `queueDidChange` applied twice is the same as once; the
  model delivers it once.

`Datastore`'s own `Next` lets any device do what the players may ask of it:
subscribe once, and mark a slot it sees. `PartyPlayer` is checked to do no more
than that (`Spec` as a property), so what is shown or proved of `Datastore`
holds in the party while owners do not play music of their own.

* A closed party keeps its observers: `removeAllObservers` is called on the root
  of the database and removes those of the root alone. `TapClose` therefore
  leaves everything of the Datastore as it is.
* `PlaylistImport`: nothing but the timer and the completion holds the songs of
  an import, so `importing[d]` is their state, and `due[d]` says which waiting
  `addSong` will go on with them. The selected rows are a `Set<Int>`, whose
  order Swift leaves open: `SongsToQueue` is every order of them.
* `SpotifyMusicPlayer`: each operation appends at most one command;
  `Receive` carries out the oldest, `calls` are the callbacks and changes of
  the metadata that wait on the main queue.
* `PartyLifecycle`: `Fields` is what a read gives: the server's children of the
  party and the device's own writes on their way. `Again` is the orders in which
  the SDK may send what is unanswered (`restoreState`): the reads, kept in a
  dictionary, in any, then the writes in theirs.
* `AppleMusicPlayer`: `preparing` counts the calls of `prepareToPlay` without an
  answer; `Prepared` is their callback, which plays or only logs. Nothing waits for it:
  songs are added, skipped and cleared meanwhile, and the party may be closed.
* `SongSearch`: `rows` are what the table shows, the four data sources what a
  tap is looked up in. Taps come at any moment. `Sendable` are the texts a URL can
  be made of: typing another traps in the Autocompleter (`Autocompleter.swift:19`),
  asking for it traps with Apple Music (`AppleMusic.swift:37`), and with Spotify sends
  nothing and calls nothing back (`Spotify.swift:40-43`), which `DidRequestSearch` has
  although its map entry points at the view controller. Answers come in any order
  (`Found(k)`), fail, or call nothing back (`NothingFound(k)`; `NetworkRequest.swift:42`,
  `Autocompleter.swift:25-28` for hints). The force unwrap of `Spotify.swift:51` meets
  an error always, since `NetworkRequest` calls back with data or with an error.
* `asked` and `answered`, `PartyLifecycle`'s `cut` and `drawnTwice`, and
  `PlaylistImport`'s `selected` and `crossed` exist for the properties alone.

Operators marked `a mutant` stand for a plausible mistake in the definition
that follows them; no definition uses them. Each property below fails when one
of them takes the place of its definition.

## What the runs check

| Run | Instance | Shows |
|---|---|---|
| `DatastoreRace` | 2 devices, both add, one fault | `TypeOK`, `NoHoles`, `CastsSucceed`, and the invariants of their proofs, `NoHolesInv` and `CastsInv` |
| `PartySoleAdder` | host, guest; the guest adds, loses its connection or restarts; the host may close | `PartyTypeOK`, `PlayerIsShown`, `ShownIsQueue`, `ClearedWhenFinished`, that the party implements `Datastore!Spec`, `NoAdjacentDuplicates`, `AddedSongStays`, the invariants of the proofs `PartyInv` and `SoleAdderInv`, and `AttendeesCatchUp` under fairness |
| `PartyHostAdds` | host, guest; the host is the only one to add, and may close | no connection is lost: `PlayedIsPrefix`, the invariants of its proof, `MarksInOrder` and `SongsAreNew`, and that the host's player implements `Jukebox` (`HostIsJukebox`) |
| `PartyOwnMusic` | the owners use the Music app | `NoHoles` even then |
| `PlaylistImport` | 2 devices, one imports a playlist of 3 and taps songs at any moment of it, queue of 3, one fault | `ImportTypeOK`, `ImportKeepsOrder`, and `ImportArrives` under fairness |
| `SpotifyPaced` | 2 songs, queue of 4, one refused track; `PacedSpec` | `PartyTypeOK`, `PlaysWhatIsShown`, `CountIsSlot`, and that the party implements `Jukebox` (`IsJukebox`) |
| `PartyLifecycle` | 2 devices, 2 IDs, one fault, two asks for a party by anybody | `LifecycleTypeOK`, `PartyIsFound`, `SessionIsKept`, `OneHostPerParty`, `SongsStay`, and `ShownCodesWork` under fairness |
| `SongSearch` | 3 queries, one of which makes no URL, 4 searches | `SearchTypeOK`, `TapTakesTheRow`, `StoredAreLastThree`, and `AnswersAreShown` under fairness |
| `PartyUnheardSong` | host and guest add | violated: `ShownIsQueue` |
| `PartyHostResumes` | the host restarts | violated: `ClearedWhenFinished` |
| `PartyClosedPlays` | the host closes the party | violated: `ClosedIsSilent` |
| `SpotifyQuick` | songs are added at any pace | violated: `NothingIsReplaced` |

The four violated runs are findings, described in `PROJECT.json`:

1. A song written over a slot the host knows raises no `.childAdded`: the host
   never plays it, and shows one that is not in the queue.
2. After a restart the host reads a change of the system player's item, which comes
   from the songs of the life before, as the end of what the new view controller
   shows, and clears its player with a song left.
3. The observers of a closed party stay: the view controller of the host goes on to
   be told of songs, and gives them to its player.
4. Of two Spotify songs added quickly the second replaces the first, because
   `gotFirstTrack` is set by a callback. A comment on the delay in `addSongs` says that
   it is there for this (`Model/Datastore.swift:56-57`); other adds are not delayed.

Some properties that hold name the case in which they do not. Each such case is
a state or a step of the model, and the code does reach it:

* `TapTakesTheRow`: not while a reload waits on the main queue, nor from the moment a
  search is asked for until songs come (`Stale`). A tap then adds another song than
  its row shows, or indexes past the end. The songs that come may be those of an older
  search, since answers have no order; the tap then takes what its row shows.
* `OneHostPerParty` and `SongsStay`: not of an ID that was drawn a second time before the
  server knew of it (`drawnTwice`). Reading an ID and writing it are two steps, so
  both devices find it unused, and host it.
* `ImportKeepsOrder`, and the second half of `ImportArrives`: not of an import one of
  whose reads of the queue was under way together with that of a tap (`crossed`). Both
  are told the same length and write to the same slot.
* `PartyIsFound`: not of a party whose creator's app died before it had sent it (`cut`).
* `SongsStay`: only before the first fault.

Other assumptions are constants of an instance. What they are for shows when they
change; these are not runs of their own:

* `Adders` = both devices in an instance of `Datastore` with a queue of 3:
  `NoAdjacentDuplicates` fails. The duplicate check and the slot come from one
  read (`Model/Datastore.swift:36-50`), so two devices that add the same song at
  once get it twice in a row. `AddedSongStays` fails too.
* `OwnMusic = {guest}` in an instance of `PartyPlayer` with one song:
  `CastsSucceed` fails. Own music of a guest makes `didFinish` create a child
  without a song (the FIXME at `Model/Datastore.swift:88`), and the forced casts
  of the next `addSong` trap, on every device.
* `PlayedIsPrefix` fails in the instance of `PartySoleAdder`, where an attendee's connection
  is lost: its song is sent again, with `played` false, and takes the place of the
  mark that the host has made meanwhile, while later slots keep theirs.
* `MaxValidations = 2` in `SpotifyPaced`: `CountIsSlot` fails. Two validations
  subscribe twice, and each song is shown and enqueued twice.

### Bounds, and why they are enough

* Two devices. Three matter only for a third opinion on one slot; races need
  two writers, and the effect on another listener is the same for each.
* `MaxQueue` bounds the queue an add may start on (2 or 3): first song, song
  after a played one, and one after that. Adds that race may still write beyond. With
  `MaxQueue` = 3 TLC has checked the properties of `PartySoleAdder` other than
  `AttendeesCatchUp` too (402,244 states, with symmetry).
* `MaxInFlight` (2; 1 in `PlaylistImport`, `PartyOwnMusic` and `PartyClosedPlays`) bounds the
  writes not yet applied, and the messages on the way, per device: with 2, a song and a mark, or two
  songs, can be reordered against those of the other device and sent again.
* `MaxReads` is 1 but in `PlaylistImport`: a tap on a result leaves the search at once
  (`SongSearchViewController.swift:231-232`), so that two reads of one device
  do not overlap in ordinary use. Two of them would race as two devices do.
* `PlaylistImport` has `MaxReads` = 2: the timer of an import fires while a tap's read is
  under way, and the other way round. A tap leaves room for the read of the
  import, so that the bound does not make the timer wait. A playlist `<<A, A, B>>` has
  all that matters to order and to duplicates: a song next to itself, and another one.
  The queue has room for it, or for taps in the place of some of it.
* `MaxFaults` is 1: one lost connection or restart at any point.
* `MaxPrepares` is 1 (2 in `PartyHostAdds`): how many calls of `prepareToPlay` may wait when
  the user taps play; that of the first song comes on top.
* `SpotifyPaced`: four songs give a first track, queued ones, the end and a first
  track again; two waiting commands let a pause meet an enqueue.
* `PartyLifecycle`: two devices and two IDs make an ID that is used and drawn
  again, and two hosts after the same one. `MaxAsks` = 2 lets one user ask twice (a
  double tap, a link while a party is created or shown) and two users at once;
  `MaxRequests` = 2 bounds what waits when a user asks; the three writes and the
  read of a creation are sent in any case. With `MaxAsks` = 3 TLC has checked all but
  `ShownCodesWork` (1,468,600 states, with symmetry).
* `SongSearch`: four searches are one more than are stored; two wait at once, which is
  enough for an older answer to come last.
* Songs are interchangeable (symmetry), and so are devices where all have the
  same role. The runs with liveness use no symmetry.
* `CHECK_DEADLOCK FALSE` in all runs but `DatastoreRace`: when the songs are over and no one
  does anything, the party really is at rest.

### Assumptions about the environment

* `MaxNotes` = 1: iOS merges notifications of item changes that the app has not
  handled yet. With 2 `ClearedWhenFinished` fails: two late notifications both read the later item.
* In the passing runs of `PartyPlayer` the songs come from one device and the
  host's app does not restart; the violated runs show what each of the two
  assumptions is for.
* A song appended to a player that has ended stays until the user presses play.
* A stopped system player keeps its queue and has no now-playing item. A party
  is closed once its device has subscribed, and that device does not come back.
* The Spotify controller carries out commands in order, tells of each change of
  its metadata, and answers each `playSpotifyURI`.
* `PacedSpec` is an assumption about users, not a guard of the code: a song is added,
  and skipped, when the controller has nothing left to answer, and none is added
  before the host observes the queue. The module's `Spec` lets both happen at any time;
  `SpotifyQuick` shows what goes wrong then.
* `PartyLifecycle` and `SongSearch` assume nothing of users: they tap at any moment, twice,
  and while an answer is on its way. `randomString` draws any ID. A stored session may
  be too old at any time (`ShowMenu`).
* The server keeps its data; the SDK keeps nothing on the disk (persistence is
  not enabled by the app).

### Fairness

`FairPartySpec` asks weak fairness of what happens by itself: joining after the
view appears, the timer of `hasValidSession`, callbacks and notifications on the
main queue, and a connection that in the end carries messages. It asks nothing
of users, of songs ending, or of faults, whose number is bounded.

`ImportFairness` asks the same of the network, of callbacks and of the timer of
`addSongs`, weakly: nothing makes the timer wait. `PartyLifecycle` asks that requests reach
the server and answers are handled, of each device. `SongSearch` asks only that a
reload that waits on the main queue is done: whether a search is ever
answered is left open, since the code has paths that never call back.

## Refinement

`Jukebox` states what the app needs of a music player, in two variables. Both
players are shown to implement it in composition with their view controller,
since the rule that keeps them in order is spread over the two:
`PartyPlayer` maps `toPlay` to the items of the system player, `SpotifyParty` to
the track that counts, the queued ones and those of commands on their way. A
refused track is `Refuse`, so that the jukebox holds with errors too. `PartyPlayer`
moreover implements `Datastore`'s `Spec`, and with it inherits what is proved of it.

## What is proved

`Datastore_proofs` proves, for any set of devices and songs and any bounds:

* `TypeCorrect`: `Spec => []TypeOK`.
* `NoHolesHolds`: `Spec => []NoHoles`: the queue at the server and in every
  listening device occupies slots 0, ..., n-1.
* `NoHolesInvHolds`: the invariant both follow from.

They rest on the named assumptions of the modules (`TypesAssumption`,
`DatabaseAssumption`, `DatastoreAssumption`): `NoSong` is no song, adders are
devices, the bounds are numbers.

`NoHoles` is not inductive: that the next write leaves no hole depends on every
message and write under way. `NoHolesInv` says which slots these may touch:

* `WritesFillUp`: the server's slots are a segment (0, ..., n-1) now and after
  each of the writes a device has in its outbox; the same holds of what a
  listening device knows; writes the server has applied are in the server.
* `MessagesFillUp`: what a device knows is a segment now and after each message
  in its inbox, and after the last one it is the server's.
* `AddsAreSeen`: an add that waits has counted slots that its device still
  sees; no step makes a device see less.

The argument is that segments are closed under union (`SegmentUnion`): a write
of one device extends the server's slots to a segment whatever another device
wrote in between, because both sets start at 0; and a write at the end of what
was seen extends a segment (`SegmentAdd`). Writes sent again touch slots the
server has. Each action has its lemma (`TransmitStep`, `ReceiveStep`, ...), with
one step per conjunct. The types are part of the induction: that the length
`addSong` reads is a number (`ReadCount`) needs the queue to be a segment.

### The casts of `addSong`

`Datastore_proofs` also proves `CastsSucceedHolds`: `Spec => []CastsSucceed`. A queue
that is read is an array when it has no hole, which is proved above; its last
element has a `songURL` when no slot has a mark only. `CastsInv` says why: in any
slot the first write is a song. It is so in what a device has sent
(`SongsSent`: a mark in the outbox is for a slot the server has, or a song
before it in the outbox), in what the server has sent a listening device
(`SongsCome`), and in what the device shows over its cache (`SongsShow`). A mark
is only ever made for a slot that is seen, and what is sent again after a lost
connection comes in the old order.

### One device that adds

With two adders songs are lost, and stand next to themselves. `DatastoreSole_proofs`
assumes `SoleAdder`, that one device at most adds songs and reads for one add at
a time, with any number of devices that mark, lose their connections and restart.
`Placed` is every pair of a slot and a song that is at the server, written,
told or cached anywhere.

* `SoleAdderInvHolds`: no slot is given two songs and no two neighbours the same
  one in `Placed`; the adder sees every slot the server has; an add that waits is
  for a slot past all of `Placed`, and knows the song in the last one.
* `NoAdjacentDuplicatesHolds` and `AddedSongStaysHolds` follow: a write that is sent
  again gives its slot the song it has.
* `SongsAreNewHolds` assumes `MaxFaults = 0` too: a song that is sent again is for a slot
  that has it already.

`PlaylistImport_proofs` carries the first of these over to imports of any
playlist (`ImportKeepsQueue`), because `addSongs` with its timer and completion
makes steps of the Datastore only (`ImportUsesDatastore`). Since timers and taps do not
wait for each other's reads, the theorem assumes of the behaviour, next to `OneAdder`,
what the other theorems have by a bound: `[]OneRead`, that no two reads of a device overlap.
Taps between the songs of an import, and while its timer runs, are within it. Its own invariant
(`ImportInv`, in that module) is `ImportTypeOK` by device: what is left of an
import is an end of what was selected, and `due` is the place of a waiting add.

`ImportKeepsOrderHolds`: `ImportSpec /\ []OneRead => []ImportKeepsOrder`, assuming `OneAdder`.
What the run `PlaylistImport` checks is more: there reads may overlap, and the property
excepts the imports they concern, not all behaviours in which they do. The property
speaks of two folds over sequences, so the proof has two halves.

* `OrderInv` says why the order is kept: each song that is done has a place
  among the songs that last (`Lasting`: at the server, or written and not yet
  applied), none before the place of the song before it. A song
  leaves these only with the app that wrote it (`LastingGrows`). The callback of
  an add finds all of them before the slot it was told of, since its read came
  after the last write: it writes to that slot, or the song it leaves out is in the slot
  before (`CallbackPlace`).
* Songs with such places are within the queue once repeats are left out
  (`KeptArePlaced`, `PlacedIsWithin`). What a fold gives is followed place by place
  (`FoldSteps`); the induction is over numbers, as the claim that the set of numbers
  it holds of has no least exception (`NumbersReached`).

TLC has checked `OrderInv` on an instance with `MaxReads` = 1.

### The party

`PartyPlayer_proofs` assumes `Undisturbed`: owners play no music of their own, the
host does not restart, a device subscribes once, and notifications merge. For
any devices, adders, songs, faults and other bounds:

* `PartyInvHolds`: `PartySpec => []PartyInv`, the conjunction of three reasons.
  `PlayerFollows`: the items of the player are the last of the songs shown, and a
  notification that waits with nothing loaded is of a song that has ended.
  `HeardOnce`: the slots the host has counted, shows and is to handle are all
  that it sees. `MarksAreOld`: no mark, wherever it is on its way, is for a slot the
  host has not counted.
* `PlayerIsShownHolds`, `ClearedWhenFinishedHolds`, `PartyTypeCorrect`.
* `PartyUsesDatastore`: `PartySpec => Spec`: a mark of the view controller, which
  counts instead of looking at the queue, is for a slot that its device sees. All that
  is proved of `Datastore` holds in the party.
* `HostIsJukeboxHolds`: each step of the party is a step of `Jukebox` or none.

`PartySole_proofs` adds `SoleAdder`:

* `ShownIsQueueHolds`: what the host shows and is to show is the queue from
  `songsPlayed` on. No slot changes its song, and each step is one of four: the host's
  player rests, the view of the host grows, a song is shown, a song is played.
* `MarksInOrderHolds`, while no connection is lost and no app restarts (`MaxFaults = 0`):
  the marks of the host at the server are a
  segment, those on their way continue it. No song is written over a mark,
  which needs `SongsAreNew`. A lost connection sends marks again, out of
  order with the server's, and nothing is proved of it.
* `PlayedIsPrefixHolds` follows, under the same assumption; `PartyQueueHolds` is what the
  party inherits from the Datastore.

The theorems on the party rest on `PartyAssumption` and `PlayerAssumption` besides
those of the Datastore, the ones on imports on `PlaylistAssumption`.

### The Spotify party

`SpotifyParty_proofs` proves, for any songs, number of commands, length of the queue
and refused tracks:

* `PartyTypeCorrect`: `Spec => []PartyTypeOK`, with no further assumption.
* `SongsAreCounted`, `ShowsWhatIsPlayed` (`CountIsSlot`, `PlaysWhatIsShown`) and the
  refinement `IsJukeboxHolds`, of `PacedSpec`, assuming `OneSession`, one validation at
  most. Without the pace songs are replaced (`SpotifyQuick`), without `OneSession`
  they are counted twice (see above).

The invariant is `PacedInv`, and has four parts besides the types:

* `IsHeardOnce`: there is one observer at most, what it heard of is what is shown, was
  counted or waits, and neighbours in the queue differ.
* `OneOnItsWay`: one song at most is between the queue and the controller; its
  track is of the last song shown, and no answer to `playSpotifyURI` and no skip waits beside it.
* `StartsSilent`: a player that has yet to start has no next track, makes no
  sound once the pause that `next` sent arrives, and what it was told is that
  there is no track; one that has started is sent no `playURI`.
* `TracksArePlaced` is why the two agree. Each change of the metadata that waits
  and each track of the controller has a place among the songs shown, in order
  and before the song on its way; the change to no track has the place of the
  track that ended. With no refused track the places leave none out. So a
  call for another track than the one shown says that the first song has
  finished (`PlacePop`) and that another follows (`PlaceBehind`), a call for no track while one song
  is shown that it was the last (`PlaceLast`), and, when no call waits, tracks and songs
  are the same (`PlaceRest`). With a refused track places may be left out, and a
  call may pop a song other than the one that ended: `CountIsSlot` and the jukebox
  hold, and `PlaysWhatIsShown` says nothing.

The lemmas `Place...` are about one change of the places each, over functions; the
steps of the party (`AddedParts`, `ShownParts`, `ReceivePlay`, ...) cite them. For the
refinement `PartsToPlay` splits what is to be played into the controller's
tracks and those of commands, and each step gives (`PlayGives`), finishes (`PlayAdvances`,
`PlayTaps`), refuses (`PlayRefuses`), plays or pauses (`PlayStarts`), or leaves it as it is.

They rest on `SpotifyAssumption` (`NoSong` is no song) and `PartyAssumption`.

### Sessions and parties

`PartyLifecycle_proofs` proves, for any devices, IDs, bounds and number of faults:

* `LifecycleTypeCorrect`: `Spec => []LifecycleTypeOK`.
* `PartyIsFoundHolds`: `Spec => []PartyIsFound`, for users of any kind. The invariant
  is `PartiesAreThere`: the party of a session, and of a read on its way, is
  complete in the eyes of its device (`Fields`: the server's children and the
  device's own writes), or cut short by the death of its app. What a device sees
  of a party only grows while its app lives: the server takes a write before
  it is forgotten, and a lost connection sends all again.
* `OneHostPerPartyHolds`: `Spec => []OneHostPerParty`, for users of any kind. The
  invariant is `IDsAreApart`, of the IDs that are not in `drawnTwice`. A device claims an
  ID from drawing it on, and wins it with the answer that nobody uses it; while the
  server knows nothing of an ID one device at most claims it, and no ID is won
  twice, since the first winner's claim precedes its writes.
* `SessionIsKeptHolds`: `Spec => []SessionIsKept`, for users of any kind. It is
  inductive with the types: whatever order answers come in, each that opens a player
  stores a session, and only closing a player removes it. That the session is of
  the party that is shown does not hold: after a double tap it is of the later one.
* `SongsStayHolds`: `Spec => []SongsStay`, for users of any kind. The property speaks of
  the time before the first fault and of the IDs not in `drawnTwice`, and so does the
  invariant, `QueueWithoutFaults`: there, `QueueInv`. Whoever asks whether an ID is used
  is alone with it until the answer (`AskIsAlone`, `WonIsNew`); one device at most
  writes a party, and before all it does with it later (`SessionIsLast`); and its
  writes are at the server before a player that reads it can show its code, and
  others can join and add songs (`LoadIsLast`, `JoinsSettled`).

They rest on `LifecycleAssumption`, whose part that matters is that `NoSession` is
no session. The steps are sorted once (`LifecycleSteps`): an app acts
(`AppActs`), the server answers (`Served`), all is sent again (`Resent`), an app dies
(`Died`); the first two invariants are proved for these four. TLC has checked
`PartiesAreThere` and `IDsAreApart` on the instance of the run `PartyLifecycle`, and
`QueueWithoutFaults` on smaller ones.

### The search

`SongSearch_proofs` proves, for any queries, hints, results and bounds:

* `SearchTypeCorrect`: `Spec => []SearchTypeOK`.
* `StoredAreLastThreeHolds`: `Spec => []StoredAreLastThree`. The step that matters
  is a lemma about sequences, `LastThreeOfAppend`: to drop the first of three and
  append is to take the last three of the longer history.
* `TapTakesTheRowHolds`: `Spec => []TapTakesTheRow`.

None assumes anything of users or of the network. They rest on `SearchAssumption`
(hints and results are given for each query, and the empty text is none). The
invariants are:

* `TypeInv`: the types, the stored searches, and `ClosedIsIdle`: nothing of a search that
  was left waits, so that no late answer changes the next one's rows.
* `RowsAreData`: unless `Stale`, the rows are the data. `TapReturn` changes the state
  without a reload, and leaves the search stale until songs come; `Found`, at
  whatever moment and of whichever search, orders a reload.

### Only model-checked

* `ImportArrives`, `AttendeesCatchUp`, `ShownCodesWork`, `AnswersAreShown`: liveness under
  fairness is beyond TLAPS.
* `NoHoles` when owners play music of their own (`PartyOwnMusic`), and imports whose
  reads overlap those of taps.

## Not modelled, and the plan

* Drawing, the extensions of the system's classes and logging: no state.
* The requests of the providers and the parsing of their answers: pure code. That
  an answer comes, fails, or comes late is in `SongSearch`.
* The stored name and token, and `submitFeedback`: one step each, met by nothing
  else in the app. That two feedbacks at once lose one is a hazard without a
  property.
* The screens that download playlists: they fill a list once; what is chosen in it
  is `PlaylistImport`.
* `PartyManager`: nothing uses it.
* Closing a Spotify party, and a second party after a closed one. The observers of
  the first go on to deliver its songs (`ClosedIsSilent` shows the root of it).
* What a stopped Apple Music player does when the callback of a `prepareToPlay` comes after
  the party was closed: `Prepared` starts it again, as in the code, and no property
  forbids it.
* Below `Pods/`: the Firebase SDK is modelled from how `src/Mixed/Mixed` uses it and
  from its own code where the order of events depends on it
  (`PartyDatabase`); the rest of the vendored code is not.

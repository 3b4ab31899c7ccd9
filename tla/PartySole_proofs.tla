--------------------------- MODULE PartySole_proofs ---------------------------
(***************************************************************************)
(* Proofs about an undisturbed party to which one device adds all songs:   *)
(* what the host shows and has yet to handle is the queue from the song it *)
(* plays on, and, while no connection is lost, the songs marked as played  *)
(* are the ones before it.                                                 *)
(***************************************************************************)
EXTENDS PartyPlayer_proofs, DatastoreSole_proofs

-----------------------------------------------------------------------------
(***************************************************************************)
(* The songs of the queue q from slot p on: those of sh, then those of the *)
(* snapshots evs.                                                          *)
(***************************************************************************)
Matches(q, p, sh, evs) ==
    /\ \A k \in 1..Len(sh) : q[p + k - 1].song = sh[k]
    /\ \A k \in 1..Len(evs) : q[p + Len(sh) + k - 1].song = evs[k].song

\* The queue grows, and the new slots are heard of.
LEMMA MatchMore ==
  ASSUME NEW q, NEW q2, NEW p \in Nat, NEW n \in Nat, NEW m \in Nat, n <= m,
         NEW sh \in Seq(Songs), NEW evs \in Seq(Entry), NEW new \in Seq(Entry),
         new = [k \in 1..(m - n) |-> q2[n + k - 1]],
         DOMAIN q = 0..(n - 1), \A i \in DOMAIN q : q2[i].song = q[i].song,
         p + Len(sh) + Len(evs) = n, Matches(q, p, sh, evs)
  PROVE  Matches(q2, p, sh, evs \o new)
<1>. DEFINE s == Len(sh)
            e == Len(evs)
            l == Len(new)
            both == evs \o new
<1>1. /\ s \in Nat /\ e \in Nat /\ l = m - n /\ l \in Nat
      /\ \A k \in 1..l : new[k] = q2[n + k - 1]
  OBVIOUS
<1>2. /\ Len(both) = e + l
      /\ \A k \in 1..e : both[k] = evs[k]
      /\ \A k \in 1..l : both[e + k] = new[k]
  BY ConcatProperties
<1>3. /\ \A k \in 1..s : q[p + k - 1].song = sh[k]
      /\ \A k \in 1..e : q[p + s + k - 1].song = evs[k].song
      /\ p + s + e = n
  BY DEF Matches
<1>. HIDE DEF s, e, l, both
<1>4. ASSUME NEW k \in 1..s PROVE q2[p + k - 1].song = sh[k]
  <2>1. p + k - 1 \in DOMAIN q
    BY <1>1, <1>3
  <2>. QED BY <1>3, <2>1
<1>5. ASSUME NEW k \in 1..(e + l) PROVE q2[p + s + k - 1].song = both[k].song
  <2>1. CASE k \in 1..e
    <3>1. p + s + k - 1 \in DOMAIN q
      BY <1>1, <1>3, <2>1
    <3>. QED BY <1>2, <1>3, <2>1, <3>1
  <2>2. CASE k \notin 1..e
    <3>1. PICK j \in 1..l : k = e + j
      <4>1. k - e \in 1..l /\ k = e + (k - e)
        BY <1>1, <2>2
      <4>. QED BY <4>1
    <3>2. p + s + k - 1 = n + j - 1
      BY <1>1, <1>3, <3>1
    <3>. QED BY <1>1, <1>2, <3>1, <3>2
  <2>. QED BY <2>1, <2>2
<1>6. Matches(q2, p, sh, both)
  BY <1>2, <1>4, <1>5 DEF Matches, s
<1>. QED BY <1>6 DEF both

\* The first song has been played.
LEMMA MatchNext ==
  ASSUME NEW q, NEW p \in Nat, NEW sh \in Seq(Songs), sh # << >>, NEW evs \in Seq(Entry),
         Matches(q, p, sh, evs)
  PROVE  Matches(q, p + 1, Tail(sh), evs)
<1>. DEFINE s == Len(sh)
            e == Len(evs)
            t == Tail(sh)
<1>1. s \in Nat /\ s > 0 /\ e \in Nat /\ Len(t) = s - 1 /\ \A k \in 1..(s - 1) : t[k] = sh[k + 1]
  <2>1. Len(t) = s - 1 /\ \A k \in 1..Len(t) : t[k] = sh[k + 1]
    BY HeadTailProperties
  <2>. QED BY <2>1
<1>2. /\ \A k \in 1..s : q[p + k - 1].song = sh[k]
      /\ \A k \in 1..e : q[p + s + k - 1].song = evs[k].song
  BY DEF Matches
<1>. HIDE DEF s, e, t
<1>3. ASSUME NEW k \in 1..(s - 1) PROVE q[(p + 1) + k - 1].song = t[k]
  <2>1. PICK j \in 1..s : j = k + 1
    BY <1>1
  <2>2. (p + 1) + k - 1 = p + j - 1 /\ t[k] = sh[j]
    BY <1>1, <2>1
  <2>. QED BY <1>2, <2>2
<1>4. ASSUME NEW k \in 1..e PROVE q[(p + 1) + (s - 1) + k - 1].song = evs[k].song
  <2>1. (p + 1) + (s - 1) + k - 1 = p + s + k - 1
    BY <1>1
  <2>. QED BY <1>2, <2>1
<1>5. Matches(q, p + 1, t, evs)
  BY <1>1, <1>3, <1>4 DEF Matches, e
<1>. QED BY <1>5 DEF t

\* The song of the oldest snapshot is shown.
LEMMA MatchHandled ==
  ASSUME NEW q, NEW p \in Nat, NEW sh \in Seq(Songs), NEW evs \in Seq(Entry), evs # << >>,
         Head(evs).song \in Songs, Matches(q, p, sh, evs)
  PROVE  Matches(q, p, Append(sh, Head(evs).song), Tail(evs))
<1>. DEFINE s == Len(sh)
            e == Len(evs)
            x == Head(evs).song
            sh2 == Append(sh, x)
            t == Tail(evs)
<1>1. s \in Nat /\ e \in Nat /\ e > 0 /\ x = evs[1].song
  OBVIOUS
<1>2. Len(t) = e - 1 /\ \A k \in 1..(e - 1) : t[k] = evs[k + 1]
  <2>1. Len(t) = e - 1 /\ \A k \in 1..Len(t) : t[k] = evs[k + 1]
    BY HeadTailProperties
  <2>. QED BY <2>1
<1>3. Len(sh2) = s + 1 /\ (\A k \in 1..s : sh2[k] = sh[k]) /\ sh2[s + 1] = x
  <2>. HIDE DEF x
  <2>. QED OBVIOUS
<1>4. /\ \A k \in 1..s : q[p + k - 1].song = sh[k]
      /\ \A k \in 1..e : q[p + s + k - 1].song = evs[k].song
  BY DEF Matches
<1>. HIDE DEF s, e, x, sh2, t
<1>5. ASSUME NEW k \in 1..(s + 1) PROVE q[p + k - 1].song = sh2[k]
  <2>1. CASE k \in 1..s
    BY <1>3, <1>4, <2>1
  <2>2. CASE k = s + 1
    <3>1. 1 \in 1..e /\ p + k - 1 = p + s + 1 - 1
      BY <1>1, <2>2
    <3>. QED BY <1>1, <1>3, <1>4, <2>2, <3>1
  <2>. QED BY <1>1, <2>1, <2>2
<1>6. ASSUME NEW k \in 1..(e - 1) PROVE q[p + (s + 1) + k - 1].song = t[k].song
  <2>1. PICK j \in 1..e : j = k + 1
    BY <1>1
  <2>2. p + (s + 1) + k - 1 = p + s + j - 1 /\ t[k] = evs[j]
    BY <1>1, <1>2, <2>1
  <2>. QED BY <1>4, <2>2
<1>7. Matches(q, p, sh2, t)
  BY <1>2, <1>3, <1>5, <1>6 DEF Matches
<1>. QED BY <1>7 DEF sh2, t, x

-----------------------------------------------------------------------------
(***************************************************************************)
(* What the host shows is the queue.                                       *)
(***************************************************************************)

\* The songs of a view are songs placed.
ViewPlaced ==
    Listening(Host) => \A i \in DOMAIN View(Host) : SongAt(i, View(Host)[i].song) \in Placed

LEMMA ViewIsPlaced == DataInv => ViewPlaced
<1>. SUFFICES ASSUME DataInv, Listening(Host), NEW i \in DOMAIN View(Host)
              PROVE  SongAt(i, View(Host)[i].song) \in Placed
  BY DEF ViewPlaced
<1>1. TypeOK /\ Host \in Devices
  BY PartyAssumption DEF DataInv
<1>2. View(Host)[i].song # NoSong
  BY <1>1, ViewsAreSound DEF ViewsSound, AllSongs
<1>3. SongAt(i, View(Host)[i].song) \in EntrySongs(View(Host))
  BY <1>2 DEF EntrySongs
<1>. QED BY <1>1, <1>3, ReadIsPlaced DEF ReadQueue

\* What the host shows and counts has its type.
LEMMA ShownTyped == Inv => Shown(Host) \in Seq(Songs) /\ songsPlayed[Host] \in Nat
BY HostShows, PlayTypes DEF Inv

\* A song in the view of the host stays in its slot.
LEMMA ViewSongsStay ==
  ASSUME SoleAdder, DataInv, DataInv', SoleAdderInv, [Next]_vars,
         Listening(Host), Listening(Host)', DOMAIN View(Host) \subseteq DOMAIN View(Host)',
         NEW i \in DOMAIN View(Host)
  PROVE  View(Host)'[i].song = View(Host)[i].song
<1>1. SongAt(i, View(Host)[i].song) \in Placed
  BY ViewIsPlaced DEF ViewPlaced
<1>2. SongAt(i, View(Host)'[i].song) \in Placed'
  <2>1. i \in DOMAIN View(Host)'
    OBVIOUS
  <2>2. ViewPlaced'
    BY ViewIsPlaced, PTL
  <2>. QED BY <2>1, <2>2 DEF ViewPlaced
<1>3. SoleAdderInv' /\ (Placed' \subseteq Placed \/ Placed \subseteq Placed')
  <2>1. OneRead
    BY DEF SoleAdderInv, AddsAreFresh, OneRead
  <2>2. OneRead'
    BY <2>1, OneReadStep DEF DataInv
  <2>. QED BY <2>2, SoleAdderStep DEF DataInv, SoleAdder
<1>4. OneSongPerSlot /\ OneSongPerSlot'
  BY <1>3 DEF SoleAdderInv
<1>. QED BY <1>1, <1>2, <1>3, <1>4 DEF OneSongPerSlot, SongAt

ShownMatches ==
    Listening(Host) => Matches(View(Host), songsPlayed[Host], Shown(Host), events[Host])

\* A step of the Datastore, after which the host hears of what is new.
LEMMA MatchRaise ==
  ASSUME Undisturbed, SoleAdder, Inv, Inv', SoleAdderInv, [Next]_vars,
         NEW d \in Devices, DataMove(d), RaiseEvents,
         IF Listening(Host)
         THEN /\ Matches(View(Host), songsPlayed'[Host], Shown(Host)', events[Host])
              /\ songsPlayed'[Host] + Len(Shown(Host)') + Len(events[Host])
                   = Cardinality(DOMAIN View(Host))
         ELSE songsPlayed'[Host] = 0 /\ Shown(Host)' = << >> /\ events[Host] = << >>
  PROVE  ShownMatches'
<1>. USE PartyAssumption
<1>1. /\ DataInv /\ DataInv' /\ EventsTyped /\ TypeOK /\ NoHolesInv
      /\ observers[Host] \in Nat /\ observers[Host] <= 1
  BY DEF Undisturbed, Inv, HeardOnce, DataInv, TypeOK, DBTypeOK
<1>2. PICK n, m \in Nat : HostHears(n, m)
  BY <1>1, RaiseStep
<1>. DEFINE new == [k \in 1..(m - n) |-> View(Host)'[n + k - 1]]
<1>3. /\ n <= m /\ new \in Seq(Entry) /\ events'[Host] = events[Host] \o new
      /\ Listening(Host) => DOMAIN View(Host) = 0..(n - 1) /\ Cardinality(DOMAIN View(Host)) = n
      /\ ~Listening(Host) => n = 0
  BY <1>2 DEF HostHears
<1>4. /\ events[Host] \in Seq(Entry) /\ Shown(Host)' \in Seq(Songs) /\ songsPlayed'[Host] \in Nat
  <2>1. (Inv => Shown(Host) \in Seq(Songs) /\ songsPlayed[Host] \in Nat)'
    BY ShownTyped, PTL
  <2>. QED BY <2>1 DEF Inv, EventsTyped
<1>. SUFFICES ASSUME Listening(Host)'
              PROVE  Matches(View(Host)', songsPlayed'[Host], Shown(Host)', events'[Host])
  BY DEF ShownMatches
<1>. HIDE DEF new
<1>5. CASE Listening(Host)
  <2>1. DOMAIN View(Host) \subseteq DOMAIN View(Host)'
    BY <1>1, <1>5, ViewGrows
  <2>2. \A i \in DOMAIN View(Host) : View(Host)'[i].song = View(Host)[i].song
    BY <1>1, <1>5, <2>1, ViewSongsStay
  <2>3. songsPlayed'[Host] + Len(Shown(Host)') + Len(events[Host]) = n
    BY <1>3, <1>5
  <2>4. new = [k \in 1..(m - n) |-> View(Host)'[n + k - 1]]
    BY DEF new
  <2>5. Matches(View(Host)', songsPlayed'[Host], Shown(Host)', events[Host] \o new)
    BY <1>3, <1>4, <1>5, <2>2, <2>3, <2>4, MatchMore
  <2>. QED BY <1>3, <2>5
<1>6. CASE ~Listening(Host)
  <2>1. n = 0 /\ songsPlayed'[Host] = 0 /\ Shown(Host)' = << >> /\ events[Host] = << >>
    BY <1>3, <1>6
  <2>2. new = [k \in 1..(m - n) |-> View(Host)'[n + k - 1]]
    BY DEF new
  <2>3. DOMAIN EmptyQueue = 0..(n - 1)
    BY <2>1 DEF EmptyQueue
  <2>4. Matches(EmptyQueue, songsPlayed'[Host], Shown(Host)', events[Host])
    BY <2>1 DEF Matches
  <2>5. songsPlayed'[Host] + Len(Shown(Host)') + Len(events[Host]) = n
    BY <2>1
  <2>6. \A i \in DOMAIN EmptyQueue : View(Host)'[i].song = EmptyQueue[i].song
    BY DEF EmptyQueue
  <2>7. Matches(View(Host)', songsPlayed'[Host], Shown(Host)', events[Host] \o new)
    BY <1>3, <1>4, <2>2, <2>3, <2>4, <2>5, <2>6, MatchMore
  <2>. QED BY <1>3, <2>7
<1>. QED BY <1>5, <1>6

-----------------------------------------------------------------------------
(***************************************************************************)
(* What the steps of an undisturbed party are to its host.                 *)
(***************************************************************************)
HostCounts == <<Shown(Host), songsPlayed[Host]>>

\* It sees and hears nothing new; another app may have died.
HostRests ==
    /\ UNCHANGED <<HostCounts, events[Host], View(Host), Listening(Host), server>>
    /\ outbox' = outbox \/ \E d \in Devices \ {Host} : Restart(d)

\* A device moves the queue on, and the host hears of what is new.
QueueMoves == UNCHANGED HostCounts /\ RaiseEvents /\ \E d \in Devices : SharedMove(d)

\* It shows the oldest song it has heard of.
SongIsShown ==
    /\ events[Host] # << >> /\ events'[Host] = Tail(events[Host])
    /\ Head(events[Host]).song \in Songs
    /\ Shown(Host)' = Append(Shown(Host), Head(events[Host]).song)
    /\ UNCHANGED <<songsPlayed[Host], dbVars>>

\* The song it shows first has been played.
SongIsPlayed ==
    /\ Shown(Host) # << >> /\ Shown(Host)' = Tail(Shown(Host))
    /\ songsPlayed'[Host] = songsPlayed[Host] + 1
    /\ DidFinish(Host, songsPlayed[Host]) /\ RaiseEvents

\* Nothing of the database changes.
LEMMA RestsWhenSame ==
  ASSUME UNCHANGED <<dbVars, viewVars, events[Host]>>
  PROVE  HostRests
BY DEF HostRests, HostCounts, Shown, View, Pending, Listening, dbVars, viewVars

LEMMA AddIsShown ==
  ASSUME Inv, NEW d \in Devices, DidAddSong(d)
  PROVE  SongIsShown
<1>. USE PartyAssumption
<1>. DEFINE entry == Head(events[Host])
<1>1. /\ d = Host /\ events[Host] # << >> /\ events' = [events EXCEPT ![Host] = Tail(events[Host])]
      /\ UNCHANGED <<vars, joined, closed>>
  BY DEF DidAddSong
<1>2. entry \in Entry /\ entry.song # NoSong /\ ~entry.played
  <2>1. events[Host] \in Seq(Entry)
    BY DEF Inv, EventsTyped
  <2>2. entry = events[Host][1] /\ 1 \in DOMAIN events[Host] /\ entry \in Entry
    BY <1>1, <2>1
  <2>. QED BY <2>2 DEF Inv, HeardOnce
<1>3. entry.song \in Songs
  BY <1>2 DEF Entry, MaybeSongs
<1>4. /\ ShowAdded(Host, entry.song) /\ Enqueue(Host, entry.song, ~closed[Host])
      /\ UNCHANGED songsPlayed
  BY <1>1, <1>2 DEF DidAddSong
<1>5. events'[Host] = Tail(events[Host])
  BY <1>1 DEF Inv, EventsTyped
<1>. HIDE DEF entry
<1>6. Shown(Host)' = Append(Shown(Host), entry.song)
  BY <1>1, <1>3, <1>4, AddPlays DEF Inv
<1>. QED BY <1>1, <1>3, <1>4, <1>5, <1>6 DEF SongIsShown, entry, vars

LEMMA ChangeIsPlayed ==
  ASSUME Undisturbed, Inv, NEW d \in Devices, NowPlayingChanged(d)
  PROVE  HostRests \/ SongIsPlayed
<1>. USE PartyAssumption
<1>1. PlayInv /\ MaxNotes = 1
  BY DEF Inv, Undisturbed
<1>2. /\ d = Host
      /\ IsOtherItem(Host) => Shown(Host) # << >> /\ Shown(Host)' = Tail(Shown(Host))
  BY <1>1, NextPlays
<1>3. CASE ~IsOtherItem(Host)
  <2>1. UNCHANGED <<vars, viewVars, events>>
    BY <1>2, <1>3 DEF NowPlayingChanged
  <2>. QED BY <2>1, RestsWhenSame DEF vars
<1>4. CASE IsOtherItem(Host)
  <2>1. /\ DidFinish(Host, songsPlayed[Host]) /\ RaiseEvents
        /\ songsPlayed' = [songsPlayed EXCEPT ![Host] = songsPlayed[Host] + 1]
    BY <1>2, <1>4 DEF NowPlayingChanged, FinishAndCount
  <2>2. songsPlayed'[Host] = songsPlayed[Host] + 1
    BY <1>1, <2>1, PlayTypes
  <2>. QED BY <1>2, <1>4, <2>1, <2>2 DEF SongIsPlayed
<1>. QED BY <1>3, <1>4

LEMMA ResumeRests ==
  ASSUME Undisturbed, Inv, NEW d \in Devices, ResumeSession(d)
  PROVE  HostRests
<1>. USE PartyAssumption
<1>1. PlayInv /\ TypeOK /\ CastsSucceed
  BY DEF Inv, DataInv, CastsInv
<1>2. d # Host /\ Restart(d) /\ Shown(Host)' = Shown(Host)
  BY <1>1, ResumePlays DEF Undisturbed
<1>3. events'[Host] = events[Host] /\ songsPlayed'[Host] = songsPlayed[Host]
  BY <1>1, <1>2, PlayTypes DEF ResumeSession, Inv, EventsTyped
<1>4. /\ cache'[Host] = cache[Host] /\ outbox'[Host] = outbox[Host]
      /\ unacked'[Host] = unacked[Host] /\ observers'[Host] = observers[Host]
      /\ server' = server
  BY <1>1, <1>2 DEF Restart, AppDies, Forget, TypeOK, DBTypeOK
<1>5. View(Host)' = View(Host) /\ Listening(Host)' = Listening(Host)
  BY <1>4 DEF View, Pending, Listening
<1>. QED BY <1>2, <1>3, <1>4, <1>5 DEF HostRests, HostCounts

\* Every step is one of these.
LEMMA HostSteps ==
  ASSUME Undisturbed, Inv, [PartyNext]_partyVars
  PROVE  HostRests \/ QueueMoves \/ SongIsShown \/ SongIsPlayed
<1>. USE PartyAssumption
<1>1. PlayInv /\ TypeOK
  BY DEF Inv, DataInv
<1>2. CASE UNCHANGED partyVars \/ TapPlayPause \/ TapNext
  BY <1>2, RestsWhenSame DEF partyVars, vars, TapPlayPause, TapNext
<1>3. ASSUME NEW d \in Devices,
             SongFinishes(d) \/ PlayerIsPrepared(d) \/ TapClose(d) \/ JoinParty(d)
      PROVE  HostRests
  BY <1>3, RestsWhenSame DEF SongFinishes, PlayerIsPrepared, TapClose, JoinParty, vars
<1>4. ASSUME NEW d \in Devices, NEW s \in Songs, TapSong(d, s) PROVE HostRests
  BY <1>4, RestsWhenSame DEF TapSong, AddSong
<1>5. ASSUME NEW d \in Devices, HasValidSession(d) \/ AddSongCallback(d) \/ Network(d)
      PROVE  QueueMoves
  <2>1. SharedMove(d)
    BY <1>1, <1>5, SubscribesOnce DEF SharedMove, AddSongCallback, Network
  <2>2. RaiseEvents /\ UNCHANGED viewVars
    BY <1>5 DEF HasValidSession, AddSongCallback, Network
  <2>. QED BY <2>1, <2>2 DEF QueueMoves, HostCounts, Shown, viewVars
<1>6. ASSUME NEW d \in Devices, QueueDidChange(d) PROVE HostRests
  <2>1. /\ d # Host /\ events' = [events EXCEPT ![d] = Tail(@)]
        /\ UNCHANGED <<vars, songsPlayed>>
    BY <1>6 DEF QueueDidChange
  <2>2. currentSong'[Host] = currentSong[Host] /\ songQueue'[Host] = songQueue[Host]
    BY <1>1, <1>6, <2>1, PlayTypes DEF QueueDidChange
  <2>3. events'[Host] = events[Host]
    BY <2>1 DEF Inv, EventsTyped
  <2>. QED BY <2>1, <2>2, <2>3 DEF HostRests, HostCounts, Shown, View, Pending, Listening,
              vars, dbVars
<1>7. ASSUME NEW d \in Devices, OwnerPlays(d) PROVE HostRests
  BY <1>7 DEF OwnerPlays, Undisturbed
<1>. QED BY <1>2, <1>3, <1>4, <1>5, <1>6, <1>7, AddIsShown, ChangeIsPlayed, ResumeRests
     DEF PartyNext

\* What the host shows stays the queue.
LEMMA ShownMatchesStep ==
  ASSUME Undisturbed, SoleAdder, Inv, Inv', SoleAdderInv, [Next]_vars, ShownMatches,
         HostRests \/ QueueMoves \/ SongIsShown \/ SongIsPlayed
  PROVE  ShownMatches'
<1>. USE PartyAssumption
<1>1. /\ Shown(Host) \in Seq(Songs) /\ songsPlayed[Host] \in Nat /\ events[Host] \in Seq(Entry)
  BY ShownTyped DEF Inv, EventsTyped
<1>2. CASE HostRests
  BY <1>2 DEF HostRests, HostCounts, ShownMatches
<1>3. IF Listening(Host)
      THEN /\ Matches(View(Host), songsPlayed[Host], Shown(Host), events[Host])
           /\ songsPlayed[Host] + Len(Shown(Host)) + Len(events[Host])
                = Cardinality(DOMAIN View(Host))
      ELSE songsPlayed[Host] = 0 /\ Shown(Host) = << >> /\ events[Host] = << >>
  BY DEF ShownMatches, Inv, HeardOnce
<1>4. CASE QueueMoves
  <2>1. Shown(Host)' = Shown(Host) /\ songsPlayed'[Host] = songsPlayed[Host] /\ RaiseEvents
    BY <1>4 DEF QueueMoves, HostCounts
  <2>2. PICK d \in Devices : DataMove(d)
    BY <1>4 DEF QueueMoves, DataMove
  <2>. QED BY <1>3, <2>1, <2>2, MatchRaise
<1>5. CASE SongIsShown
  <2>1. Listening(Host)
    BY <1>3, <1>5 DEF SongIsShown
  <2>2. View(Host)' = View(Host) /\ Listening(Host)' = Listening(Host)
    BY <1>5 DEF SongIsShown, View, Pending, Listening, dbVars
  <2>3. Matches(View(Host), songsPlayed[Host], Append(Shown(Host), Head(events[Host]).song),
                Tail(events[Host]))
    BY <1>1, <1>3, <1>5, <2>1, MatchHandled DEF SongIsShown
  <2>. QED BY <1>5, <2>2, <2>3 DEF SongIsShown, ShownMatches
<1>6. CASE SongIsPlayed
  <2>. DEFINE sh == Shown(Host)
              p == songsPlayed[Host]
  <2>1. /\ sh # << >> /\ Shown(Host)' = Tail(sh) /\ songsPlayed'[Host] = p + 1
        /\ DidFinish(Host, p) /\ RaiseEvents
    BY <1>6 DEF SongIsPlayed
  <2>2. Listening(Host)
    BY <1>3, <2>1
  <2>3. Matches(View(Host), p + 1, Tail(sh), events[Host])
    BY <1>1, <1>3, <2>1, <2>2, MatchNext
  <2>4. DataMove(Host)
    BY <1>1, <2>1 DEF DataMove
  <2>5. (p + 1) + Len(Tail(sh)) + Len(events[Host]) = Cardinality(DOMAIN View(Host))
    <3>. DEFINE l == Len(sh)
                l2 == Len(Tail(sh))
                e == Len(events[Host])
                c == Cardinality(DOMAIN View(Host))
    <3>1. p + l + e = c /\ p \in Nat /\ e \in Nat
      BY <1>1, <1>3, <2>2
    <3>2. sh \in Seq(Songs)
      BY <1>1
    <3>3. l2 = l - 1 /\ l \in Nat
      <4>. HIDE DEF sh
      <4>. QED BY <2>1, <3>2, HeadTailProperties
    <3>. HIDE DEF sh, p, l, l2, e, c
    <3>4. (p + 1) + l2 + e = c
      BY <3>1, <3>3
    <3>. QED BY <3>4 DEF l2, e, c
  <2>. QED BY <2>1, <2>2, <2>3, <2>4, <2>5, MatchRaise
<1>. QED BY <1>2, <1>4, <1>5, <1>6

\* The songs shown and those heard of, one after the other.
AreFrom(all, q, p) == \A k \in 1..Len(all) : q[p + k - 1].song = all[k]

LEMMA MatchesAll ==
  ASSUME NEW q, NEW p \in Nat, NEW sh \in Seq(MaybeSongs), NEW evs \in Seq(Entry),
         Matches(q, p, sh, evs),
         NEW heard \in Seq(MaybeSongs), Len(heard) = Len(evs),
         \A k \in 1..Len(evs) : heard[k] = evs[k].song
  PROVE  /\ Len(sh \o heard) = Len(sh) + Len(evs)
         /\ AreFrom(sh \o heard, q, p)
<1>. DEFINE s == Len(sh)
            e == Len(evs)
            all == sh \o heard
<1>1. s \in Nat /\ e \in Nat /\ Len(heard) = e
  OBVIOUS
<1>2. /\ Len(all) = s + e
      /\ \A k \in 1..s : all[k] = sh[k]
      /\ \A k \in 1..e : all[s + k] = heard[k]
  BY <1>1, ConcatProperties
<1>3. /\ \A k \in 1..s : q[p + k - 1].song = sh[k]
      /\ \A k \in 1..e : q[p + s + k - 1].song = heard[k]
  BY DEF Matches
<1>. HIDE DEF s, e, all
<1>4. ASSUME NEW k \in 1..(s + e) PROVE q[p + k - 1].song = all[k]
  <2>1. CASE k \in 1..s
    BY <1>2, <1>3, <2>1
  <2>2. CASE k \notin 1..s
    <3>1. PICK j \in 1..e : k = s + j
      <4>1. k - s \in 1..e /\ k = s + (k - s)
        BY <1>1, <2>2
      <4>. QED BY <4>1
    <3>2. p + k - 1 = p + s + j - 1
      BY <1>1, <3>1
    <3>. QED BY <1>2, <1>3, <3>1, <3>2
  <2>. QED BY <2>1, <2>2
<1>5. Len(all) = s + e /\ AreFrom(all, q, p)
  BY <1>2, <1>4 DEF AreFrom
<1>. QED BY <1>5 DEF s, e, all

\* So what the host shows is the queue.
LEMMA ShownFromInv == Inv /\ ShownMatches => ShownIsQueue
<1>. USE PartyAssumption
<1>. DEFINE evs == events[Host]
            heard == [k \in 1..Len(evs) |-> evs[k].song]
            shown == Shown(Host) \o heard
            q == View(Host)
<1>. SUFFICES ASSUME Inv, ShownMatches, Listening(Host)
              PROVE  /\ songsPlayed[Host] + Len(shown) = Cardinality(DOMAIN q)
                     /\ \A k \in 1..Len(shown) : q[songsPlayed[Host] + k - 1].song = shown[k]
  BY DEF ShownIsQueue
<1>1. /\ Shown(Host) \in Seq(Songs) /\ songsPlayed[Host] \in Nat /\ evs \in Seq(Entry)
  BY ShownTyped DEF Inv, EventsTyped
<1>2. /\ Matches(q, songsPlayed[Host], Shown(Host), evs)
      /\ songsPlayed[Host] + Len(Shown(Host)) + Len(evs) = Cardinality(DOMAIN q)
  BY DEF ShownMatches, Inv, HeardOnce
<1>3. /\ Len(shown) = Len(Shown(Host)) + Len(evs)
      /\ \A k \in 1..Len(shown) : q[songsPlayed[Host] + k - 1].song = shown[k]
  <2>. DEFINE sh == Shown(Host)
              p == songsPlayed[Host]
  <2>1. sh \in Seq(MaybeSongs) /\ p \in Nat /\ evs \in Seq(Entry) /\ Matches(q, p, sh, evs)
    <3>1. \A s \in Seq(Songs) : s \in Seq(MaybeSongs)
      BY DEF MaybeSongs
    <3>. QED BY <1>1, <1>2, <3>1
  <2>2. /\ heard \in Seq(MaybeSongs) /\ Len(heard) = Len(evs)
        /\ \A k \in 1..Len(evs) : heard[k] = evs[k].song
    <3>1. \A k \in 1..Len(evs) : evs[k] \in Entry
      BY <2>1
    <3>2. \A k \in 1..Len(evs) : evs[k].song \in MaybeSongs
      BY <3>1 DEF Entry
    <3>3. Len(evs) \in Nat
      BY <2>1
    <3>. HIDE DEF evs
    <3>. QED BY <3>2, <3>3
  <2>. HIDE DEF evs, heard, q, sh, p
  <2>3. /\ Len(sh \o heard) = Len(sh) + Len(evs)
        /\ AreFrom(sh \o heard, q, p)
    BY <2>1, <2>2, MatchesAll
  <2>. QED BY <2>3 DEF AreFrom, sh, p
<1>4. songsPlayed[Host] + Len(shown) = Cardinality(DOMAIN q)
  <2>. DEFINE p == songsPlayed[Host]
              s == Len(Shown(Host))
              e == Len(evs)
              c == Cardinality(DOMAIN q)
              l == Len(shown)
  <2>1. p + s + e = c /\ l = s + e /\ p \in Nat /\ s \in Nat /\ e \in Nat
    BY <1>1, <1>2, <1>3
  <2>. HIDE DEF p, s, e, c, l
  <2>2. p + l = c
    BY <2>1
  <2>. QED BY <2>2 DEF p, c, l
<1>. QED BY <1>3, <1>4

-----------------------------------------------------------------------------
(***************************************************************************)
(* The marks of the host come in the order of the slots.                   *)
(***************************************************************************)

\* One write more.
LEMMA MarkedMore ==
  ASSUME NEW ws \in Seq(Write), NEW w \in Write
  PROVE  /\ w.song # NoSong => Marks(Append(ws, w)) = Marks(ws)
         /\ w.song = NoSong => Marks(Append(ws, w)) = Marks(ws) \cup {w.slot}
<1>. DEFINE n == Len(ws)
            vs == Append(ws, w)
<1>1. /\ n \in Nat /\ DOMAIN ws = 1..n /\ DOMAIN vs = 1..(n + 1)
      /\ \A k \in 1..n : vs[k] = ws[k]
      /\ vs[n + 1] = w
  OBVIOUS
<1>. HIDE DEF n, vs
<1>2. \A x : x \in Marks(vs) <=> x \in Marks(ws) \/ (w.song = NoSong /\ x = w.slot)
  <2>1. ASSUME NEW x PROVE x \in Marks(vs) <=> \E k \in 1..(n + 1) : vs[k].song = NoSong /\ vs[k].slot = x
    BY <1>1 DEF Marks
  <2>2. ASSUME NEW x PROVE x \in Marks(ws) <=> \E k \in 1..n : ws[k].song = NoSong /\ ws[k].slot = x
    BY <1>1 DEF Marks
  <2>3. \A k \in 1..(n + 1) : k \in 1..n \/ k = n + 1
    BY <1>1
  <2>4. n + 1 \in 1..(n + 1) /\ \A k \in 1..n : k \in 1..(n + 1)
    BY <1>1
  <2>. QED BY <1>1, <2>1, <2>2, <2>3, <2>4
<1>3. w.song # NoSong => Marks(vs) = Marks(ws)
  BY <1>2
<1>4. w.song = NoSong => Marks(vs) = Marks(ws) \cup {w.slot}
  BY <1>2
<1>. QED BY <1>3, <1>4 DEF vs

\* A song, or a mark of the next slot, is written.
LEMMA InOrderAppend ==
  ASSUME NEW S, NEW ws \in Seq(Write), InOrder(S, ws), NEW w \in Write,
         w.song = NoSong => 0..(w.slot - 1) \subseteq S \cup Marks(ws)
  PROVE  InOrder(S, Append(ws, w))
<1>. DEFINE n == Len(ws)
            vs == Append(ws, w)
<1>1. /\ n \in Nat /\ DOMAIN ws = 1..n /\ DOMAIN vs = 1..(n + 1)
      /\ \A k \in 1..n : vs[k] = ws[k]
      /\ vs[n + 1] = w
  OBVIOUS
<1>. HIDE DEF n, vs
<1>2. ASSUME NEW k \in 1..(n + 1), vs[k].song = NoSong, NEW i \in 0..(vs[k].slot - 1), i \notin S
      PROVE  \E j \in 1..(k - 1) : vs[j].song = NoSong /\ vs[j].slot = i
  <2>1. CASE k \in 1..n
    <3>1. PICK j \in 1..(k - 1) : ws[j].song = NoSong /\ ws[j].slot = i
      BY <1>1, <1>2, <2>1 DEF InOrder
    <3>2. vs[j] = ws[j]
      BY <1>1, <2>1
    <3>. QED BY <3>1, <3>2
  <2>2. CASE k = n + 1
    <3>1. i \in Marks(ws)
      BY <1>1, <1>2, <2>2
    <3>2. PICK j \in 1..n : ws[j].song = NoSong /\ ws[j].slot = i
      BY <1>1, <3>1 DEF Marks
    <3>3. j \in 1..(k - 1) /\ vs[j] = ws[j]
      BY <1>1, <2>2
    <3>. QED BY <3>2, <3>3
  <2>. QED BY <1>1, <2>1, <2>2
<1>3. InOrder(S, vs)
  BY <1>1, <1>2 DEF InOrder
<1>. QED BY <1>3 DEF vs

\* The slots marked after the write w, when it was those of S before.
WithMark(S, w) == IF w.song = NoSong THEN S \cup {w.slot} ELSE S

\* The oldest write is applied.
LEMMA InOrderTail ==
  ASSUME NEW S, NEW ws \in Seq(Write), ws # << >>, InOrder(S, ws)
  PROVE  /\ InOrder(WithMark(S, Head(ws)), Tail(ws))
         /\ S \cup Marks(ws) = WithMark(S, Head(ws)) \cup Marks(Tail(ws))
         /\ Head(ws).song = NoSong => 0..(Head(ws).slot - 1) \subseteq S
<1>. DEFINE n == Len(ws)
            t == Tail(ws)
            w == Head(ws)
            T == WithMark(S, w)
<1>1. /\ n \in Nat /\ n > 0 /\ DOMAIN ws = 1..n /\ w = ws[1]
      /\ DOMAIN t = 1..(n - 1)
      /\ \A k \in 1..(n - 1) : t[k] = ws[k + 1]
  <2>1. t \in Seq(Write) /\ Len(t) = n - 1 /\ \A k \in 1..Len(t) : t[k] = ws[k + 1]
    BY HeadTailProperties
  <2>. QED BY <2>1
<1>. HIDE DEF n, t, w
<1>2. T = IF w.song = NoSong THEN S \cup {w.slot} ELSE S
  BY DEF WithMark
<1>. HIDE DEF T
<1>3. w.song = NoSong => 0..(w.slot - 1) \subseteq S
  BY <1>1 DEF InOrder
<1>4. ASSUME NEW k \in 1..(n - 1), t[k].song = NoSong, NEW i \in 0..(t[k].slot - 1), i \notin T
      PROVE  \E j \in 1..(k - 1) : t[j].song = NoSong /\ t[j].slot = i
  <2>1. PICK m \in 1..n : m = k + 1 /\ t[k] = ws[m]
    BY <1>1
  <2>2. i \notin S /\ (w.song = NoSong => i # w.slot)
    BY <1>2, <1>4
  <2>3. PICK l \in 1..(m - 1) : ws[l].song = NoSong /\ ws[l].slot = i
    BY <1>1, <1>4, <2>1, <2>2 DEF InOrder
  <2>4. l # 1
    BY <1>1, <2>2, <2>3
  <2>5. PICK j \in 1..(k - 1) : l = j + 1
    <3>1. l - 1 \in 1..(k - 1) /\ l = (l - 1) + 1
      BY <2>1, <2>4
    <3>. QED BY <3>1
  <2>6. t[j] = ws[l]
    BY <1>1, <2>5
  <2>. QED BY <2>3, <2>6
<1>5. InOrder(T, t)
  BY <1>1, <1>4 DEF InOrder
<1>6. \A x : x \in Marks(ws) <=> x \in Marks(t) \/ (w.song = NoSong /\ x = w.slot)
  <2>1. ASSUME NEW x PROVE x \in Marks(t) <=> \E k \in 1..(n - 1) : t[k].song = NoSong /\ t[k].slot = x
    BY <1>1 DEF Marks
  <2>2. ASSUME NEW x PROVE x \in Marks(ws) <=> \E k \in 1..n : ws[k].song = NoSong /\ ws[k].slot = x
    BY <1>1 DEF Marks
  <2>3. \A k \in 1..(n - 1) : k + 1 \in 1..n /\ t[k] = ws[k + 1]
    BY <1>1
  <2>4. \A k \in 1..n : k = 1 \/ \E j \in 1..(n - 1) : k = j + 1 /\ t[j] = ws[k]
    <3>. TAKE k \in 1..n
    <3>1. CASE k # 1
      <4>1. k - 1 \in 1..(n - 1) /\ k = (k - 1) + 1
        BY <1>1, <3>1
      <4>2. PICK j \in 1..(n - 1) : k = j + 1
        BY <4>1
      <4>. QED BY <1>1, <4>2
    <3>. QED BY <3>1
  <2>5. 1 \in 1..n
    BY <1>1
  <2>. SUFFICES ASSUME NEW x
                PROVE  x \in Marks(ws) <=> x \in Marks(t) \/ (w.song = NoSong /\ x = w.slot)
    OBVIOUS
  <2>6. ASSUME x \in Marks(ws) PROVE x \in Marks(t) \/ (w.song = NoSong /\ x = w.slot)
    BY <1>1, <2>1, <2>2, <2>4, <2>6
  <2>7. ASSUME x \in Marks(t) PROVE x \in Marks(ws)
    BY <2>1, <2>2, <2>3, <2>7
  <2>8. ASSUME w.song = NoSong, x = w.slot PROVE x \in Marks(ws)
    BY <1>1, <2>2, <2>5, <2>8
  <2>. QED BY <2>6, <2>7, <2>8
<1>7. S \cup Marks(ws) = T \cup Marks(t)
  BY <1>2, <1>6
<1>. QED BY <1>3, <1>5, <1>7 DEF t, w, T

\* The slots that are marked, with one write more.
LEMMA PlayedPut ==
  ASSUME NEW q, NEW w \in Write, w.song # NoSong => w.slot \notin DOMAIN q
  PROVE  PlayedSlots(Put(q, w)) = WithMark(PlayedSlots(q), w)
<1>1. /\ DOMAIN Put(q, w) = DOMAIN q \cup {w.slot}
      /\ \A i \in DOMAIN q \cup {w.slot} : Put(q, w)[i].played =
            IF i # w.slot THEN q[i].played ELSE w.song = NoSong
  BY DEF Put, Fresh
<1>2. \A i : i \in PlayedSlots(Put(q, w))
               <=> i \in PlayedSlots(q) \/ (w.song = NoSong /\ i = w.slot)
  BY <1>1 DEF PlayedSlots
<1>. QED BY <1>2 DEF WithMark

\* The host marks the song it has played, or a device writes a song.
LEMMA WriteInOrder ==
  ASSUME TypeOK, MarksInOrder, NEW d \in Devices, NEW w \in Write, SetValue(d, w),
         NEW n \in Nat, songsPlayed[Host] = n,
         IF w.song = NoSong
         THEN d = Host /\ w.slot = n /\ songsPlayed'[Host] = n + 1
         ELSE songsPlayed'[Host] = n
  PROVE  MarksInOrder'
<1>. USE PartyAssumption
<1>. DEFINE S == PlayedSlots(server)
<1>1. /\ outbox'[d] = Append(outbox[d], w) /\ server' = server
      /\ \A e \in Devices : e # d => outbox'[e] = outbox[e]
      /\ \A e \in Devices : outbox[e] \in Seq(Write)
  BY PartTypes DEF SetValue, TypeOK, DBTypeOK
<1>2. /\ \A e \in Devices \ {Host} : Marks(outbox[e]) = {}
      /\ IsInitialSegment(S) /\ InOrder(S, outbox[Host])
      /\ 0..(n - 1) \subseteq S \cup Marks(outbox[Host])
  BY DEF MarksInOrder
<1>3. PlayedSlots(server)' = S
  BY <1>1
<1>. HIDE DEF S
<1>4. /\ w.song # NoSong => Marks(outbox'[d]) = Marks(outbox[d])
      /\ w.song = NoSong => Marks(outbox'[d]) = Marks(outbox[d]) \cup {w.slot}
  BY <1>1, MarkedMore
<1>5. ASSUME NEW e \in Devices \ {Host} PROVE Marks(outbox'[e]) = {}
  BY <1>1, <1>2, <1>4
<1>6. InOrder(S, outbox'[Host])
  <2>1. CASE d # Host
    BY <1>1, <1>2, <2>1
  <2>2. CASE d = Host
    <3>1. w.song = NoSong => 0..(w.slot - 1) \subseteq S \cup Marks(outbox[Host])
      BY <1>2
    <3>2. outbox[Host] \in Seq(Write) /\ outbox'[Host] = Append(outbox[Host], w)
      BY <1>1, <2>2
    <3>. QED BY <1>2, <3>1, <3>2, InOrderAppend
  <2>. QED BY <2>1, <2>2
<1>7. 0..(songsPlayed'[Host] - 1) \subseteq S \cup Marks(outbox'[Host])
  <2>1. CASE w.song # NoSong
    BY <1>1, <1>2, <1>4, <2>1
  <2>2. CASE w.song = NoSong
    <3>1. 0..((n + 1) - 1) = 0..(n - 1) \cup {n}
      OBVIOUS
    <3>. QED BY <1>2, <1>4, <2>2, <3>1
  <2>. QED BY <2>1, <2>2
<1>. QED BY <1>2, <1>3, <1>5, <1>6, <1>7 DEF MarksInOrder

\* The server applies a write.
LEMMA SentInOrder ==
  ASSUME TypeOK, SongsAreNew, MarksInOrder, NEW d \in Devices, Transmit(d),
         songsPlayed'[Host] = songsPlayed[Host]
  PROVE  MarksInOrder'
<1>. USE PartyAssumption
<1>. DEFINE S == PlayedSlots(server)
            T == PlayedSlots(server)'
            ws == outbox[d]
            w == Head(ws)
<1>1. /\ ws # << >> /\ outbox'[d] = Tail(ws) /\ server' = Put(server, w)
      /\ \A e \in Devices : e # d => outbox'[e] = outbox[e]
      /\ \A e \in Devices : outbox[e] \in Seq(Write)
  BY PartTypes DEF Transmit, ServerApply, TypeOK, DBTypeOK
<1>2. /\ \A e \in Devices \ {Host} : Marks(outbox[e]) = {}
      /\ IsInitialSegment(S) /\ InOrder(S, outbox[Host])
      /\ 0..(songsPlayed[Host] - 1) \subseteq S \cup Marks(outbox[Host])
  BY DEF MarksInOrder
<1>3. w \in Write /\ (w.song # NoSong => w.slot \notin DOMAIN server)
  <2>1. AllNew(DOMAIN server, ws)
    BY DEF SongsAreNew
  <2>2. w = ws[1] /\ 1 \in DOMAIN ws /\ ws[1] \in Write
    BY <1>1
  <2>. QED BY <2>1, <2>2 DEF AllNew
<1>4. T = WithMark(S, w)
  <2>1. PlayedSlots(Put(server, w)) = WithMark(S, w)
    BY <1>3, PlayedPut
  <2>2. T = PlayedSlots(server')
    BY DEF PlayedSlots
  <2>. QED BY <1>1, <2>1, <2>2
<1>. HIDE DEF S, T
<1>5. CASE d = Host
  <2>1. /\ InOrder(T, Tail(ws)) /\ S \cup Marks(ws) = T \cup Marks(Tail(ws))
        /\ w.song = NoSong => 0..(w.slot - 1) \subseteq S
    <3>1. ws \in Seq(Write) /\ ws # << >> /\ InOrder(S, ws)
      BY <1>1, <1>2, <1>5
    <3>. HIDE DEF ws
    <3>. QED BY <1>4, <3>1, InOrderTail
  <2>2. IsInitialSegment(T)
    <3>. SUFFICES ASSUME NEW i \in T PROVE 0..i \subseteq T
      BY DEF IsInitialSegment
    <3>1. CASE i \in S
      BY <1>2, <1>4, <3>1 DEF IsInitialSegment, WithMark
    <3>2. CASE w.song = NoSong /\ i = w.slot
      <4>1. i \in Nat
        BY <1>3, <3>2 DEF Write
      <4>2. 0..i = 0..(i - 1) \cup {i}
        BY <4>1
      <4>. QED BY <1>4, <2>1, <3>2, <4>2 DEF WithMark
    <3>. QED BY <1>4, <3>1, <3>2 DEF WithMark
  <2>. QED BY <1>1, <1>2, <1>5, <2>1, <2>2 DEF MarksInOrder, T
<1>6. CASE d # Host
  <2>1. Marks(ws) = {}
    BY <1>2, <1>6
  <2>2. w.song # NoSong
    <3>1. 1 \in DOMAIN ws /\ w = ws[1]
      BY <1>1
    <3>. QED BY <2>1, <3>1 DEF Marks
  <2>3. Marks(Tail(ws)) = {}
    <3>1. Len(Tail(ws)) = Len(ws) - 1 /\ \A k \in 1..Len(Tail(ws)) : Tail(ws)[k] = ws[k + 1]
      <4>. HIDE DEF ws
      <4>. QED BY <1>1, HeadTailProperties
    <3>2. Len(ws) \in Nat /\ DOMAIN ws = 1..Len(ws) /\ DOMAIN Tail(ws) = 1..Len(Tail(ws))
      BY <1>1
    <3>3. \A k \in DOMAIN Tail(ws) : k + 1 \in DOMAIN ws /\ Tail(ws)[k] = ws[k + 1]
      <4>. DEFINE l == Len(ws)
                  t == Tail(ws)
                  l2 == Len(t)
      <4>. HIDE DEF ws, l, t, l2
      <4>. QED BY <3>1, <3>2 DEF l, t, l2
    <3>. QED BY <2>1, <3>3 DEF Marks
  <2>4. T = S
    BY <1>4, <2>2 DEF WithMark
  <2>. QED BY <1>1, <1>2, <1>6, <2>3, <2>4 DEF MarksInOrder, S, T
<1>. QED BY <1>5, <1>6

\* They are in order at first, and every step keeps them so.
LEMMA MarksInOrderInit == PartyInit => MarksInOrder
<1>. USE PartyAssumption
<1>. SUFFICES ASSUME PartyInit PROVE MarksInOrder
  OBVIOUS
<1>1. /\ server = EmptyQueue /\ songsPlayed[Host] = 0
      /\ \A d \in Devices : outbox[d] = << >>
  BY DEF PartyInit, Init, DBInit
<1>2. PlayedSlots(server) = {}
  BY <1>1 DEF PlayedSlots, EmptyQueue
<1>3. /\ Marks(<< >>) = {} /\ InOrder({}, << >>) /\ IsInitialSegment({})
      /\ 0..(0 - 1) = {}
  BY DEF Marks, InOrder, IsInitialSegment
<1>. QED BY <1>1, <1>2, <1>3 DEF MarksInOrder

LEMMA MarksInOrderStep ==
  ASSUME MaxFaults = 0, Inv, SongsAreNew, MarksInOrder,
         HostRests \/ QueueMoves \/ SongIsShown \/ SongIsPlayed
  PROVE  MarksInOrder'
<1>. USE PartyAssumption
<1>1. TypeOK /\ faults = 0 /\ songsPlayed[Host] \in Nat
  BY ShownTyped DEF Inv, DataInv, TypeOK
<1>2. ASSUME UNCHANGED <<server, outbox, songsPlayed[Host]>> PROVE MarksInOrder'
  BY <1>2 DEF MarksInOrder
<1>3. CASE HostRests
  <2>1. outbox' = outbox
    BY <1>1, <1>3 DEF HostRests, Restart
  <2>. QED BY <1>2, <1>3, <2>1 DEF HostRests, HostCounts
<1>4. CASE SongIsShown
  BY <1>2, <1>4 DEF SongIsShown, dbVars
<1>5. CASE QueueMoves
  <2>1. PICK d \in Devices : SharedMove(d)
    BY <1>5 DEF QueueMoves
  <2>2. songsPlayed'[Host] = songsPlayed[Host]
    BY <1>5 DEF QueueMoves, HostCounts
  <2>3. CASE SubscribeToUpdates(d) \/ RefuseDuplicate(d) \/ Receive(d)
    BY <1>2, <2>2, <2>3
       DEF SubscribeToUpdates, Observe, RefuseDuplicate, Receive, Deliver, dbVars
  <2>4. CASE StoreSong(d)
    <3>1. PICK add \in Add : SetValue(d, SongWrite(add))
      <4>1. adding[d] \in Seq(Add) /\ adding[d] # << >>
        BY <1>1, <2>4, PartTypes DEF StoreSong
      <4>2. Head(adding[d]) \in Add
        BY <4>1
      <4>. QED BY <2>4, <4>2 DEF StoreSong
    <3>2. SongWrite(add) \in Write /\ SongWrite(add).song # NoSong
      BY <3>1, TypesAssumption DEF Add, SongWrite, SongAt, Write, MaybeSongs
    <3>3. PICK w \in Write : w.song # NoSong /\ SetValue(d, w)
      BY <3>1, <3>2
    <3>4. PICK n \in Nat : songsPlayed[Host] = n
      BY <1>1
    <3>. QED BY <1>1, <2>2, <3>3, <3>4, WriteInOrder
  <2>5. CASE Transmit(d)
    BY <1>1, <2>2, <2>5, SentInOrder
  <2>6. CASE LoseConnection(d)
    BY <1>1, <2>6 DEF LoseConnection
  <2>. QED BY <2>1, <2>3, <2>4, <2>5, <2>6 DEF SharedMove
<1>6. CASE SongIsPlayed
  <2>1. PICK n \in Nat : songsPlayed[Host] = n
    BY <1>1
  <2>2. songsPlayed'[Host] = n + 1 /\ SetValue(Host, PlayedAt(n))
    BY <1>6, <2>1 DEF SongIsPlayed, DidFinish
  <2>3. PlayedAt(n) \in Write /\ PlayedAt(n).song = NoSong /\ PlayedAt(n).slot = n
    BY <2>1 DEF PlayedAt, Write, MaybeSongs
  <2>4. PICK w \in Write : w.song = NoSong /\ w.slot = n /\ SetValue(Host, w)
    BY <2>2, <2>3
  <2>. QED BY <1>1, <2>1, <2>2, <2>4, WriteInOrder
<1>. QED BY <1>3, <1>4, <1>5, <1>6

\* So the songs marked are a prefix, and none that the host still shows.
LEMMA PrefixFromInv == Inv /\ MarksInOrder => PlayedIsPrefix
<1>. SUFFICES ASSUME Inv, MarksInOrder, NEW i \in DOMAIN server, server[i].played
              PROVE  /\ i < songsPlayed[Host]
                     /\ \A j \in 0..i : j \in DOMAIN server /\ server[j].played
  BY DEF PlayedIsPrefix
<1>1. i < songsPlayed[Host]
  BY DEF Inv, MarksAreOld, MarksUpTo, PlayedBefore
<1>2. 0..i \subseteq PlayedSlots(server)
  BY DEF MarksInOrder, IsInitialSegment, PlayedSlots
<1>. QED BY <1>1, <1>2 DEF PlayedSlots

-----------------------------------------------------------------------------
(***************************************************************************)
(* The theorems.                                                           *)
(***************************************************************************)

\* With one adder, what the host shows and is to handle is the queue from the song
\* that plays on, however long messages take, over lost connections and restarts of
\* others: so the slot it marks when a song has finished is that song's.
THEOREM ShownIsQueueHolds ==
  ASSUME Undisturbed, SoleAdder
  PROVE  PartySpec => []ShownIsQueue
<1>1. PartyInit => ShownMatches
  BY PartyAssumption DEF PartyInit, Init, DBInit, ShownMatches, Listening
<1>2. Inv /\ Inv' /\ SoleAdderInv /\ ShownMatches /\ [Next]_vars /\ [PartyNext]_partyVars
        => ShownMatches'
  BY HostSteps, ShownMatchesStep
<1>3. Inv /\ ShownMatches => ShownIsQueue
  BY ShownFromInv
<1>4. PartySpec => Spec
  BY PartyUsesDatastore
<1>5. Spec => []SoleAdderInv
  BY SoleAdderInvHolds
<1>6. PartySpec => [](Inv /\ PartyInv)
  BY PartyInvHolds
<1>. QED BY <1>1, <1>2, <1>3, <1>4, <1>5, <1>6, PTL DEF PartySpec, Spec

\* While no connection is lost besides, the marks reach the server in the order of
\* the slots.
THEOREM MarksInOrderHolds ==
  ASSUME Undisturbed, SoleAdder, MaxFaults = 0
  PROVE  PartySpec => []MarksInOrder
<1>1. PartyInit => MarksInOrder
  BY MarksInOrderInit
<1>2. Inv /\ SongsAreNew /\ MarksInOrder /\ [PartyNext]_partyVars => MarksInOrder'
  BY HostSteps, MarksInOrderStep
<1>3. PartySpec => Spec
  BY PartyUsesDatastore
<1>4. Spec => []SongsAreNew
  BY SongsAreNewHolds
<1>5. PartySpec => [](Inv /\ PartyInv)
  BY PartyInvHolds
<1>. QED BY <1>1, <1>2, <1>3, <1>4, <1>5, PTL DEF PartySpec

\* So the songs marked at the server are the first of the queue, and none of them is
\* one that the host still shows.
THEOREM PlayedIsPrefixHolds ==
  ASSUME Undisturbed, SoleAdder, MaxFaults = 0
  PROVE  PartySpec => []PlayedIsPrefix
<1>1. Inv /\ MarksInOrder => PlayedIsPrefix
  BY PrefixFromInv
<1>2. PartySpec => []MarksInOrder
  BY MarksInOrderHolds
<1>3. PartySpec => [](Inv /\ PartyInv)
  BY PartyInvHolds
<1>. QED BY <1>1, <1>2, <1>3, PTL

\* What is proved of the Datastore with one adder holds of the party: the queue has no
\* holes, no song stands next to itself, and a song at the server stays in its slot.
THEOREM PartyQueueHolds ==
  ASSUME Undisturbed, SoleAdder
  PROVE  PartySpec => []NoHoles /\ []NoAdjacentDuplicates /\ AddedSongStays
BY PartyUsesDatastore, NoHolesHolds, NoAdjacentDuplicatesHolds, AddedSongStaysHolds, PTL

=============================================================================

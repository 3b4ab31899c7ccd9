------------------------- MODULE DatastoreSole_proofs -------------------------
(***************************************************************************)
(* Proofs about a party to which one device adds all songs, one at a time  *)
(* (SoleAdder): the invariant SoleAdderInv, and what follows from it: no   *)
(* song is next to itself, an added song stays in its slot, and, while no  *)
(* connection is lost, a song under way is for a new slot.                 *)
(***************************************************************************)
EXTENDS Datastore_proofs

-----------------------------------------------------------------------------
(***************************************************************************)
(* The songs in writes and in queues.                                      *)
(***************************************************************************)

\* The song a write places, if it places one.
Gives(w) == {v \in {w} : v.song # NoSong}

LEMMA SongsEmpty ==
  /\ SongWrites(<< >>) = {}
  /\ EntrySongs(EmptyQueue) = {}
<1>1. DOMAIN << >> = {}
  OBVIOUS
<1>. QED BY <1>1 DEF SongWrites, EntrySongs, EmptyQueue

\* One write more.
LEMMA SongsAppend ==
  ASSUME NEW ws \in Seq(Write), NEW w \in Write
  PROVE  SongWrites(Append(ws, w)) = SongWrites(ws) \cup Gives(w)
<1>. DEFINE n == Len(ws)
            vs == Append(ws, w)
<1>1. /\ n \in Nat /\ DOMAIN ws = 1..n /\ DOMAIN vs = 1..(n + 1)
      /\ \A k \in 1..n : vs[k] = ws[k]
      /\ vs[n + 1] = w
  OBVIOUS
<1>. HIDE DEF n, vs
<1>2. ASSUME NEW p PROVE p \in SongWrites(vs) <=> p \in SongWrites(ws) \cup Gives(w)
  <2>1. p \in SongWrites(vs) <=> \E k \in 1..(n + 1) : vs[k].song # NoSong /\ p = vs[k]
    BY <1>1 DEF SongWrites
  <2>2. p \in SongWrites(ws) <=> \E k \in 1..n : ws[k].song # NoSong /\ p = ws[k]
    BY <1>1 DEF SongWrites
  <2>3. p \in Gives(w) <=> w.song # NoSong /\ p = w
    BY DEF Gives
  <2>4. 1..(n + 1) = 1..n \cup {n + 1}
    BY <1>1
  <2>. QED BY <1>1, <2>1, <2>2, <2>3, <2>4
<1>3. SongWrites(vs) = SongWrites(ws) \cup Gives(w)
  BY <1>2
<1>. QED BY <1>3 DEF vs

\* Writes after other writes.
LEMMA SongsConcat ==
  ASSUME NEW us \in Seq(Write), NEW ws \in Seq(Write)
  PROVE  SongWrites(us \o ws) = SongWrites(us) \cup SongWrites(ws)
<1>. DEFINE m == Len(us)
            n == Len(ws)
            vs == us \o ws
<1>1. /\ m \in Nat /\ n \in Nat
      /\ DOMAIN us = 1..m /\ DOMAIN ws = 1..n
  OBVIOUS
<1>2. /\ DOMAIN vs = 1..(m + n)
      /\ \A k \in 1..m : vs[k] = us[k]
      /\ \A k \in 1..n : vs[m + k] = ws[k]
  BY ConcatProperties
<1>. HIDE DEF m, n, vs
<1>3. ASSUME NEW p PROVE p \in SongWrites(vs) <=> p \in SongWrites(us) \cup SongWrites(ws)
  <2>1. p \in SongWrites(vs) <=> \E k \in 1..(m + n) : vs[k].song # NoSong /\ p = vs[k]
    BY <1>2 DEF SongWrites
  <2>2. p \in SongWrites(us) <=> \E k \in 1..m : us[k].song # NoSong /\ p = us[k]
    BY <1>1 DEF SongWrites
  <2>3. p \in SongWrites(ws) <=> \E k \in 1..n : ws[k].song # NoSong /\ p = ws[k]
    BY <1>1 DEF SongWrites
  <2>4. /\ \A k \in 1..m : k \in 1..(m + n)
        /\ \A k \in 1..n : m + k \in 1..(m + n)
        /\ \A k \in 1..(m + n) : k \in 1..m \/ \E j \in 1..n : k = m + j
    <3>1. \A k \in 1..(m + n) : k \in 1..m \/ (k - m \in 1..n /\ k = m + (k - m))
      BY <1>1
    <3>. QED BY <1>1, <3>1
  <2>5. ASSUME p \in SongWrites(vs) PROVE p \in SongWrites(us) \cup SongWrites(ws)
    BY <1>2, <2>1, <2>2, <2>3, <2>4, <2>5
  <2>6. ASSUME p \in SongWrites(us) PROVE p \in SongWrites(vs)
    BY <1>2, <2>1, <2>2, <2>4, <2>6
  <2>7. ASSUME p \in SongWrites(ws) PROVE p \in SongWrites(vs)
    BY <1>2, <2>1, <2>3, <2>4, <2>7
  <2>. QED BY <2>5, <2>6, <2>7
<1>4. SongWrites(vs) = SongWrites(us) \cup SongWrites(ws)
  BY <1>3
<1>. QED BY <1>4 DEF vs

\* The oldest write and the others.
LEMMA SongsHead ==
  ASSUME NEW ws \in Seq(Write), ws # << >>
  PROVE  SongWrites(ws) = Gives(Head(ws)) \cup SongWrites(Tail(ws))
<1>1. /\ Head(ws) \in Write /\ Tail(ws) \in Seq(Write)
      /\ << Head(ws) >> \in Seq(Write)
      /\ ws = << Head(ws) >> \o Tail(ws)
  BY HeadThenTail
<1>2. ASSUME NEW w \in Write PROVE SongWrites(<< w >>) = Gives(w)
  <2>1. << >> \in Seq(Write) /\ Append(<< >>, w) = << w >>
    OBVIOUS
  <2>2. SongWrites(Append(<< >>, w)) = SongWrites(<< >>) \cup Gives(w)
    BY <2>1, SongsAppend
  <2>. QED BY <2>1, <2>2, SongsEmpty
<1>3. SongWrites(<< Head(ws) >> \o Tail(ws))
        = SongWrites(<< Head(ws) >>) \cup SongWrites(Tail(ws))
  BY <1>1, SongsConcat
<1>. QED BY <1>1, <1>2, <1>3

\* The songs of writes are writes to their slots.
LEMMA SongsHaveSlots ==
  ASSUME NEW ws \in Seq(Write)
  PROVE  /\ SongWrites(ws) \subseteq Write
         /\ \A p \in SongWrites(ws) : p.slot \in Slots(ws) /\ p.song # NoSong
<1>1. DOMAIN ws = 1..Len(ws) /\ \A k \in 1..Len(ws) : ws[k] \in Write
  OBVIOUS
<1>. QED BY <1>1 DEF SongWrites, Slots

\* So are the songs of a queue.
LEMMA EntriesHaveSlots ==
  ASSUME NEW q, IsQueue(q)
  PROVE  /\ EntrySongs(q) \subseteq Write
         /\ \A p \in EntrySongs(q) :
              p.slot \in DOMAIN q /\ p.song = q[p.slot].song /\ p.song # NoSong
BY DEF IsQueue, EntrySongs, SongAt, Entry, Write

\* A write to a queue adds no song but its own.
LEMMA EntriesPut ==
  ASSUME NEW q, NEW w \in Write
  PROVE  EntrySongs(Put(q, w)) \subseteq EntrySongs(q) \cup Gives(w)
<1>. SUFFICES ASSUME NEW i \in DOMAIN q \cup {w.slot}, Put(q, w)[i].song # NoSong
              PROVE  SongAt(i, Put(q, w)[i].song) \in EntrySongs(q) \cup Gives(w)
  BY DEF EntrySongs, Put
<1>1. Put(q, w)[i] =
        IF i # w.slot THEN q[i]
        ELSE IF w.song # NoSong THEN Fresh(w.song)
        ELSE [song |-> IF i \in DOMAIN q THEN q[i].song ELSE NoSong, played |-> TRUE]
  BY Zenon DEF Put
<1>2. CASE i # w.slot
  <2>1. Put(q, w)[i] = q[i] /\ i \in DOMAIN q
    BY <1>1, <1>2
  <2>. QED BY <2>1 DEF EntrySongs
<1>3. CASE i = w.slot /\ w.song # NoSong
  <2>1. Put(q, w)[i].song = w.song
    BY <1>1, <1>3 DEF Fresh
  <2>2. SongAt(i, w.song) = w
    BY <1>3 DEF SongAt, Write
  <2>. QED BY <1>3, <2>1, <2>2 DEF Gives
<1>4. CASE i = w.slot /\ w.song = NoSong
  <2>1. Put(q, w)[i].song = IF i \in DOMAIN q THEN q[i].song ELSE NoSong
    BY <1>1, <1>4
  <2>. QED BY <2>1 DEF EntrySongs
<1>. QED BY <1>2, <1>3, <1>4

\* A queue seen under writes shows no songs but its own and theirs.
LEMMA EntriesOverlay ==
  ASSUME NEW q, NEW ws \in Seq(Write)
  PROVE  EntrySongs(Overlay(q, ws)) \subseteq EntrySongs(q) \cup SongWrites(ws)
<1>. SUFFICES ASSUME NEW i \in DOMAIN q \cup Slots(ws), Overlay(q, ws)[i].song # NoSong
              PROVE  SongAt(i, Overlay(q, ws)[i].song) \in EntrySongs(q) \cup SongWrites(ws)
  BY DEF EntrySongs, Overlay
<1>. DEFINE T == {k \in DOMAIN ws : ws[k].slot = i /\ ws[k].song # NoSong}
            last == LastSongWrite(ws, i)
<1>1. DOMAIN ws = 1..Len(ws) /\ Len(ws) \in Nat
  OBVIOUS
<1>2. last \in {0} \cup T
  <2>1. {0} \cup T \subseteq Nat /\ \A y \in {0} \cup T : y <= Len(ws)
    BY <1>1
  <2>2. last = Max({0} \cup T)
    BY DEF LastSongWrite
  <2>. HIDE DEF T, last
  <2>. QED BY <1>1, <2>1, <2>2, MaxOfBounded
<1>3. Overlay(q, ws)[i].song
        = (IF last > 0 THEN Fresh(ws[last].song)
           ELSE IF i \in DOMAIN q THEN q[i] ELSE Fresh(NoSong)).song
  BY Zenon DEF Overlay
<1>. HIDE DEF last
<1>4. CASE last \in T
  <2>1. last > 0 /\ last \in DOMAIN ws /\ ws[last].slot = i /\ ws[last].song # NoSong
    BY <1>1, <1>4
  <2>2. ws[last] \in Write
    BY <1>1, <2>1
  <2>3. Overlay(q, ws)[i].song = ws[last].song
    BY <1>3, <2>1 DEF Fresh
  <2>4. SongAt(i, ws[last].song) = ws[last]
    BY <2>1, <2>2 DEF SongAt, Write
  <2>. QED BY <2>1, <2>3, <2>4 DEF SongWrites
<1>5. CASE last = 0
  <2>1. ~(last > 0)
    BY <1>5
  <2>2. i \in DOMAIN q /\ Overlay(q, ws)[i].song = q[i].song
    BY <1>3, <2>1 DEF Fresh
  <2>. QED BY <2>2 DEF EntrySongs
<1>. HIDE DEF T
<1>. QED BY <1>2, <1>4, <1>5

\* The last song of a queue that is not empty is one of its songs.
LEMMA LastIsEntry ==
  ASSUME NEW q, IsQueue(q), IsSegment(DOMAIN q), AllSongs(q), ArrayCount(q) > 0
  PROVE  SongAt(ArrayCount(q) - 1, LastURL(q)) \in EntrySongs(q)
<1>1. ArrayCount(q) \in Nat /\ DOMAIN q = 0..(ArrayCount(q) - 1)
  BY CountOfSegment
<1>2. IsArray(q) /\ ArrayCount(q) = Max(DOMAIN q) + 1
  BY DEF ArrayCount
<1>3. Max(DOMAIN q) \in DOMAIN q
  <2>1. DOMAIN q # {} /\ DOMAIN q \subseteq Nat
    BY <1>2 DEF IsArray, IsQueue
  <2>2. \A y \in DOMAIN q : y <= ArrayCount(q)
    BY <1>1
  <2>. QED BY <1>1, <2>1, <2>2, MaxOfBounded
<1>4. Max(DOMAIN q) \in Nat /\ Max(DOMAIN q) = ArrayCount(q) - 1
  <2>1. Max(DOMAIN q) \in Nat
    BY <1>3 DEF IsQueue
  <2>. QED BY <1>2, <2>1
<1>5. ~HasHole(q)
  BY <1>1, <1>4 DEF HasHole
<1>6. LastURL(q) = q[Max(DOMAIN q)].song
  BY <1>2, <1>5 DEF LastURL
<1>. QED BY <1>3, <1>4, <1>6 DEF AllSongs, EntrySongs

-----------------------------------------------------------------------------
(***************************************************************************)
(* The songs placed.                                                       *)
(***************************************************************************)

\* Where a placed song is.
LEMMA PlacedCases ==
  ASSUME TypeOK, NEW p
  PROVE  p \in Placed <=>
           \/ p \in EntrySongs(server)
           \/ \E d \in Devices :
                \/ p \in SongWrites(outbox[d]) \/ p \in SongWrites(unacked[d])
                \/ Listening(d) /\ p \in EntrySongs(cache[d])
                \/ Listening(d) /\ p \in SongWrites(Writes(inbox[d]))
BY DEF Placed, PlacedBy, SongsHeard

\* The parts of the database with their types.
LEMMA PartTypes ==
  ASSUME TypeOK
  PROVE  /\ IsQueue(server)
         /\ \A d \in Devices :
              /\ IsQueue(cache[d]) /\ adding[d] \in Seq(Add)
              /\ outbox[d] \in Seq(Write) /\ unacked[d] \in Seq(Write)
              /\ inbox[d] \in Seq(Message) /\ Writes(inbox[d]) \in Seq(Write)
BY WritesSeq DEF TypeOK, DBTypeOK

\* A placed song is a write of a song.
LEMMA PlacedType ==
  ASSUME TypeOK
  PROVE  Placed \subseteq Write /\ \A p \in Placed : p.song # NoSong
<1>. SUFFICES ASSUME NEW p \in Placed PROVE p \in Write /\ p.song # NoSong
  OBVIOUS
<1>1. CASE p \in EntrySongs(server)
  BY <1>1, PartTypes, EntriesHaveSlots
<1>2. ASSUME NEW d \in Devices,
             \/ p \in SongWrites(outbox[d]) \/ p \in SongWrites(unacked[d])
             \/ p \in EntrySongs(cache[d]) \/ p \in SongWrites(Writes(inbox[d]))
      PROVE  p \in Write /\ p.song # NoSong
  BY <1>2, PartTypes, EntriesHaveSlots, SongsHaveSlots
<1>. QED BY <1>1, <1>2, PlacedCases

\* The adder, if there is one, sees all slots that have been given a song.
LEMMA PlacedIsSeen ==
  ASSUME TypeOK, NoHolesInv, CastsInv, OneAdder, OthersOnlyMark, AdderSeesAll,
         NEW a \in Adders, NEW p \in Placed
  PROVE  p.slot \in Seen(a)
<1>1. DOMAIN server \subseteq Seen(a)
  BY DEF AdderSeesAll
<1>2. CASE p \in EntrySongs(server)
  BY <1>1, <1>2, PartTypes, EntriesHaveSlots
<1>3. ASSUME NEW d \in Devices, p \in SongWrites(outbox[d])
      PROVE  p.slot \in Seen(a)
  <2>1. d = a
    BY <1>3 DEF OthersOnlyMark, OneAdder
  <2>2. p.slot \in Slots(outbox[a])
    BY <1>3, <2>1, PartTypes, SongsHaveSlots
  <2>. QED BY <2>2 DEF Seen
<1>4. ASSUME NEW d \in Devices, p \in SongWrites(unacked[d])
      PROVE  p.slot \in Seen(a)
  <2>1. p.slot \in Slots(unacked[d])
    BY <1>4, PartTypes, SongsHaveSlots
  <2>2. Slots(unacked[d]) \subseteq DOMAIN server
    BY DEF NoHolesInv, WritesFillUp
  <2>. QED BY <1>1, <2>1, <2>2
<1>5. ASSUME NEW d \in Devices, Listening(d),
             p \in EntrySongs(cache[d]) \/ p \in SongWrites(Writes(inbox[d]))
      PROVE  p.slot \in Seen(a)
  <2>1. DOMAIN server = DOMAIN cache[d] \cup Slots(Writes(inbox[d]))
    BY <1>5 DEF CastsInv, SongsCome
  <2>2. p.slot \in DOMAIN cache[d] \cup Slots(Writes(inbox[d]))
    BY <1>5, PartTypes, EntriesHaveSlots, SongsHaveSlots
  <2>. QED BY <1>1, <2>1, <2>2
<1>. QED BY <1>2, <1>3, <1>4, <1>5, PlacedCases

\* What addSong reads is songs that have been placed.
LEMMA ReadIsPlaced ==
  ASSUME TypeOK, NEW d \in Devices
  PROVE  EntrySongs(ReadQueue(d)) \subseteq Placed
<1>1. /\ Pending(d) \in Seq(Write)
      /\ SongWrites(Pending(d)) = SongWrites(unacked[d]) \cup SongWrites(outbox[d])
  BY PartTypes, SongsConcat, ConcatProperties DEF Pending
<1>2. CASE Listening(d)
  <2>1. EntrySongs(ReadQueue(d)) \subseteq EntrySongs(cache[d]) \cup SongWrites(Pending(d))
    BY <1>1, <1>2, EntriesOverlay DEF ReadQueue, View
  <2>. QED BY <1>1, <1>2, <2>1, PlacedCases
<1>3. CASE ~Listening(d)
  <2>1. EntrySongs(ReadQueue(d)) \subseteq EntrySongs(server) \cup SongWrites(Pending(d))
    BY <1>1, <1>3, EntriesOverlay DEF ReadQueue
  <2>. QED BY <1>1, <2>1, PlacedCases
<1>. QED BY <1>2, <1>3

\* The last song addSong reads has been placed at the end of the queue.
LEMMA LastIsPlaced ==
  ASSUME TypeOK, NoHolesInv, CastsInv, NEW d \in Devices, ArrayCount(ReadQueue(d)) > 0
  PROVE  SongAt(ArrayCount(ReadQueue(d)) - 1, LastURL(ReadQueue(d))) \in Placed
<1>1. IsQueue(ReadQueue(d)) /\ IsSegment(DOMAIN ReadQueue(d)) /\ AllSongs(ReadQueue(d))
  BY ReadSlots, SeenIsSegment, ReadSongs
<1>. QED BY <1>1, LastIsEntry, ReadIsPlaced

\* A slot that is used or written to has been given a song.
LEMMA UsedIsPlaced ==
  ASSUME TypeOK, CastsInv, NEW d \in Devices,
         NEW i \in DOMAIN server \cup Slots(outbox[d])
  PROVE  \E p \in Placed : p.slot = i
<1>1. AllSongs(server) /\ MarksFollowSongs(DOMAIN server, outbox[d])
  BY DEF CastsInv, SongsSent
<1>2. CASE i \in DOMAIN server
  <2>1. SongAt(i, server[i].song) \in EntrySongs(server)
    BY <1>1, <1>2 DEF AllSongs, EntrySongs
  <2>. QED BY <2>1 DEF Placed, SongAt
<1>3. CASE \E j \in DOMAIN outbox[d] : outbox[d][j].slot = i /\ outbox[d][j].song # NoSong
  <2>1. PICK j \in DOMAIN outbox[d] : outbox[d][j].slot = i /\ outbox[d][j].song # NoSong
    BY <1>3
  <2>2. outbox[d][j] \in SongWrites(outbox[d])
    BY <2>1 DEF SongWrites
  <2>. QED BY <2>1, <2>2, PlacedCases
<1>4. outbox[d] \in Seq(Write)
  BY PartTypes
<1>. QED BY <1>1, <1>2, <1>3, <1>4, MarkedSlot

-----------------------------------------------------------------------------
(***************************************************************************)
(* What each action does to the songs placed.  Only StoreSong places one.  *)
(***************************************************************************)

\* When no song is placed and no add starts, what is known of them stays.
LEMMA NothingPlaced ==
  ASSUME OneSongPerSlot, NeighboursDiffer, AddsAreFresh, Placed' \subseteq Placed,
         \A d \in Devices : adding'[d] = adding[d] \/ adding'[d] = << >>
  PROVE  OneSongPerSlot' /\ NeighboursDiffer' /\ AddsAreFresh'
<1>1. OneSongPerSlot' /\ NeighboursDiffer'
  BY DEF OneSongPerSlot, NeighboursDiffer
<1>2. ASSUME NEW d \in Devices
      PROVE  /\ Len(adding'[d]) <= 1
             /\ \A k \in DOMAIN adding'[d] : \A p \in Placed' :
                   /\ p.slot < adding'[d][k].size
                   /\ p.slot = adding'[d][k].size - 1 => p.song = adding'[d][k].last
  <2>1. CASE adding'[d] = adding[d]
    <3>1. /\ Len(adding[d]) <= 1
          /\ \A k \in DOMAIN adding[d] : \A p \in Placed :
                /\ p.slot < adding[d][k].size
                /\ p.slot = adding[d][k].size - 1 => p.song = adding[d][k].last
      BY DEF AddsAreFresh
    <3>. QED BY <2>1, <3>1
  <2>2. CASE adding'[d] = << >>
    <3>1. Len(<< >>) <= 1 /\ DOMAIN << >> = {}
      OBVIOUS
    <3>. QED BY <2>2, <3>1
  <2>. QED BY <2>1, <2>2
<1>. QED BY <1>1, <1>2 DEF AddsAreFresh

\* The callback of addSong takes the one add that waits.
LEMMA OneAddTaken ==
  ASSUME TypeOK, AddsAreFresh, NEW d \in Devices, adding[d] # << >>
  PROVE  Tail(adding[d]) = << >> /\ Head(adding[d]) = adding[d][1] /\ 1 \in DOMAIN adding[d]
<1>1. adding[d] \in Seq(Add) /\ Len(adding[d]) <= 1
  BY PartTypes DEF AddsAreFresh
<1>. QED BY <1>1

\* A device writes: the song of the write is placed, if it has one.
LEMMA SetValuePlaced ==
  ASSUME TypeOK, NEW d \in Devices, NEW w \in Write, SetValue(d, w)
  PROVE  Placed' \subseteq Placed \cup Gives(w) /\ Placed \subseteq Placed'
<1>1. /\ outbox' = [outbox EXCEPT ![d] = Append(outbox[d], w)]
      /\ server' = server /\ cache' = cache /\ inbox' = inbox
      /\ unacked' = unacked /\ observers' = observers
  BY DEF SetValue
<1>2. \A e \in Devices : /\ SongWrites(outbox'[e]) \subseteq SongWrites(outbox[e]) \cup Gives(w)
                          /\ SongWrites(outbox[e]) \subseteq SongWrites(outbox'[e])
  <2>1. SongWrites(Append(outbox[d], w)) = SongWrites(outbox[d]) \cup Gives(w)
    BY PartTypes, SongsAppend
  <2>2. /\ outbox'[d] = Append(outbox[d], w)
        /\ \A e \in Devices : e # d => outbox'[e] = outbox[e]
    BY <1>1 DEF TypeOK, DBTypeOK
  <2>. QED BY <2>1, <2>2
<1>. QED BY <1>1, <1>2 DEF Placed, PlacedBy, SongsHeard, Listening

\* ... and the others still only mark.
LEMMA SetValueOthers ==
  ASSUME TypeOK, OthersOnlyMark, NEW d \in Devices, NEW w \in Write, SetValue(d, w),
         d \in Adders \/ w.song = NoSong, NEW e \in Devices \ Adders
  PROVE  SongWrites(outbox'[e]) = {} /\ SongWrites(unacked'[e]) = {}
<1>1. /\ outbox' = [outbox EXCEPT ![d] = Append(outbox[d], w)] /\ unacked' = unacked
  BY DEF SetValue
<1>2. SongWrites(Append(outbox[d], w)) = SongWrites(outbox[d]) \cup Gives(w)
  BY PartTypes, SongsAppend
<1>3. /\ outbox'[d] = Append(outbox[d], w)
      /\ e # d => outbox'[e] = outbox[e]
  BY <1>1 DEF TypeOK, DBTypeOK
<1>4. SongWrites(outbox[e]) = {} /\ SongWrites(unacked[e]) = {}
  BY DEF OthersOnlyMark
<1>5. w.song = NoSong => Gives(w) = {}
  BY DEF Gives
<1>. QED BY <1>1, <1>2, <1>3, <1>4, <1>5

\* addSong reads all songs placed, and the last of them.
LEMMA AddSongSole ==
  ASSUME TypeOK, NoHolesInv, CastsInv, OneAdder, SoleAdderInv,
         NEW d \in Devices, NEW s \in Songs, AddSong(d, s), OneRead'
  PROVE  SoleAdderInv' /\ Placed' \subseteq Placed
<1>. DEFINE n == ArrayCount(ReadQueue(d))
            add == [song |-> s, size |-> n, last |-> LastURL(ReadQueue(d))]
<1>1. /\ adding' = [adding EXCEPT ![d] = Append(adding[d], add)]
      /\ d \in Adders
      /\ UNCHANGED dbVars
  BY DEF AddSong
<1>2. /\ adding[d] = << >>
      /\ \A e \in Devices : adding[e] \in Seq(Add)
  <2>1. \A e \in Devices : adding[e] \in Seq(Add)
    BY PartTypes
  <2>. HIDE DEF add
  <2>2. adding'[d] = Append(adding[d], add)
    BY <1>1 DEF TypeOK
  <2>3. Len(Append(adding[d], add)) = Len(adding[d]) + 1
    BY <2>1
  <2>4. Len(adding'[d]) <= 1
    BY DEF OneRead
  <2>. QED BY <2>1, <2>2, <2>3, <2>4
<1>3. Append(<< >>, add) = << add >>
  OBVIOUS
<1>4. /\ adding'[d] = << add >>
      /\ \A e \in Devices : e # d => adding'[e] = adding[e]
  <2>. HIDE DEF add
  <2>. QED BY <1>1, <1>2, <1>3 DEF TypeOK
<1>5. \A p \in Placed : p.slot < n /\ (p.slot = n - 1 => p.song = add.last)
  <2>. SUFFICES ASSUME NEW p \in Placed
                PROVE  p.slot < n /\ (p.slot = n - 1 => p.song = add.last)
    OBVIOUS
  <2>1. p.slot \in Seen(d)
    BY <1>1, PlacedIsSeen DEF SoleAdderInv
  <2>2. n \in Nat /\ p.slot \in 0..(n - 1)
    BY <2>1, ReadCount
  <2>3. SongAt(n - 1, LastURL(ReadQueue(d))) \in Placed
    <3>1. n > 0
      <4>. HIDE DEF n
      <4>. QED BY <2>2
    <3>. QED BY <3>1, LastIsPlaced
  <2>4. p.slot = n - 1 => p.song = LastURL(ReadQueue(d))
    BY <2>3 DEF SoleAdderInv, OneSongPerSlot, SongAt
  <2>. HIDE DEF n
  <2>. QED BY <2>2, <2>4
<1>6. Placed' = Placed
  BY <1>1 DEF Placed, PlacedBy, SongsHeard, Listening, dbVars
<1>7. AddsAreFresh'
  <2>. SUFFICES ASSUME NEW e \in Devices
                PROVE  /\ Len(adding'[e]) <= 1
                       /\ \A k \in DOMAIN adding'[e] : \A p \in Placed :
                            /\ p.slot < adding'[e][k].size
                            /\ p.slot = adding'[e][k].size - 1 => p.song = adding'[e][k].last
    BY <1>6 DEF AddsAreFresh
  <2>1. CASE e = d
    <3>1. Len(<< add >>) = 1 /\ DOMAIN << add >> = {1} /\ << add >>[1] = add /\ add.size = n
      OBVIOUS
    <3>. HIDE DEF n, add
    <3>2. Len(adding'[e]) = 1 /\ DOMAIN adding'[e] = {1} /\ adding'[e][1] = add
      BY <1>4, <2>1, <3>1
    <3>3. ASSUME NEW k \in DOMAIN adding'[e], NEW p \in Placed
          PROVE  /\ p.slot < adding'[e][k].size
                 /\ p.slot = adding'[e][k].size - 1 => p.song = adding'[e][k].last
      <4>1. adding'[e][k] = add
        BY <3>2
      <4>. QED BY <1>5, <3>1, <4>1
    <3>. QED BY <3>2, <3>3
  <2>2. CASE e # d
    BY <1>4, <2>2 DEF SoleAdderInv, AddsAreFresh
  <2>. QED BY <2>1, <2>2
<1>8. OneSongPerSlot' /\ NeighboursDiffer'
  BY <1>6 DEF SoleAdderInv, OneSongPerSlot, NeighboursDiffer
<1>9. OthersOnlyMark' /\ AdderSeesAll'
  BY <1>1, <1>4 DEF SoleAdderInv, OthersOnlyMark, AdderSeesAll, Seen, Known, Listening, dbVars
<1>. QED BY <1>6, <1>7, <1>8, <1>9 DEF SoleAdderInv

\* The callback of addSong refuses a duplicate.
LEMMA RefuseDuplicateSole ==
  ASSUME TypeOK, SoleAdderInv, NEW d \in Devices, RefuseDuplicate(d)
  PROVE  SoleAdderInv' /\ Placed' \subseteq Placed
<1>1. /\ adding' = [adding EXCEPT ![d] = Tail(adding[d])] /\ adding[d] # << >>
      /\ UNCHANGED dbVars
  BY DEF RefuseDuplicate
<1>2. Tail(adding[d]) = << >>
  BY <1>1, OneAddTaken DEF SoleAdderInv
<1>3. adding'[d] = << >> /\ \A e \in Devices : e # d => adding'[e] = adding[e]
  BY <1>1, <1>2 DEF TypeOK
<1>4. Placed' = Placed
  BY <1>1 DEF Placed, PlacedBy, SongsHeard, Listening, dbVars
<1>5. OneSongPerSlot' /\ NeighboursDiffer' /\ AddsAreFresh'
  BY <1>3, <1>4, NothingPlaced DEF SoleAdderInv
<1>6. OthersOnlyMark' /\ AdderSeesAll'
  BY <1>1, <1>3 DEF SoleAdderInv, OthersOnlyMark, AdderSeesAll, Seen, Known, Listening, dbVars
<1>. QED BY <1>4, <1>5, <1>6 DEF SoleAdderInv

\* The callback of addSong writes the song: in a new slot, and not after itself.
LEMMA StoreSongSole ==
  ASSUME TypeOK, NoHolesInv, OneAdder, SoleAdderInv, NEW d \in Devices, StoreSong(d)
  PROVE  SoleAdderInv' /\ Placed \subseteq Placed'
<1>. DEFINE add == Head(adding[d])
            w == SongWrite(add)
<1>1. /\ adding' = [adding EXCEPT ![d] = Tail(adding[d])] /\ adding[d] # << >>
      /\ ~IsDuplicate(add) /\ SetValue(d, w)
  BY DEF StoreSong
<1>2. /\ Tail(adding[d]) = << >> /\ add = adding[d][1] /\ 1 \in DOMAIN adding[d]
  BY <1>1, OneAddTaken DEF SoleAdderInv
<1>3. add \in Add
  BY <1>1, PartTypes
<1>4. /\ d \in Adders
      /\ \A p \in Placed : p.slot < add.size /\ (p.slot = add.size - 1 => p.song = add.last)
  BY <1>1, <1>2 DEF SoleAdderInv, OthersOnlyMark, AddsAreFresh
<1>. HIDE DEF add
<1>5. /\ w \in Write /\ w.slot = add.size /\ w.song = add.song
      /\ add.size \in Nat
  BY <1>3 DEF SongWrite, SongAt, Write, Add, MaybeSongs
<1>6. ~(add.size > 0 /\ add.last = add.song)
  BY <1>1 DEF IsDuplicate
<1>7. 0..(w.slot - 1) \subseteq Seen(d)
  BY <1>2, <1>5 DEF NoHolesInv, AddsAreSeen
<1>. HIDE DEF w
<1>8. Placed' \subseteq Placed \cup {w}
  BY <1>1, <1>5, SetValuePlaced DEF Gives
<1>9. \A e \in Devices : adding'[e] = IF e = d THEN << >> ELSE adding[e]
  BY <1>1, <1>2 DEF TypeOK
<1>10. \A p \in Placed : p.slot \in Nat
  BY PlacedType DEF Write
<1>11. OneSongPerSlot'
  <2>. SUFFICES ASSUME NEW p \in Placed \cup {w}, NEW q \in Placed \cup {w}, p.slot = q.slot
                PROVE  p.song = q.song
    BY <1>8 DEF OneSongPerSlot
  <2>. QED BY <1>4, <1>5, <1>10 DEF SoleAdderInv, OneSongPerSlot
<1>12. NeighboursDiffer'
  <2>. SUFFICES ASSUME NEW p \in Placed \cup {w}, NEW q \in Placed \cup {w}, q.slot = p.slot + 1
                PROVE  p.song # q.song
    BY <1>8 DEF NeighboursDiffer
  <2>1. CASE p \in Placed /\ q \in Placed
    BY <2>1 DEF SoleAdderInv, NeighboursDiffer
  <2>2. CASE p = w
    BY <1>4, <1>5, <1>10, <2>2
  <2>3. CASE p \in Placed /\ q = w
    BY <1>4, <1>5, <1>6, <1>10, <2>3
  <2>. QED BY <2>1, <2>2, <2>3
<1>13. \A e \in Devices : adding'[e] = << >>
  BY <1>4, <1>9 DEF SoleAdderInv, OthersOnlyMark, OneAdder
<1>14. AddsAreFresh'
  <2>1. Len(<< >>) <= 1 /\ DOMAIN << >> = {}
    OBVIOUS
  <2>. QED BY <1>13, <2>1 DEF AddsAreFresh
<1>15. OthersOnlyMark'
  BY <1>1, <1>4, <1>5, <1>13, SetValueOthers DEF OthersOnlyMark, SoleAdderInv
<1>16. AdderSeesAll'
  <2>1. \A e \in Devices : Seen(e) \subseteq Seen(e)'
    BY <1>1, <1>5, <1>7, SetValueStep
  <2>2. server' = server /\ Adders \subseteq Devices
    BY <1>1, DatastoreAssumption DEF SetValue
  <2>. QED BY <2>1, <2>2 DEF SoleAdderInv, AdderSeesAll
<1>17. Placed \subseteq Placed'
  BY <1>1, <1>5, SetValuePlaced
<1>. QED BY <1>11, <1>12, <1>14, <1>15, <1>16, <1>17 DEF SoleAdderInv

\* A player marks a song it shows.
LEMMA DidFinishSole ==
  ASSUME TypeOK, NoHolesInv, SoleAdderInv, NEW d \in Devices, NEW i \in DOMAIN View(d),
         Listening(d), DidFinish(d, i)
  PROVE  SoleAdderInv' /\ Placed' \subseteq Placed
<1>1. /\ SetValue(d, PlayedAt(i)) /\ adding' = adding
  BY DEF DidFinish
<1>2. i \in Seen(d) /\ i \in Nat
  BY ViewSlots DEF Seen, IsQueue
<1>3. PlayedAt(i) \in Write /\ PlayedAt(i).song = NoSong /\ PlayedAt(i).slot = i
  BY <1>2 DEF PlayedAt, Write, MaybeSongs
<1>4. 0..(i - 1) \subseteq Seen(d)
  <2>1. IsInitialSegment(Seen(d))
    BY SeenIsSegment, SegmentIsInitial
  <2>. QED BY <1>2, <2>1 DEF IsInitialSegment
<1>5. Placed' \subseteq Placed
  <2>1. Placed' \subseteq Placed \cup Gives(PlayedAt(i))
    BY <1>1, <1>3, SetValuePlaced
  <2>. QED BY <1>3, <2>1 DEF Gives
<1>6. OneSongPerSlot' /\ NeighboursDiffer' /\ AddsAreFresh'
  BY <1>1, <1>5, NothingPlaced DEF SoleAdderInv
<1>7. OthersOnlyMark'
  BY <1>1, <1>3, SetValueOthers DEF OthersOnlyMark, SoleAdderInv
<1>8. AdderSeesAll'
  <2>1. \A e \in Devices : Seen(e) \subseteq Seen(e)'
    BY <1>1, <1>3, <1>4, SetValueStep
  <2>2. server' = server /\ Adders \subseteq Devices
    BY <1>1, DatastoreAssumption DEF SetValue
  <2>. QED BY <2>1, <2>2 DEF SoleAdderInv, AdderSeesAll
<1>. QED BY <1>5, <1>6, <1>7, <1>8 DEF SoleAdderInv

\* A device subscribes: it is sent the queue of the server.
LEMMA SubscribeSole ==
  ASSUME TypeOK, SoleAdderInv, NEW d \in Devices, ~Listening(d), SubscribeToUpdates(d)
  PROVE  SoleAdderInv' /\ Placed' \subseteq Placed
<1>1. /\ cache' = [cache EXCEPT ![d] = server]
      /\ inbox' = [inbox EXCEPT ![d] = << >>]
      /\ unacked' = [unacked EXCEPT ![d] = << >>]
      /\ observers' = [observers EXCEPT ![d] = @ + 1]
      /\ server' = server /\ outbox' = outbox /\ adding' = adding
  BY DEF SubscribeToUpdates, Observe
<1>2. /\ cache'[d] = server /\ inbox'[d] = << >> /\ unacked'[d] = << >> /\ Listening(d)'
      /\ \A e \in Devices : e # d => /\ cache'[e] = cache[e] /\ inbox'[e] = inbox[e]
                                     /\ unacked'[e] = unacked[e]
                                     /\ Listening(e)' = Listening(e)
  BY <1>1 DEF TypeOK, DBTypeOK, Listening
<1>3. Writes(<< >>) = << >> /\ SongWrites(<< >>) = {}
  BY SongsEmpty DEF Writes
<1>4. Placed' \subseteq Placed
  <2>1. ASSUME NEW e \in Devices PROVE PlacedBy(e)' \subseteq Placed
    BY <1>1, <1>2, <1>3 DEF Placed, PlacedBy, SongsHeard
  <2>. QED BY <1>1, <2>1 DEF Placed
<1>5. OneSongPerSlot' /\ NeighboursDiffer' /\ AddsAreFresh'
  BY <1>1, <1>4, NothingPlaced DEF SoleAdderInv
<1>6. OthersOnlyMark'
  BY <1>1, <1>2, <1>3 DEF SoleAdderInv, OthersOnlyMark
<1>7. AdderSeesAll'
  <2>. SUFFICES ASSUME NEW a \in Adders PROVE DOMAIN server \subseteq Seen(a)'
    BY <1>1 DEF AdderSeesAll
  <2>1. a \in Devices /\ DOMAIN server \subseteq Seen(a)
    BY DatastoreAssumption DEF SoleAdderInv, AdderSeesAll
  <2>2. CASE a = d
    BY <1>2, <2>2 DEF Seen, Known
  <2>3. CASE a # d
    BY <1>1, <1>2, <2>1, <2>3 DEF Seen, Known
  <2>. QED BY <2>2, <2>3
<1>. QED BY <1>4, <1>5, <1>6, <1>7 DEF SoleAdderInv

\* The server applies a write and tells the devices: a song only moves.
LEMMA TransmitPlaced ==
  ASSUME TypeOK, NEW d \in Devices, Transmit(d)
  PROVE  Placed' \subseteq Placed
<1>. DEFINE w == Head(outbox[d])
            note(e) == [write |-> w, own |-> e = d]
<1>1. /\ outbox[d] # << >>
      /\ server' = Put(server, w)
      /\ unacked' = [unacked EXCEPT ![d] = Append(unacked[d], w)]
      /\ inbox' = [e \in Devices |-> IF e = d \/ Listening(e)
                                     THEN Append(inbox[e], note(e)) ELSE inbox[e]]
      /\ outbox' = [outbox EXCEPT ![d] = Tail(outbox[d])]
      /\ cache' = cache /\ observers' = observers
  BY DEF Transmit, ServerApply
<1>2. w \in Write /\ SongWrites(outbox[d]) = Gives(w) \cup SongWrites(Tail(outbox[d]))
  BY <1>1, PartTypes, SongsHead
<1>3. Gives(w) \subseteq Placed
  BY <1>2, PlacedCases
<1>4. \A e \in Devices : note(e) \in Message /\ note(e).write = w
  <2>. HIDE DEF w
  <2>. QED BY <1>2 DEF Message
<1>5. SongWrites(Append(unacked[d], w)) = SongWrites(unacked[d]) \cup Gives(w)
  BY <1>2, PartTypes, SongsAppend
<1>6. \A e \in Devices : SongWrites(Writes(Append(inbox[e], note(e))))
                           = SongWrites(Writes(inbox[e])) \cup Gives(w)
  <2>. SUFFICES ASSUME NEW e \in Devices
                PROVE  SongWrites(Writes(Append(inbox[e], note(e))))
                         = SongWrites(Writes(inbox[e])) \cup Gives(w)
    OBVIOUS
  <2>1. Writes(Append(inbox[e], note(e))) = Append(Writes(inbox[e]), note(e).write)
    BY <1>4, PartTypes, WritesAppend
  <2>. HIDE DEF note, w
  <2>2. Writes(Append(inbox[e], note(e))) = Append(Writes(inbox[e]), w)
    BY <1>4, <2>1
  <2>3. SongWrites(Append(Writes(inbox[e]), w)) = SongWrites(Writes(inbox[e])) \cup Gives(w)
    BY <1>2, PartTypes, SongsAppend
  <2>. QED BY <2>2, <2>3
<1>7. EntrySongs(server') \subseteq EntrySongs(server) \cup Gives(w)
  <2>. HIDE DEF w
  <2>. QED BY <1>1, <1>2, EntriesPut
<1>. HIDE DEF w, note
<1>8. /\ outbox'[d] = Tail(outbox[d]) /\ unacked'[d] = Append(unacked[d], w)
      /\ \A e \in Devices : e # d => outbox'[e] = outbox[e] /\ unacked'[e] = unacked[e]
      /\ \A e \in Devices : Listening(e) => inbox'[e] = Append(inbox[e], note(e))
      /\ \A e \in Devices : Listening(e)' = Listening(e)
  BY <1>1 DEF TypeOK, DBTypeOK, Listening
<1>9. ASSUME NEW e \in Devices PROVE PlacedBy(e)' \subseteq Placed
  <2>1. SongWrites(outbox'[e]) \subseteq SongWrites(outbox[e])
    BY <1>2, <1>8
  <2>2. SongWrites(unacked'[e]) \subseteq SongWrites(unacked[e]) \cup Gives(w)
    BY <1>5, <1>8
  <2>3. Listening(e) => SongsHeard(e)' \subseteq SongsHeard(e) \cup Gives(w)
    BY <1>1, <1>6, <1>8 DEF SongsHeard
  <2>4. PlacedBy(e)' \subseteq PlacedBy(e) \cup Gives(w)
    BY <1>8, <2>1, <2>2, <2>3 DEF PlacedBy
  <2>. QED BY <1>3, <2>4 DEF Placed
<1>10. EntrySongs(server)' \subseteq Placed
  BY <1>3, <1>7 DEF Placed
<1>. QED BY <1>9, <1>10 DEF Placed

LEMMA TransmitSole ==
  ASSUME TypeOK, CastsInv, OneAdder, SoleAdderInv, NEW d \in Devices, Transmit(d)
  PROVE  SoleAdderInv' /\ Placed' \subseteq Placed
<1>. DEFINE w == Head(outbox[d])
            i == w.slot
<1>1. /\ outbox[d] # << >>
      /\ server' = Put(server, w)
      /\ unacked' = [unacked EXCEPT ![d] = Append(unacked[d], w)]
      /\ outbox' = [outbox EXCEPT ![d] = Tail(outbox[d])]
      /\ cache' = cache /\ observers' = observers /\ adding' = adding
  BY DEF Transmit, ServerApply
<1>2. w \in Write /\ SongWrites(outbox[d]) = Gives(w) \cup SongWrites(Tail(outbox[d]))
  BY <1>1, PartTypes, SongsHead
<1>3. w.song = NoSong => i \in DOMAIN server
  <2>1. MarksFollowSongs(DOMAIN server, outbox[d])
    BY DEF CastsInv, SongsSent
  <2>. QED BY <1>1, <2>1, PartTypes, MarksTail
<1>4. {i} \cup Slots(Tail(outbox[d])) = Slots(outbox[d])
  BY <1>1, PartTypes, SlotsToTail
<1>. HIDE DEF w
<1>5. DOMAIN server' = DOMAIN server \cup {i}
  BY <1>1, <1>2, PartTypes, PutQueue
<1>6. /\ Slots(Append(unacked[d], w)) = Slots(unacked[d]) \cup {i}
      /\ SongWrites(Append(unacked[d], w)) = SongWrites(unacked[d]) \cup Gives(w)
  BY <1>2, PartTypes, SlotsToAppend, SongsAppend
<1>. HIDE DEF i
<1>7. /\ outbox'[d] = Tail(outbox[d]) /\ unacked'[d] = Append(unacked[d], w)
      /\ \A e \in Devices : e # d => outbox'[e] = outbox[e] /\ unacked'[e] = unacked[e]
      /\ \A e \in Devices : Listening(e)' = Listening(e)
  BY <1>1 DEF TypeOK, DBTypeOK, Listening
<1>8. OneSongPerSlot' /\ NeighboursDiffer' /\ AddsAreFresh'
  BY <1>1, TransmitPlaced, NothingPlaced DEF SoleAdderInv
<1>9. OthersOnlyMark'
  BY <1>1, <1>2, <1>6, <1>7 DEF SoleAdderInv, OthersOnlyMark
<1>10. AdderSeesAll'
  <2>. SUFFICES ASSUME NEW a \in Adders PROVE DOMAIN server \cup {i} \subseteq Seen(a)'
    BY <1>5 DEF AdderSeesAll
  <2>1. a \in Devices /\ DOMAIN server \subseteq Seen(a)
    BY DatastoreAssumption DEF SoleAdderInv, AdderSeesAll
  <2>2. CASE ~Listening(a)
    BY <1>5, <1>7, <2>1, <2>2 DEF Seen
  <2>3. CASE Listening(a) /\ a = d
    <3>1. Seen(d)' = DOMAIN cache[d] \cup Slots(unacked'[d]) \cup Slots(outbox'[d])
      BY <1>1, <1>7, <2>3 DEF Seen, Known
    <3>2. Seen(d) = DOMAIN cache[d] \cup Slots(unacked[d]) \cup Slots(outbox[d])
      BY <2>3 DEF Seen, Known
    <3>3. DOMAIN server \cup {i} \subseteq Seen(d)'
      BY <1>4, <1>6, <1>7, <2>1, <2>3, <3>1, <3>2
    <3>. QED BY <2>3, <3>3
  <2>4. CASE Listening(a) /\ a # d
    <3>1. w.song = NoSong
      <4>1. SongWrites(outbox[d]) = {}
        BY <2>4 DEF SoleAdderInv, OthersOnlyMark, OneAdder
      <4>. QED BY <1>2, <4>1 DEF Gives
    <3>2. Seen(a)' = Seen(a)
      BY <1>1, <1>7, <2>1, <2>4 DEF Seen, Known
    <3>. QED BY <1>3, <2>1, <3>1, <3>2
  <2>. QED BY <2>2, <2>3, <2>4
<1>. QED BY <1>8, <1>9, <1>10, TransmitPlaced DEF SoleAdderInv

\* A device receives a message: it knows the song already or learns it.
LEMMA ReceiveSole ==
  ASSUME TypeOK, SoleAdderInv, NEW d \in Devices, Receive(d)
  PROVE  SoleAdderInv' /\ Placed' \subseteq Placed
<1>. DEFINE m == Head(inbox[d])
            w == m.write
<1>1. /\ inbox[d] # << >>
      /\ m.own => unacked[d] # << >> /\ Head(unacked[d]) = w
      /\ cache' = [cache EXCEPT ![d] =
                     IF Listening(d) THEN Put(cache[d], w) ELSE cache[d]]
      /\ unacked' = [unacked EXCEPT ![d] = IF m.own THEN Tail(unacked[d]) ELSE unacked[d]]
      /\ inbox' = [inbox EXCEPT ![d] = Tail(inbox[d])]
      /\ server' = server /\ outbox' = outbox /\ observers' = observers
      /\ adding' = adding
  BY DEF Receive, Deliver
<1>2. /\ w \in Write
      /\ SongWrites(Writes(inbox[d])) = Gives(w) \cup SongWrites(Writes(Tail(inbox[d])))
  <2>1. m \in Message
    BY <1>1, PartTypes
  <2>2. /\ Writes(inbox[d]) # << >> /\ Head(Writes(inbox[d])) = w
        /\ Tail(Writes(inbox[d])) = Writes(Tail(inbox[d]))
    BY <1>1, PartTypes, WritesTail
  <2>3. SongWrites(Writes(inbox[d]))
          = Gives(Head(Writes(inbox[d]))) \cup SongWrites(Tail(Writes(inbox[d])))
    BY <2>2, PartTypes, SongsHead
  <2>. HIDE DEF m
  <2>. QED BY <2>1, <2>2, <2>3 DEF Message
<1>3. m.own => /\ SongWrites(Tail(unacked[d])) \subseteq SongWrites(unacked[d])
               /\ {w.slot} \cup Slots(Tail(unacked[d])) = Slots(unacked[d])
  <2>. HIDE DEF m
  <2>. QED BY <1>1, PartTypes, SongsHead, SlotsToTail
<1>. HIDE DEF m, w
<1>4. /\ EntrySongs(Put(cache[d], w)) \subseteq EntrySongs(cache[d]) \cup Gives(w)
      /\ DOMAIN Put(cache[d], w) = DOMAIN cache[d] \cup {w.slot}
  BY <1>2, PartTypes, EntriesPut, PutQueue
<1>5. /\ Listening(d) => cache'[d] = Put(cache[d], w)
      /\ unacked'[d] = IF m.own THEN Tail(unacked[d]) ELSE unacked[d]
      /\ inbox'[d] = Tail(inbox[d])
      /\ \A e \in Devices : e # d => /\ cache'[e] = cache[e] /\ inbox'[e] = inbox[e]
                                     /\ unacked'[e] = unacked[e]
      /\ \A e \in Devices : Listening(e)' = Listening(e)
  BY <1>1 DEF TypeOK, DBTypeOK, Listening
<1>6. \A e \in Devices : SongWrites(unacked'[e]) \subseteq SongWrites(unacked[e])
  BY <1>3, <1>5
<1>7. Placed' \subseteq Placed
  <2>1. ASSUME NEW e \in Devices PROVE PlacedBy(e)' \subseteq PlacedBy(e)
    <3>1. CASE e = d
      <4>1. Listening(d) => SongsHeard(d)' \subseteq SongsHeard(d)
        BY <1>2, <1>4, <1>5 DEF SongsHeard
      <4>. QED BY <1>1, <1>5, <1>6, <3>1, <4>1 DEF PlacedBy
    <3>2. CASE e # d
      BY <1>1, <1>5, <3>2 DEF PlacedBy, SongsHeard
    <3>. QED BY <3>1, <3>2
  <2>. QED BY <1>1, <2>1 DEF Placed
<1>8. OneSongPerSlot' /\ NeighboursDiffer' /\ AddsAreFresh'
  BY <1>1, <1>7, NothingPlaced DEF SoleAdderInv
<1>9. OthersOnlyMark'
  BY <1>1, <1>6 DEF SoleAdderInv, OthersOnlyMark
<1>10. AdderSeesAll'
  <2>. SUFFICES ASSUME NEW a \in Adders PROVE DOMAIN server \subseteq Seen(a)'
    BY <1>1 DEF AdderSeesAll
  <2>1. a \in Devices /\ DOMAIN server \subseteq Seen(a)
    BY DatastoreAssumption DEF SoleAdderInv, AdderSeesAll
  <2>2. CASE ~Listening(a)
    BY <1>1, <1>5, <2>1, <2>2 DEF Seen
  <2>3. CASE Listening(a) /\ a = d
    <3>1. Known(d) \subseteq Known(d)'
      BY <1>3, <1>4, <1>5, <2>3 DEF Known
    <3>2. Seen(d)' = Known(d)' \cup Slots(outbox[d]) /\ Seen(d) = Known(d) \cup Slots(outbox[d])
      BY <1>1, <1>5, <2>3 DEF Seen
    <3>. QED BY <2>1, <2>3, <3>1, <3>2
  <2>4. CASE a # d
    BY <1>1, <1>5, <2>1, <2>4 DEF Seen, Known
  <2>. QED BY <2>2, <2>3, <2>4
<1>. QED BY <1>7, <1>8, <1>9, <1>10 DEF SoleAdderInv

\* A device reconnects: it sends again what it does not know the server to have.
LEMMA LoseConnectionSole ==
  ASSUME TypeOK, SoleAdderInv, NEW d \in Devices, LoseConnection(d)
  PROVE  SoleAdderInv' /\ Placed' \subseteq Placed
<1>1. /\ cache' = [cache EXCEPT ![d] = IF Listening(d) THEN server ELSE cache[d]]
      /\ inbox' = [inbox EXCEPT ![d] = << >>]
      /\ outbox' = [outbox EXCEPT ![d] = Pending(d)]
      /\ unacked' = [unacked EXCEPT ![d] = << >>]
      /\ server' = server /\ observers' = observers /\ adding' = adding
  BY DEF LoseConnection, Reconnect
<1>2. /\ Listening(d) => cache'[d] = server
      /\ inbox'[d] = << >> /\ unacked'[d] = << >> /\ outbox'[d] = Pending(d)
      /\ \A e \in Devices : e # d => /\ cache'[e] = cache[e] /\ inbox'[e] = inbox[e]
                                     /\ unacked'[e] = unacked[e] /\ outbox'[e] = outbox[e]
      /\ \A e \in Devices : Listening(e)' = Listening(e)
  BY <1>1 DEF TypeOK, DBTypeOK, Listening
<1>3. /\ SongWrites(Pending(d)) = SongWrites(unacked[d]) \cup SongWrites(outbox[d])
      /\ Slots(Pending(d)) = Slots(unacked[d]) \cup Slots(outbox[d])
  BY PartTypes, SongsConcat, SlotsToConcat DEF Pending
<1>4. Writes(<< >>) = << >> /\ SongWrites(<< >>) = {}
  BY SongsEmpty DEF Writes
<1>5. Placed' \subseteq Placed
  <2>1. ASSUME NEW e \in Devices PROVE PlacedBy(e)' \subseteq Placed
    <3>1. CASE e = d
      <4>1. Listening(d) => SongsHeard(d)' = EntrySongs(server)
        BY <1>2, <1>4 DEF SongsHeard
      <4>. QED BY <1>2, <1>3, <1>4, <3>1, <4>1 DEF Placed, PlacedBy
    <3>2. CASE e # d
      BY <1>2, <3>2 DEF Placed, PlacedBy, SongsHeard
    <3>. QED BY <3>1, <3>2
  <2>. QED BY <1>1, <2>1 DEF Placed
<1>6. OneSongPerSlot' /\ NeighboursDiffer' /\ AddsAreFresh'
  BY <1>1, <1>5, NothingPlaced DEF SoleAdderInv
<1>7. OthersOnlyMark'
  BY <1>1, <1>2, <1>3, <1>4 DEF SoleAdderInv, OthersOnlyMark
<1>8. AdderSeesAll'
  <2>. SUFFICES ASSUME NEW a \in Adders PROVE DOMAIN server \subseteq Seen(a)'
    BY <1>1 DEF AdderSeesAll
  <2>1. a \in Devices /\ DOMAIN server \subseteq Seen(a)
    BY DatastoreAssumption DEF SoleAdderInv, AdderSeesAll
  <2>2. CASE a = d
    BY <1>1, <1>2, <2>2 DEF Seen, Known
  <2>3. CASE a # d
    BY <1>1, <1>2, <2>1, <2>3 DEF Seen, Known
  <2>. QED BY <2>2, <2>3
<1>. QED BY <1>5, <1>6, <1>7, <1>8 DEF SoleAdderInv

\* The app of a device restarts, with nothing of the party.
LEMMA RestartSole ==
  ASSUME TypeOK, SoleAdderInv, NEW d \in Devices, Restart(d)
  PROVE  SoleAdderInv' /\ Placed' \subseteq Placed
<1>1. /\ cache' = [cache EXCEPT ![d] = EmptyQueue]
      /\ inbox' = [inbox EXCEPT ![d] = << >>]
      /\ outbox' = [outbox EXCEPT ![d] = << >>]
      /\ unacked' = [unacked EXCEPT ![d] = << >>]
      /\ observers' = [observers EXCEPT ![d] = 0]
      /\ server' = server
      /\ adding' = [adding EXCEPT ![d] = << >>]
  BY DEF Restart, AppDies, Forget
<1>2. /\ unacked'[d] = << >> /\ outbox'[d] = << >> /\ adding'[d] = << >> /\ ~Listening(d)'
      /\ \A e \in Devices : e # d =>
            /\ cache'[e] = cache[e] /\ inbox'[e] = inbox[e] /\ outbox'[e] = outbox[e]
            /\ unacked'[e] = unacked[e] /\ adding'[e] = adding[e]
            /\ Listening(e)' = Listening(e)
  BY <1>1 DEF TypeOK, DBTypeOK, Listening
<1>3. Placed' \subseteq Placed
  <2>1. ASSUME NEW e \in Devices PROVE PlacedBy(e)' \subseteq PlacedBy(e)
    BY <1>2, SongsEmpty DEF PlacedBy, SongsHeard
  <2>. QED BY <1>1, <2>1 DEF Placed
<1>4. OneSongPerSlot' /\ NeighboursDiffer' /\ AddsAreFresh'
  BY <1>2, <1>3, NothingPlaced DEF SoleAdderInv
<1>5. OthersOnlyMark'
  BY <1>2, SongsEmpty DEF SoleAdderInv, OthersOnlyMark
<1>6. AdderSeesAll'
  <2>. SUFFICES ASSUME NEW a \in Adders PROVE DOMAIN server \subseteq Seen(a)'
    BY <1>1 DEF AdderSeesAll
  <2>1. a \in Devices /\ DOMAIN server \subseteq Seen(a)
    BY DatastoreAssumption DEF SoleAdderInv, AdderSeesAll
  <2>2. CASE a = d
    BY <1>1, <1>2, <2>2 DEF Seen
  <2>3. CASE a # d
    BY <1>1, <1>2, <2>1, <2>3 DEF Seen, Known
  <2>. QED BY <2>2, <2>3
<1>. QED BY <1>3, <1>4, <1>5, <1>6 DEF SoleAdderInv

-----------------------------------------------------------------------------
(***************************************************************************)
(* The theorems on a sole adder.                                           *)
(***************************************************************************)

\* Nothing is placed at first.
LEMMA SoleAdderInit == Init => SoleAdderInv
<1>. SUFFICES ASSUME Init PROVE SoleAdderInv
  OBVIOUS
<1>1. /\ server = EmptyQueue
      /\ \A d \in Devices : /\ ~Listening(d) /\ outbox[d] = << >>
                            /\ unacked[d] = << >> /\ adding[d] = << >>
  BY DEF Init, DBInit, Listening
<1>2. DOMAIN << >> = {} /\ Len(<< >>) <= 1 /\ DOMAIN server = {}
  BY <1>1 DEF EmptyQueue
<1>3. Placed = {}
  BY <1>1, SongsEmpty DEF Placed, PlacedBy
<1>. QED BY <1>1, <1>2, <1>3, SongsEmpty
         DEF SoleAdderInv, OthersOnlyMark, AdderSeesAll, OneSongPerSlot, NeighboursDiffer,
             AddsAreFresh

\* Every step of a party with one adder keeps the invariant, when no two of its reads
\* are under way together.  A step places a song or lets go of some.
LEMMA SoleAdderStep ==
  OneAdder /\ OneRead' /\ TypeOK /\ NoHolesInv /\ CastsInv /\ SoleAdderInv /\ [Next]_vars
    => SoleAdderInv' /\ (Placed' \subseteq Placed \/ Placed \subseteq Placed')
<1>. SUFFICES ASSUME OneAdder, OneRead', TypeOK, NoHolesInv, CastsInv, SoleAdderInv,
                     [Next]_vars
              PROVE  SoleAdderInv' /\ (Placed' \subseteq Placed \/ Placed \subseteq Placed')
  OBVIOUS
<1>1. CASE UNCHANGED vars
  <2>1. Placed' = Placed
    BY <1>1 DEF vars, dbVars, Placed, PlacedBy, SongsHeard, Listening
  <2>. QED BY <1>1, <2>1 DEF vars, dbVars, SoleAdderInv, OthersOnlyMark, AdderSeesAll,
              OneSongPerSlot, NeighboursDiffer, AddsAreFresh, Seen, Known, Listening
<1>2. CASE Next
  BY <1>2, AddSongSole, RefuseDuplicateSole, StoreSongSole, SubscribeSole, DidFinishSole,
     TransmitSole, ReceiveSole, LoseConnectionSole, RestartSole DEF Next
<1>. QED BY <1>1, <1>2

LEMMA SoleAdderInvStays ==
  ASSUME OneAdder
  PROVE  Spec /\ []OneRead => []SoleAdderInv
<1>1. Init => SoleAdderInv
  BY SoleAdderInit
<1>2. TypeOK /\ NoHolesInv /\ CastsInv /\ SoleAdderInv /\ OneRead' /\ [Next]_vars
        => SoleAdderInv'
  BY SoleAdderStep
<1>. QED BY <1>1, <1>2, NoHolesInvHolds, CastsInvHolds, PTL DEF Spec

\* An adder that has room for one read makes one at a time.
LEMMA OneReadStep ==
  SoleAdder /\ TypeOK /\ OneRead /\ [Next]_vars => OneRead'
<1>. SUFFICES ASSUME SoleAdder, TypeOK, OneRead, [Next]_vars, NEW e \in Devices
              PROVE  Len(adding'[e]) <= 1
  BY DEF OneRead
<1>1. \A d \in Devices : adding[d] \in Seq(Add) /\ Len(adding[d]) <= 1
  BY PartTypes DEF OneRead
<1>2. CASE adding'[e] = adding[e]
  BY <1>1, <1>2
<1>3. ASSUME NEW s \in Songs, AddSong(e, s) PROVE Len(adding'[e]) <= 1
  <2>1. PICK add : adding' = [adding EXCEPT ![e] = Append(adding[e], add)]
    BY <1>3 DEF AddSong
  <2>2. Len(adding[e]) = 0
    BY <1>1, <1>3 DEF AddSong, SoleAdder
  <2>. QED BY <1>1, <2>1, <2>2 DEF TypeOK
<1>4. ASSUME adding' = [adding EXCEPT ![e] = Tail(adding[e])], adding[e] # << >>
      PROVE  Len(adding'[e]) <= 1
  <2>1. Len(Tail(adding[e])) = Len(adding[e]) - 1 /\ Len(adding[e]) \in Nat
    BY <1>1, <1>4
  <2>2. adding'[e] = Tail(adding[e])
    BY <1>4 DEF TypeOK
  <2>. QED BY <1>1, <2>1, <2>2
<1>5. ASSUME adding' = [adding EXCEPT ![e] = << >>] PROVE Len(adding'[e]) <= 1
  BY <1>5 DEF TypeOK
<1>6. CASE UNCHANGED vars
  BY <1>2, <1>6 DEF vars
<1>7. CASE Next
  <2>1. PICK d \in Devices :
          \/ \E s \in Songs : AddSong(d, s)
          \/ RefuseDuplicate(d) \/ StoreSong(d) \/ Restart(d)
          \/ adding' = adding
    BY <1>7 DEF Next, SubscribeToUpdates, DidFinish, Transmit, Receive, LoseConnection
  <2>2. CASE d = e
    BY <1>2, <1>3, <1>4, <1>5, <2>1, <2>2 DEF RefuseDuplicate, StoreSong, Restart, AppDies
  <2>3. CASE d # e
    <3>1. adding'[e] = adding[e]
      BY <2>1, <2>3 DEF TypeOK, AddSong, RefuseDuplicate, StoreSong, Restart, AppDies
    <3>. QED BY <1>2, <3>1
  <2>. QED BY <2>2, <2>3
<1>. QED BY <1>6, <1>7

\* While one device adds all songs, one at a time, no slot is ever given two songs,
\* no two slots next to each other the same song, and what addSong waits with is
\* fresh, whatever is marked, lost, sent twice or restarted meanwhile.
THEOREM SoleAdderInvHolds ==
  ASSUME SoleAdder
  PROVE  Spec => []SoleAdderInv
<1>1. Init => OneRead
  <2>1. Len(<< >>) <= 1
    OBVIOUS
  <2>. QED BY <2>1 DEF Init, OneRead
<1>2. TypeOK /\ OneRead /\ [Next]_vars => OneRead'
  BY OneReadStep
<1>3. Spec /\ []OneRead => []SoleAdderInv
  BY SoleAdderInvStays DEF SoleAdder
<1>. QED BY <1>1, <1>2, <1>3, TypeCorrect, PTL DEF Spec

\* The invariant keeps a song from standing next to itself at the server.
LEMMA NoAdjacentFromInv == TypeOK /\ SoleAdderInv => NoAdjacentDuplicates
<1>. SUFFICES ASSUME TypeOK, SoleAdderInv, NEW i \in DOMAIN server, NEW j \in DOMAIN server,
                     j = i + 1, server[i].song # NoSong
              PROVE  server[i].song # server[j].song
  BY DEF NoAdjacentDuplicates
<1>1. SongAt(i, server[i].song) \in Placed
  BY DEF Placed, EntrySongs
<1>2. CASE server[j].song = NoSong
  BY <1>2
<1>3. CASE server[j].song # NoSong
  <2>1. SongAt(j, server[j].song) \in Placed
    BY <1>3 DEF Placed, EntrySongs
  <2>. QED BY <1>1, <2>1 DEF SoleAdderInv, NeighboursDiffer, SongAt
<1>. QED BY <1>2, <1>3

\* "We don't allow the same song to be added directly after each other": with one
\* adder the check that addSong makes on what it read is enough.
THEOREM NoAdjacentDuplicatesHolds ==
  ASSUME SoleAdder
  PROVE  Spec => []NoAdjacentDuplicates
<1>1. Spec => []SoleAdderInv
  BY SoleAdderInvHolds
<1>. QED BY <1>1, TypeCorrect, NoAdjacentFromInv, PTL

\* The server loses no song: the step that applies a write keeps all songs.
LEMMA NoSongLost ==
  ASSUME TypeOK, CastsInv, SoleAdderInv, [Next]_vars, NEW i \in DOMAIN server
  PROVE  i \in DOMAIN server' /\ server'[i].song = server[i].song
<1>1. CASE server' = server
  BY <1>1
<1>2. ASSUME NEW d \in Devices, Transmit(d)
      PROVE  i \in DOMAIN server' /\ server'[i].song = server[i].song
  <2>. DEFINE w == Head(outbox[d])
  <2>1. outbox[d] # << >> /\ server' = Put(server, w)
    BY <1>2 DEF Transmit, ServerApply
  <2>2. w \in Write /\ Gives(w) \subseteq Placed
    <3>1. w \in Write /\ SongWrites(outbox[d]) = Gives(w) \cup SongWrites(Tail(outbox[d]))
      BY <2>1, PartTypes, SongsHead
    <3>. QED BY <3>1, PlacedCases
  <2>3. SongAt(i, server[i].song) \in Placed
    <3>1. server[i].song # NoSong
      BY DEF CastsInv, SongsSent, AllSongs
    <3>. QED BY <3>1 DEF Placed, EntrySongs
  <2>. HIDE DEF w
  <2>4. i \in DOMAIN server'
    BY <2>1, <2>2, PartTypes, PutQueue
  <2>5. server'[i] =
          IF i # w.slot THEN server[i]
          ELSE IF w.song # NoSong THEN Fresh(w.song)
          ELSE [song |-> IF i \in DOMAIN server THEN server[i].song ELSE NoSong,
                played |-> TRUE]
    BY <2>1, Zenon DEF Put
  <2>6. CASE i # w.slot
    BY <2>4, <2>5, <2>6
  <2>7. CASE i = w.slot /\ w.song # NoSong
    <3>1. w \in Placed
      BY <2>2, <2>7 DEF Gives
    <3>2. w.song = server[i].song
      BY <2>3, <2>7, <3>1 DEF SoleAdderInv, OneSongPerSlot, SongAt
    <3>. QED BY <2>4, <2>5, <2>7, <3>2 DEF Fresh
  <2>8. CASE i = w.slot /\ w.song = NoSong
    BY <2>4, <2>5, <2>8
  <2>. QED BY <2>6, <2>7, <2>8
<1>3. CASE UNCHANGED vars
  BY <1>1, <1>3 DEF vars, dbVars
<1>4. CASE Next
  <2>1. PICK d \in Devices :
          \/ \E s \in Songs : AddSong(d, s)
          \/ RefuseDuplicate(d)
          \/ StoreSong(d)
          \/ SubscribeToUpdates(d)
          \/ \E k \in DOMAIN View(d) : DidFinish(d, k)
          \/ Transmit(d)
          \/ Receive(d)
          \/ LoseConnection(d)
          \/ Restart(d)
    BY <1>4 DEF Next
  <2>2. server' = server \/ Transmit(d)
    BY <2>1 DEF AddSong, RefuseDuplicate, StoreSong, SubscribeToUpdates, DidFinish, Receive,
       LoseConnection, Restart, AppDies, SetValue, Observe, Deliver, Reconnect, Forget, dbVars
  <2>. QED BY <1>1, <1>2, <2>2
<1>. QED BY <1>3, <1>4

LEMMA SongsStayWithInv == Spec /\ []SoleAdderInv => AddedSongStays
<1>1. TypeOK /\ CastsInv /\ SoleAdderInv /\ [Next]_vars
        => [\A i \in DOMAIN server :
              i \in DOMAIN server' /\ server'[i].song = server[i].song]_vars
  BY NoSongLost
<1>. QED BY <1>1, TypeCorrect, CastsInvHolds, PTL DEF Spec, AddedSongStays

\* A song that reached the queue at the server stays in its slot for ever, through
\* lost connections and restarts: no later add takes the slot.
THEOREM AddedSongStaysHolds ==
  ASSUME SoleAdder
  PROVE  Spec => AddedSongStays
<1>1. Spec => []SoleAdderInv
  BY SoleAdderInvHolds
<1>. QED BY <1>1, SongsStayWithInv, PTL

-----------------------------------------------------------------------------
(***************************************************************************)
(* Without faults a song is written to a slot once, before any mark.       *)
(***************************************************************************)

\* A write more: a mark, or a song for a slot of its own.
LEMMA NewAppend ==
  ASSUME NEW S, NEW ws \in Seq(Write), AllNew(S, ws), NEW w \in Write,
         w.song # NoSong => w.slot \notin S \cup Slots(ws)
  PROVE  AllNew(S, Append(ws, w))
<1>. DEFINE n == Len(ws)
            vs == Append(ws, w)
<1>1. /\ n \in Nat /\ DOMAIN ws = 1..n /\ DOMAIN vs = 1..(n + 1)
      /\ \A k \in 1..n : vs[k] = ws[k]
      /\ vs[n + 1] = w
  OBVIOUS
<1>. HIDE DEF n, vs
<1>2. \A j \in 1..n : ws[j].slot \in Slots(ws)
  BY <1>1 DEF Slots
<1>3. ASSUME NEW k \in DOMAIN vs, vs[k].song # NoSong
      PROVE  vs[k].slot \notin S /\ \A j \in 1..(k - 1) : vs[j].slot # vs[k].slot
  <2>1. CASE k = n + 1
    <3>1. vs[k] = w /\ 1..(k - 1) = 1..n
      BY <1>1, <2>1
    <3>. QED BY <1>1, <1>2, <1>3, <3>1
  <2>2. CASE k \in 1..n
    <3>1. ws[k].slot \notin S /\ \A j \in 1..(k - 1) : ws[j].slot # ws[k].slot
      BY <1>1, <1>3, <2>2 DEF AllNew
    <3>2. \A j \in 1..(k - 1) : j \in 1..n
      BY <1>1, <2>2
    <3>. QED BY <1>1, <2>2, <3>1, <3>2
  <2>. QED BY <1>1, <2>1, <2>2
<1>4. AllNew(S, vs)
  BY <1>3 DEF AllNew
<1>. QED BY <1>4 DEF vs

\* The oldest write is applied.
LEMMA NewTail ==
  ASSUME NEW S, NEW ws \in Seq(Write), ws # << >>, AllNew(S, ws)
  PROVE  /\ AllNew(S \cup {Head(ws).slot}, Tail(ws))
         /\ Head(ws).song # NoSong => Head(ws).slot \notin S
<1>. DEFINE n == Len(ws)
            t == Tail(ws)
<1>1. /\ n \in Nat /\ n > 0 /\ DOMAIN ws = 1..n /\ Head(ws) = ws[1]
      /\ DOMAIN t = 1..(n - 1)
      /\ \A k \in 1..(n - 1) : t[k] = ws[k + 1]
  <2>1. Len(t) = n - 1 /\ t \in Seq(Write) /\ \A k \in 1..Len(t) : t[k] = ws[k + 1]
    BY HeadTailProperties
  <2>. QED BY <2>1
<1>. HIDE DEF n, t
<1>2. Head(ws).song # NoSong => Head(ws).slot \notin S
  BY <1>1 DEF AllNew
<1>3. ASSUME NEW k \in DOMAIN t, t[k].song # NoSong
      PROVE  /\ t[k].slot \notin S \cup {Head(ws).slot}
             /\ \A j \in 1..(k - 1) : t[j].slot # t[k].slot
  <2>1. PICK m \in DOMAIN ws : m = k + 1 /\ t[k] = ws[m]
    BY <1>1
  <2>2. ws[m].slot \notin S /\ \A j \in 1..(m - 1) : ws[j].slot # ws[m].slot
    BY <1>3, <2>1 DEF AllNew
  <2>3. 1 \in 1..(m - 1)
    BY <1>1, <2>1
  <2>4. \A j \in 1..(k - 1) : j + 1 \in 1..(m - 1) /\ t[j] = ws[j + 1]
    BY <1>1, <2>1
  <2>. QED BY <1>1, <2>1, <2>2, <2>3, <2>4
<1>4. AllNew(S \cup {Head(ws).slot}, t)
  BY <1>3 DEF AllNew
<1>. QED BY <1>2, <1>4 DEF t

\* Marks are no songs.
LEMMA NewMarks ==
  ASSUME NEW S, NEW ws, SongWrites(ws) = {}
  PROVE  AllNew(S, ws)
BY DEF SongWrites, AllNew

\* The songs under way are new at first.
LEMMA SongsAreNewInit == Init => SongsAreNew
BY SongsEmpty, NewMarks DEF Init, DBInit, SongsAreNew

\* Every step of a sole adder keeps them new, while no connection is lost.
LEMMA SongsAreNewStep ==
  ASSUME MaxFaults = 0, SoleAdder, TypeOK, NoHolesInv, CastsInv, SoleAdderInv, SongsAreNew,
         [Next]_vars
  PROVE  SongsAreNew'
<1>1. CASE UNCHANGED <<server, outbox>>
  BY <1>1 DEF SongsAreNew
<1>2. ASSUME NEW d \in Devices, NEW w \in Write, SetValue(d, w),
             w.song # NoSong => w.slot \notin DOMAIN server \cup Slots(outbox[d])
      PROVE  SongsAreNew'
  <2>1. outbox' = [outbox EXCEPT ![d] = Append(outbox[d], w)] /\ server' = server
    BY <1>2 DEF SetValue
  <2>2. /\ outbox'[d] = Append(outbox[d], w)
        /\ \A e \in Devices : e # d => outbox'[e] = outbox[e]
    BY <2>1 DEF TypeOK, DBTypeOK
  <2>3. AllNew(DOMAIN server, Append(outbox[d], w))
    BY <1>2, PartTypes, NewAppend DEF SongsAreNew
  <2>. QED BY <2>1, <2>2, <2>3 DEF SongsAreNew
<1>3. ASSUME NEW d \in Devices, StoreSong(d)
      PROVE  SongsAreNew'
  <2>. DEFINE add == Head(adding[d])
              w == SongWrite(add)
  <2>1. adding[d] # << >> /\ SetValue(d, w)
    BY <1>3 DEF StoreSong
  <2>2. add = adding[d][1] /\ 1 \in DOMAIN adding[d] /\ add \in Add
    BY <2>1, OneAddTaken, PartTypes DEF SoleAdderInv
  <2>3. \A p \in Placed : p.slot < add.size
    BY <2>2 DEF SoleAdderInv, AddsAreFresh
  <2>. HIDE DEF add
  <2>4. w \in Write /\ w.slot = add.size /\ add.size \in Nat
    BY <2>2 DEF SongWrite, SongAt, Write, Add, MaybeSongs
  <2>5. w.slot \notin DOMAIN server \cup Slots(outbox[d])
    <3>1. ASSUME NEW i \in DOMAIN server \cup Slots(outbox[d]) PROVE i < add.size
      BY <2>3, UsedIsPlaced
    <3>2. ~(add.size < add.size)
      BY <2>4
    <3>. HIDE DEF w
    <3>. QED BY <2>4, <3>1, <3>2
  <2>. QED BY <1>2, <2>1, <2>4, <2>5
<1>4. ASSUME NEW d \in Devices, NEW i \in DOMAIN View(d), DidFinish(d, i)
      PROVE  SongsAreNew'
  <2>1. PlayedAt(i) \in Write /\ PlayedAt(i).song = NoSong
    BY ViewSlots DEF PlayedAt, Write, MaybeSongs, IsQueue
  <2>. QED BY <1>2, <1>4, <2>1 DEF DidFinish
<1>5. ASSUME NEW d \in Devices, Transmit(d)
      PROVE  SongsAreNew'
  <2>. DEFINE w == Head(outbox[d])
              i == w.slot
  <2>1. /\ outbox[d] # << >> /\ server' = Put(server, w)
        /\ outbox' = [outbox EXCEPT ![d] = Tail(outbox[d])]
    BY <1>5 DEF Transmit, ServerApply
  <2>2. w \in Write /\ AllNew(DOMAIN server \cup {i}, Tail(outbox[d]))
    BY <2>1, PartTypes, NewTail DEF SongsAreNew
  <2>3. w.song = NoSong => i \in DOMAIN server
    <3>1. MarksFollowSongs(DOMAIN server, outbox[d])
      BY DEF CastsInv, SongsSent
    <3>. QED BY <2>1, <3>1, PartTypes, MarksTail
  <2>4. d \notin Adders => w.song = NoSong
    <3>1. SongWrites(outbox[d]) = Gives(w) \cup SongWrites(Tail(outbox[d]))
      BY <2>1, PartTypes, SongsHead
    <3>. HIDE DEF w
    <3>. QED BY <3>1 DEF SoleAdderInv, OthersOnlyMark, Gives
  <2>. HIDE DEF w
  <2>5. DOMAIN server' = DOMAIN server \cup {i}
    BY <2>1, <2>2, PartTypes, PutQueue
  <2>. HIDE DEF i
  <2>6. /\ outbox'[d] = Tail(outbox[d])
        /\ \A e \in Devices : e # d => outbox'[e] = outbox[e]
    BY <2>1 DEF TypeOK, DBTypeOK
  <2>7. ASSUME NEW e \in Devices PROVE AllNew(DOMAIN server', outbox'[e])
    <3>1. CASE e = d
      BY <2>2, <2>5, <2>6, <3>1
    <3>2. CASE e # d /\ d \in Adders
      <4>1. e \notin Adders
        BY <3>2 DEF SoleAdder, OneAdder
      <4>. QED BY <2>6, <3>2, <4>1, NewMarks DEF SoleAdderInv, OthersOnlyMark
    <3>3. CASE e # d /\ d \notin Adders
      <4>1. DOMAIN server' = DOMAIN server
        BY <2>3, <2>4, <2>5, <3>3
      <4>. QED BY <2>6, <3>3, <4>1 DEF SongsAreNew
    <3>. QED BY <3>1, <3>2, <3>3
  <2>. QED BY <2>7 DEF SongsAreNew
<1>6. CASE UNCHANGED vars
  BY <1>1, <1>6 DEF vars, dbVars
<1>7. CASE Next
  <2>1. PICK d \in Devices :
          \/ \E s \in Songs : AddSong(d, s)
          \/ RefuseDuplicate(d)
          \/ StoreSong(d)
          \/ SubscribeToUpdates(d)
          \/ \E k \in DOMAIN View(d) : DidFinish(d, k)
          \/ Transmit(d)
          \/ Receive(d)
          \/ LoseConnection(d)
          \/ Restart(d)
    BY <1>7 DEF Next
  <2>2. ~(faults < MaxFaults)
    BY DEF TypeOK
  <2>3. ~LoseConnection(d) /\ ~Restart(d)
    BY <2>2 DEF LoseConnection, Restart
  <2>4. CASE StoreSong(d) \/ Transmit(d) \/ \E k \in DOMAIN View(d) : DidFinish(d, k)
    BY <1>3, <1>4, <1>5, <2>4
  <2>5. CASE \/ \E s \in Songs : AddSong(d, s)
             \/ RefuseDuplicate(d) \/ SubscribeToUpdates(d) \/ Receive(d)
    BY <1>1, <2>5 DEF AddSong, RefuseDuplicate, SubscribeToUpdates, Receive, Observe,
       Deliver, dbVars
  <2>. QED BY <2>1, <2>3, <2>4, <2>5
<1>. QED BY <1>6, <1>7

\* While no connection is lost and no app dies, no song is ever written to a slot
\* that has one: what a sole adder has under way is for new slots.
THEOREM SongsAreNewHolds ==
  ASSUME SoleAdder, MaxFaults = 0
  PROVE  Spec => []SongsAreNew
<1>1. Spec => []SoleAdderInv
  BY SoleAdderInvHolds
<1>2. TypeOK /\ NoHolesInv /\ CastsInv /\ SoleAdderInv /\ SongsAreNew /\ [Next]_vars
        => SongsAreNew'
  BY SongsAreNewStep
<1>. QED BY <1>1, <1>2, SongsAreNewInit, NoHolesInvHolds, CastsInvHolds, PTL DEF Spec

=============================================================================

------------------------------ MODULE Datastore ------------------------------
(***************************************************************************)
(* The Datastore of the app, used by every device of one party to add      *)
(* songs to the shared queue and to mark them as played.                   *)
(*                                                                         *)
(* addSong reads the queue and, when the answer comes, writes the song to  *)
(* the slot whose number is the length it read: no transaction, so other   *)
(* devices act between the two.                                            *)
(***************************************************************************)
EXTENDS PartyDatabase

CONSTANTS
    Adders,         \* the devices whose users add songs
    MaxQueue,       \* bound: no add starts on a queue this long
    MaxReads,       \* bound: adds of one device waiting for their read
    MaxFaults       \* bound: lost connections and restarts, all devices together

ASSUME DatastoreAssumption ==
    /\ Adders \subseteq Devices
    /\ MaxQueue \in Nat /\ MaxReads \in Nat /\ MaxFaults \in Nat

VARIABLES
    adding,         \* adding[d]: the adds of d whose read is answered and whose
                    \*   callback has not run, oldest first
    faults          \* lost connections and restarts so far

vars == <<dbVars, adding, faults>>

(***************************************************************************)
(* The value of a snapshot is an array when its keys are dense enough, nil *)
(* (or a dictionary) otherwise; a missing element of the array is NSNull.  *)
(***************************************************************************)
IsArray(q) ==
    /\ DOMAIN q # {}
    /\ Max(DOMAIN q) < 2 * Cardinality(DOMAIN q)

ArrayCount(q) == IF IsArray(q) THEN Max(DOMAIN q) + 1 ELSE 0

\* "as! Array<[String:Any]>" and "as! String" on its last element succeed, and
\* the songURL they give.
HasHole(q) == \E i \in 0..Max(DOMAIN q) : i \notin DOMAIN q
LastURL(q) ==
    IF ~IsArray(q) \/ HasHole(q) THEN NoSong ELSE q[Max(DOMAIN q)].song

\* An add whose read is answered: what the callback will use of the answer.
Add == [song : Songs, size : Nat, last : MaybeSongs]
CastFails(add) == add.size > 0 /\ add.last = NoSong

\* "The same song directly after each other": the song ends the queue already.
NeverDuplicate(add) == FALSE                                        \* a mutant
IsDuplicate(add) == add.size > 0 /\ add.last = add.song

\* What the callback writes: the song, in the slot after the last one it read.
WriteAtLast(add) == SongAt(add.size - 1, add.song)                  \* a mutant
WritePastEnd(add) == SongAt(add.size + 1, add.song)                 \* a mutant
SongWrite(add) == SongAt(add.size, add.song)

-----------------------------------------------------------------------------
Init ==
    /\ DBInit
    /\ adding = [d \in Devices |-> << >>]
    /\ faults = 0

\* addSong: the read of the queue.
AddSong(d, s) ==
    /\ d \in Adders
    /\ Len(adding[d]) < MaxReads
    /\ LET q == ReadQueue(d)
       IN /\ Cardinality(DOMAIN q) < MaxQueue
          /\ adding' = [adding EXCEPT ![d] = Append(@,
                 [song |-> s, size |-> ArrayCount(q), last |-> LastURL(q)])]
    /\ UNCHANGED <<dbVars, faults>>

\* The callback of addSong, run with the oldest answer.  First: a duplicate,
\* duplicateSongAdded and return.
RefuseDuplicate(d) ==
    /\ adding[d] # << >>
    /\ IsDuplicate(Head(adding[d]))
    /\ adding' = [adding EXCEPT ![d] = Tail(@)]
    /\ UNCHANGED <<dbVars, faults>>

\* Second: the song is written.
StoreSong(d) ==
    /\ adding[d] # << >>
    /\ LET add == Head(adding[d])
       IN /\ ~CastFails(add) /\ ~IsDuplicate(add)
          /\ SetValue(d, SongWrite(add))
    /\ adding' = [adding EXCEPT ![d] = Tail(@)]
    /\ UNCHANGED faults

\* The app of d dies, and with it all that it held of the party.
AppDies(d) ==
    /\ Forget(d)
    /\ adding' = [adding EXCEPT ![d] = << >>]

\* Third: a cast of the answer fails, which kills the app.
TrapOnCast(d) ==
    /\ adding[d] # << >>
    /\ CastFails(Head(adding[d]))
    /\ AppDies(d)
    /\ UNCHANGED faults

\* didFinish: the song in slot i has been played.
DidFinish(d, i) ==
    /\ SetValue(d, PlayedAt(i))
    /\ UNCHANGED <<adding, faults>>

\* subscribeToUpdates.
SubscribeToUpdates(d) ==
    /\ Observe(d)
    /\ UNCHANGED <<adding, faults>>

-----------------------------------------------------------------------------
(***************************************************************************)
(* The network, and what goes wrong in it.                                 *)
(***************************************************************************)
Transmit(d) ==
    /\ ServerApply(d)
    /\ UNCHANGED <<adding, faults>>

Receive(d) ==
    /\ Deliver(d)
    /\ UNCHANGED <<adding, faults>>

LoseConnection(d) ==
    /\ faults < MaxFaults
    /\ faults' = faults + 1
    /\ Reconnect(d)
    /\ UNCHANGED adding

Restart(d) ==
    /\ faults < MaxFaults
    /\ faults' = faults + 1
    /\ AppDies(d)

(***************************************************************************)
(* The callers.  The players of the app subscribe, and mark as played only *)
(* songs they were told of: slots in the view of their device.             *)
(***************************************************************************)
Next ==
    \E d \in Devices :
        \/ \E s \in Songs : AddSong(d, s)
        \/ RefuseDuplicate(d)
        \/ StoreSong(d)
        \/ ~Listening(d) /\ SubscribeToUpdates(d)
        \/ \E i \in DOMAIN View(d) : Listening(d) /\ DidFinish(d, i)
        \/ Transmit(d)
        \/ Receive(d)
        \/ LoseConnection(d)
        \/ Restart(d)

Spec == Init /\ [][Next]_vars

-----------------------------------------------------------------------------
(***************************************************************************)
(* Every variable holds values of its kind: the entries, writes and        *)
(* messages of the database, and the answers addSong waits with.           *)
(***************************************************************************)
TypeOK ==
    /\ DBTypeOK
    /\ adding \in [Devices -> Seq(Add)]
    /\ faults \in 0..MaxFaults

IsInitialSegment(S) == \A i \in S : 0..i \subseteq S

(***************************************************************************)
(* The queue has no holes, at the server and in every device, whatever     *)
(* devices write between the read and the write of an addSong and whatever *)
(* is sent twice or lost: an add may hit a used slot, never leave one out. *)
(* It is what "as! Array" and "queue.count" in addSong rely on.            *)
(***************************************************************************)
NoHoles ==
    /\ IsInitialSegment(DOMAIN server)
    /\ \A d \in Devices : Listening(d) => IsInitialSegment(DOMAIN View(d))

(***************************************************************************)
(* Why there are no holes.  A segment is a set of slots 0, 1, ..., n - 1.  *)
(* What a device knows the server to have, and what it will know when it   *)
(* has received one message more, and one more, are segments; so are the   *)
(* slots in use once the server has applied one of its writes more, and    *)
(* one more.  A waiting add has read a queue that its device still sees.   *)
(***************************************************************************)
IsSegment(S) == \E n \in 0..Cardinality(S) : S = 0..(n - 1)

SlotsTo(ws, k) == {ws[j].slot : j \in 1..k}
OtherSlotsTo(ms, k) == {ms[j].write.slot : j \in {i \in 1..k : ~ms[i].own}}
Known(d) == DOMAIN cache[d] \cup Slots(unacked[d])
Seen(d) == (IF Listening(d) THEN Known(d) ELSE DOMAIN server) \cup Slots(outbox[d])

ServerIsSegment == IsSegment(DOMAIN server)

WritesFillUp ==
    \A d \in Devices :
        /\ Slots(unacked[d]) \subseteq DOMAIN server
        /\ \A k \in 0..Len(outbox[d]) :
              /\ IsSegment(DOMAIN server \cup SlotsTo(outbox[d], k))
              /\ Listening(d) => IsSegment(Known(d) \cup SlotsTo(outbox[d], k))

MessagesFillUp ==
    \A d \in Devices : Listening(d) =>
        /\ \A k \in 0..Len(inbox[d]) : IsSegment(Known(d) \cup OtherSlotsTo(inbox[d], k))
        /\ DOMAIN server = Known(d) \cup OtherSlotsTo(inbox[d], Len(inbox[d]))

AddsAreSeen ==
    \A d \in Devices : \A k \in DOMAIN adding[d] :
        0..(adding[d][k].size - 1) \subseteq Seen(d)

NoHolesInv ==
    /\ ServerIsSegment
    /\ WritesFillUp
    /\ MessagesFillUp
    /\ AddsAreSeen

(***************************************************************************)
(* No forced cast of addSong fails: every queue that is read is an array   *)
(* whose last element has a songURL, even while "played" marks are late,   *)
(* sent twice, or meet a song that another device writes to their slot.    *)
(***************************************************************************)
CastsSucceed == \A d \in Devices : \A k \in DOMAIN adding[d] : ~CastFails(adding[d][k])

(***************************************************************************)
(* Why they succeed.  In any slot the first write is a song: among writes  *)
(* ws on their way to a queue with slots S, a "played" follows a song, in  *)
(* S or earlier in ws.  It is so for what a device has sent the server,    *)
(* for what the server has sent a device that listens, and for what that   *)
(* device shows over its cache.                                            *)
(***************************************************************************)
AllSongs(q) == \A i \in DOMAIN q : q[i].song # NoSong

MarksFollowSongs(S, ws) ==
    \A k \in DOMAIN ws : ws[k].song = NoSong =>
        \/ ws[k].slot \in S
        \/ \E j \in 1..(k - 1) : ws[j].slot = ws[k].slot /\ ws[j].song # NoSong

Writes(ms) == [k \in DOMAIN ms |-> ms[k].write]

SongsSent ==
    /\ AllSongs(server)
    /\ \A d \in Devices : MarksFollowSongs(DOMAIN server, outbox[d])

SongsCome ==
    \A d \in Devices : Listening(d) =>
        /\ AllSongs(cache[d])
        /\ MarksFollowSongs(DOMAIN cache[d], Writes(inbox[d]))
        /\ DOMAIN server = DOMAIN cache[d] \cup Slots(Writes(inbox[d]))

SongsShow ==
    \A d \in Devices : Listening(d) => MarksFollowSongs(DOMAIN cache[d], Pending(d))

CastsInv == SongsSent /\ SongsCome /\ SongsShow /\ CastsSucceed

(***************************************************************************)
(* What one adder makes of the queue.  The songs placed in a slot are      *)
(* those at the server and those that are written, told or known anywhere. *)
(* While one device adds all songs, and reads for one add at a time, no    *)
(* slot is given two songs, and no two slots next to each other the same   *)
(* song: what the adder reads has all slots that are used, and a waiting   *)
(* add knows the song in the last of them.                                 *)
(***************************************************************************)
OneAdder == \A a, b \in Adders : a = b
OneRead == \A d \in Devices : Len(adding[d]) <= 1
SoleAdder == MaxReads = 1 /\ OneAdder

SongWrites(ws) == {ws[k] : k \in {j \in DOMAIN ws : ws[j].song # NoSong}}
EntrySongs(q) == {SongAt(i, q[i].song) : i \in {j \in DOMAIN q : q[j].song # NoSong}}

SongsHeard(d) == EntrySongs(cache[d]) \cup SongWrites(Writes(inbox[d]))
PlacedBy(d) ==
    SongWrites(outbox[d]) \cup SongWrites(unacked[d])
        \cup (IF Listening(d) THEN SongsHeard(d) ELSE {})
Placed == EntrySongs(server) \cup UNION {PlacedBy(d) : d \in Devices}

OthersOnlyMark ==
    \A d \in Devices \ Adders :
        /\ adding[d] = << >>
        /\ SongWrites(outbox[d]) = {} /\ SongWrites(unacked[d]) = {}

AdderSeesAll == \A d \in Adders : DOMAIN server \subseteq Seen(d)

OneSongPerSlot == \A p, q \in Placed : p.slot = q.slot => p.song = q.song
NeighboursDiffer == \A p, q \in Placed : q.slot = p.slot + 1 => p.song # q.song

AddsAreFresh ==
    \A d \in Devices :
        /\ Len(adding[d]) <= 1
        /\ \A k \in DOMAIN adding[d] : \A p \in Placed :
              /\ p.slot < adding[d][k].size
              /\ p.slot = adding[d][k].size - 1 => p.song = adding[d][k].last

SoleAdderInv ==
    /\ OthersOnlyMark /\ AdderSeesAll
    /\ OneSongPerSlot /\ NeighboursDiffer
    /\ AddsAreFresh

\* While no connection is lost, no song is sent twice: a song under way is for a
\* slot that the server does not have, and that no write before it names.
AllNew(S, ws) ==
    \A k \in DOMAIN ws : ws[k].song # NoSong =>
        /\ ws[k].slot \notin S
        /\ \A j \in 1..(k - 1) : ws[j].slot # ws[k].slot

SongsAreNew == \A d \in Devices : AllNew(DOMAIN server, outbox[d])

(***************************************************************************)
(* "We don't allow the same song to be added directly after each other":   *)
(* no song stands next to itself in the queue at the server.               *)
(***************************************************************************)
NoAdjacentDuplicates ==
    \A i, j \in DOMAIN server :
        j = i + 1 /\ server[i].song # NoSong => server[i].song # server[j].song

(***************************************************************************)
(* A song that reached the queue at the server stays in its slot: addSong  *)
(* only ever adds after the last song.                                     *)
(***************************************************************************)
AddedSongStays ==
    [][\A i \in DOMAIN server :
          i \in DOMAIN server' /\ server'[i].song = server[i].song]_vars

=============================================================================

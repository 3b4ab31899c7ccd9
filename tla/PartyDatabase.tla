---------------------------- MODULE PartyDatabase ----------------------------
(***************************************************************************)
(* The "queue" node of one party in the Firebase Realtime Database, and    *)
(* what the client SDK in each device does with it: a device keeps a cache *)
(* of the node as the server last sent it, applies its own writes to its   *)
(* view at once, sends them in order, and goes on showing them over the    *)
(* server's data until the server acknowledges them.                       *)
(*                                                                         *)
(* The children of the node are numbered: slot i holds the i-th song.  A   *)
(* child that only ever received "played" has no song in it (NoSong).      *)
(***************************************************************************)
EXTENDS PartyTypes, Integers, Sequences, FiniteSets, FiniteSetsExt

CONSTANT MaxInFlight    \* bound: writes or messages under way on a connection

ASSUME DatabaseAssumption == MaxInFlight \in Nat

VARIABLES
    server,         \* the node at the server: a function from slots to entries
    cache,          \* cache[d]: the server's data as last delivered to d
    inbox,          \* inbox[d]: what the server has sent d and d has not received
    outbox,         \* outbox[d]: writes of d the server has not applied
    unacked,        \* unacked[d]: writes of d the server has applied and d does
                    \*   not know that it has
    observers       \* observers[d]: observers d has registered on the node

dbVars == <<server, cache, inbox, outbox, unacked, observers>>

Entry == [song : MaybeSongs, played : BOOLEAN]

\* setValue of a whole song at queue/slot, or, when there is no song, of TRUE
\* at queue/slot/played.
Write == [slot : Nat, song : MaybeSongs]
SongAt(i, s) == [slot |-> i, song |-> s]
PlayedAt(i) == [slot |-> i, song |-> NoSong]

\* A message to a device: a write the server has applied.  For the device that
\* made the write it is the acknowledgement.
Message == [write : Write, own : BOOLEAN]

EmptyQueue == [i \in {} |-> NoSong]
Fresh(s) == [song |-> s, played |-> FALSE]

Slots(ws) == {ws[k].slot : k \in DOMAIN ws}

(***************************************************************************)
(* A song written to a slot replaces all that was there, "played" too.     *)
(* "played" written to a slot leaves its song, if there is one.            *)
(***************************************************************************)
Put(q, w) ==
    [i \in DOMAIN q \cup {w.slot} |->
        IF i # w.slot THEN q[i]
        ELSE IF w.song # NoSong THEN Fresh(w.song)
        ELSE [song |-> IF i \in DOMAIN q THEN q[i].song ELSE NoSong,
              played |-> TRUE]]

(***************************************************************************)
(* The queue q seen under the pending writes ws: in every slot the last    *)
(* song written to it hides q's entry, and a later "played" shows.         *)
(***************************************************************************)
LastSongWrite(ws, i) ==
    Max({0} \cup {k \in DOMAIN ws : ws[k].slot = i /\ ws[k].song # NoSong})

Overlay(q, ws) ==
    [i \in DOMAIN q \cup Slots(ws) |->
        LET last == LastSongWrite(ws, i)
            base == IF last > 0 THEN Fresh(ws[last].song)
                    ELSE IF i \in DOMAIN q THEN q[i] ELSE Fresh(NoSong)
        IN [song |-> base.song,
            played |-> \/ base.played
                       \/ \E k \in DOMAIN ws :
                            k > last /\ ws[k].slot = i /\ ws[k].song = NoSong]]

\* The writes of device d that it does not know the server to have.
Pending(d) == unacked[d] \o outbox[d]
Listening(d) == observers[d] > 0

\* What the observers of device d see, and what a single read returns: from
\* the cache while there is an observer, else from the server.
View(d) == Overlay(cache[d], Pending(d))
ReadWithoutPending(d) == IF Listening(d) THEN cache[d] ELSE server  \* a mutant
ReadQueue(d) == IF Listening(d) THEN View(d) ELSE Overlay(server, Pending(d))

-----------------------------------------------------------------------------
DBInit ==
    /\ server = EmptyQueue
    /\ cache = [d \in Devices |-> EmptyQueue]
    /\ inbox = [d \in Devices |-> << >>]
    /\ outbox = [d \in Devices |-> << >>]
    /\ unacked = [d \in Devices |-> << >>]
    /\ observers = [d \in Devices |-> 0]

\* Device d writes: its own view changes at once, the server is told later.
SetValue(d, w) ==
    /\ Len(outbox[d]) < MaxInFlight
    /\ outbox' = [outbox EXCEPT ![d] = Append(@, w)]
    /\ UNCHANGED <<server, cache, inbox, unacked, observers>>

\* The server applies the oldest write of d and tells d and every listener.
ServerApply(d) ==
    /\ outbox[d] # << >>
    /\ \A e \in Devices : Len(inbox[e]) < MaxInFlight
    /\ LET w == Head(outbox[d])
       IN /\ server' = Put(server, w)
          /\ unacked' = [unacked EXCEPT ![d] = Append(@, w)]
          /\ inbox' = [e \in Devices |->
                         IF e = d \/ Listening(e)
                         THEN Append(inbox[e], [write |-> w, own |-> e = d])
                         ELSE inbox[e]]
    /\ outbox' = [outbox EXCEPT ![d] = Tail(@)]
    /\ UNCHANGED <<cache, observers>>

\* Device d receives the oldest message.  An acknowledgement answers the oldest
\* write that has none.
Deliver(d) ==
    /\ inbox[d] # << >>
    /\ LET m == Head(inbox[d])
       IN /\ m.own => unacked[d] # << >> /\ Head(unacked[d]) = m.write
          /\ cache' = [cache EXCEPT ![d] =
                         IF Listening(d) THEN Put(@, m.write) ELSE @]
          /\ unacked' = [unacked EXCEPT ![d] = IF m.own THEN Tail(@) ELSE @]
    /\ inbox' = [inbox EXCEPT ![d] = Tail(@)]
    /\ UNCHANGED <<server, outbox, observers>>

\* One more observer in device d.  The first one makes the SDK listen: the
\* server sends the node, and acknowledgements on the way come before it.
Observe(d) ==
    /\ observers' = [observers EXCEPT ![d] = @ + 1]
    /\ IF Listening(d)
       THEN UNCHANGED <<cache, inbox, unacked>>
       ELSE /\ cache' = [cache EXCEPT ![d] = server]
            /\ inbox' = [inbox EXCEPT ![d] = << >>]
            /\ unacked' = [unacked EXCEPT ![d] = << >>]
    /\ UNCHANGED <<server, outbox>>

\* Two mutants of Reconnect: the writes are not sent again, and they are sent
\* again without sorting them.
ReconnectWithoutWrites(d) ==
    /\ cache' = [cache EXCEPT ![d] = IF Listening(d) THEN server ELSE @]
    /\ inbox' = [inbox EXCEPT ![d] = << >>]
    /\ outbox' = [outbox EXCEPT ![d] = << >>]
    /\ unacked' = [unacked EXCEPT ![d] = << >>]
    /\ UNCHANGED <<server, observers>>

ReconnectUnsorted(d) ==
    /\ cache' = [cache EXCEPT ![d] = IF Listening(d) THEN server ELSE @]
    /\ inbox' = [inbox EXCEPT ![d] = << >>]
    /\ LET last == Len(Pending(d))
       IN outbox' = [outbox EXCEPT ![d] = [k \in 1..last |-> Pending(d)[last + 1 - k]]]
    /\ unacked' = [unacked EXCEPT ![d] = << >>]
    /\ UNCHANGED <<server, observers>>

\* Device d loses its connection and reconnects: what was on the way to it is
\* lost, it listens anew and sends every write without an acknowledgement again,
\* those the server has applied too.
Reconnect(d) ==
    /\ cache' = [cache EXCEPT ![d] = IF Listening(d) THEN server ELSE @]
    /\ inbox' = [inbox EXCEPT ![d] = << >>]
    /\ outbox' = [outbox EXCEPT ![d] = Pending(d)]
    /\ unacked' = [unacked EXCEPT ![d] = << >>]
    /\ UNCHANGED <<server, observers>>

\* The app of device d dies: the SDK keeps nothing on disk.
Forget(d) ==
    /\ cache' = [cache EXCEPT ![d] = EmptyQueue]
    /\ inbox' = [inbox EXCEPT ![d] = << >>]
    /\ outbox' = [outbox EXCEPT ![d] = << >>]
    /\ unacked' = [unacked EXCEPT ![d] = << >>]
    /\ observers' = [observers EXCEPT ![d] = 0]
    /\ UNCHANGED server

-----------------------------------------------------------------------------
IsQueue(q) ==
    /\ DOMAIN q \subseteq Nat
    /\ q = [i \in DOMAIN q |-> q[i]]
    /\ \A i \in DOMAIN q : q[i] \in Entry

DBTypeOK ==
    /\ IsQueue(server)
    /\ DOMAIN cache = Devices
    /\ \A d \in Devices : IsQueue(cache[d])
    /\ inbox \in [Devices -> Seq(Message)]
    /\ outbox \in [Devices -> Seq(Write)]
    /\ unacked \in [Devices -> Seq(Write)]
    /\ observers \in [Devices -> Nat]

=============================================================================

---------------------------- MODULE PlaylistImport ----------------------------
(***************************************************************************)
(* Adding songs of a playlist to the party: addSongs of the Datastore, and *)
(* didTapAddToPlaylist, which calls it.  Half a second after it is called, *)
(* addSongs adds the first of its songs, and calls itself with the others  *)
(* from the completion of that addSong.  Nothing but the timer and the     *)
(* completion holds the songs; meanwhile the user is back in the party and *)
(* may add songs from the search.                                          *)
(***************************************************************************)
EXTENDS Datastore, SequencesExt

CONSTANT Playlist       \* the songs of the playlist that is shown

ASSUME PlaylistAssumption == Playlist \in Seq(Songs)

VARIABLES
    importing,      \* importing[d]: the songs of the addSongs under way, the one
                    \*   that is being added included
    due,            \* due[d]: place in adding[d] of the add whose completion goes
                    \*   on with the songs; 0 while the timer runs
    selected,       \* selected[d]: the songs of the last import, kept for the
                    \*   properties until the app dies
    crossed         \* crossed[d]: a tap's read of the queue was under way together
                    \*   with one of that import, kept for the properties

importVars == <<vars, importing, due, selected, crossed>>
history == <<selected, crossed>>

\* The songs of the selected rows, in the order in which the set of their indices
\* is enumerated: Swift promises none.
SongsToQueue(indices) == {[k \in DOMAIN p |-> Playlist[p[k]]] : p \in SetToSeqs(indices)}

\* The songs in the queue, and those on their way to it.
QueueLength(d) == Cardinality(DOMAIN ReadQueue(d)) + Len(adding[d])

-----------------------------------------------------------------------------
ImportInit ==
    /\ Init
    /\ importing = [d \in Devices |-> << >>]
    /\ due = [d \in Devices |-> 0]
    /\ selected = [d \in Devices |-> << >>]
    /\ crossed = [d \in Devices |-> FALSE]

\* didTapAddToPlaylist: at least one row is selected.  Bounded: one import of a
\* device at a time, one that fits in the queue, and when its timer need not wait
\* for room among the reads.
DidTapAddToPlaylist(d, indices) ==
    /\ d \in Adders
    /\ indices # {} /\ importing[d] = << >> /\ Len(adding[d]) < MaxReads
    /\ QueueLength(d) + Cardinality(indices) <= MaxQueue
    /\ \E songs \in SongsToQueue(indices) :
          /\ importing' = [importing EXCEPT ![d] = songs]
          /\ selected' = [selected EXCEPT ![d] = songs]
          /\ crossed' = [crossed EXCEPT ![d] = FALSE]
    /\ UNCHANGED <<vars, due>>

\* addSongs, when its timer fires: the first song is added, though reads of taps may
\* be under way.
AddSongs(d) ==
    /\ importing[d] # << >> /\ due[d] = 0
    /\ AddSong(d, Head(importing[d]))
    /\ due' = [due EXCEPT ![d] = Len(adding[d]) + 1]
    /\ crossed' = [crossed EXCEPT ![d] = @ \/ adding[d] # << >>]
    /\ UNCHANGED <<importing, selected>>

\* The end of the callback of addSong: its completion, for an add of addSongs.
CompleteOnStore(d, stored) ==                                       \* a mutant
    /\ importing' = [importing EXCEPT ![d] = IF due[d] = 1 /\ stored THEN Tail(@) ELSE @]
    /\ due' = [due EXCEPT ![d] = IF stored THEN Max({0, @ - 1}) ELSE @]
    /\ UNCHANGED history

Complete(d, stored) ==
    /\ importing' = [importing EXCEPT ![d] = IF due[d] = 1 THEN Tail(@) ELSE @]
    /\ due' = [due EXCEPT ![d] = Max({0, @ - 1})]
    /\ UNCHANGED history

AddSongCallback(d) ==
    \/ RefuseDuplicate(d) /\ Complete(d, FALSE)
    \/ StoreSong(d) /\ Complete(d, TRUE)

\* A tap on a result of the search, at any moment of an import.  Bounded: room is
\* left for the import, in the queue and among the reads, so that its timer waits
\* for no tap.
TapSong(d, song) ==
    /\ QueueLength(d) + Len(importing[d]) < MaxQueue
    /\ importing[d] # << >> /\ due[d] = 0 => Len(adding[d]) + 1 < MaxReads
    /\ AddSong(d, song)
    /\ crossed' = [crossed EXCEPT ![d] = @ \/ due[d] > 0]
    /\ UNCHANGED <<importing, due, selected>>

\* The app dies, and nothing of the import is kept.
RestartApp(d) ==
    /\ Restart(d)
    /\ importing' = [importing EXCEPT ![d] = << >>]
    /\ due' = [due EXCEPT ![d] = 0]
    /\ selected' = [selected EXCEPT ![d] = << >>]
    /\ crossed' = [crossed EXCEPT ![d] = FALSE]

\* The network, and what the rest of the app does.  A player marks a slot once.
Network(d) ==
    /\ Transmit(d) \/ Receive(d)
    /\ UNCHANGED <<importing, due, history>>

Others(d) ==
    /\ \/ ~Listening(d) /\ SubscribeToUpdates(d)
       \/ \E i \in DOMAIN View(d) : Listening(d) /\ ~View(d)[i].played /\ DidFinish(d, i)
       \/ LoseConnection(d)
    /\ UNCHANGED <<importing, due, history>>

ImportNext ==
    \E d \in Devices :
        \/ \E indices \in SUBSET DOMAIN Playlist : DidTapAddToPlaylist(d, indices)
        \/ \E song \in Songs : TapSong(d, song)
        \/ AddSongs(d) \/ AddSongCallback(d) \/ RestartApp(d)
        \/ Network(d) \/ Others(d)

(***************************************************************************)
(* Timers fire, reads are answered, and a connection carries messages in   *)
(* the end.  No user need do anything, nor any fault happen.               *)
(***************************************************************************)
ImportFairness ==
    /\ \A d \in Adders : WF_importVars(AddSongs(d)) /\ WF_importVars(AddSongCallback(d))
    /\ \A d \in Devices : WF_importVars(Network(d))

ImportSpec == ImportInit /\ [][ImportNext]_importVars
FairImportSpec == ImportSpec /\ ImportFairness

-----------------------------------------------------------------------------
(***************************************************************************)
(* Every variable of the import holds values of its kind.                  *)
(***************************************************************************)
ImportTypeOK ==
    /\ TypeOK
    /\ importing \in [Devices -> Seq(Songs)]
    /\ \A d \in Devices :
          /\ IsSuffix(importing[d], selected[d])
          /\ due[d] \in 0..Len(adding[d])
          /\ due[d] > 0 => importing[d] # << >>
    /\ crossed \in [Devices -> BOOLEAN]

\* A sequence of songs without those that repeat the one before them, and whether
\* one sequence is what is left of another when some of its elements are dropped.
WithoutRepeats(songs) ==
    FoldLeft(LAMBDA kept, song :
                IF kept # << >> /\ Last(kept) = song THEN kept ELSE Append(kept, song),
             << >>, songs)

IsWithin(short, long) ==
    FoldLeft(LAMBDA rest, song :
                IF rest # << >> /\ Head(rest) = song THEN Tail(rest) ELSE rest,
             short, long) = << >>

SongsOf(q) == [k \in 1..Cardinality(DOMAIN q) |-> q[k - 1].song]

(***************************************************************************)
(* The songs an import has added so far are in the queue, or on their way  *)
(* to it, in the order in which they were taken, with the user's songs     *)
(* between them and however often writes are sent: the next read knows the *)
(* song written before it, though addSongs waits for no write.  A song is  *)
(* left out only next to itself.  Excepted are imports one of whose reads  *)
(* was under way together with that of a tap: both then write to the same  *)
(* slot, and the later one takes it.                                       *)
(***************************************************************************)
ImportKeepsOrder ==
    \A d \in Devices :
        LET added == SubSeq(selected[d], 1, Len(selected[d]) - Len(importing[d]))
        IN crossed[d] \/ IsWithin(WithoutRepeats(added), SongsOf(Overlay(server, Pending(d))))

(***************************************************************************)
(* An import ends, unless its app does, though duplicates are refused,     *)
(* taps read the queue at the same time and connections are lost: no song  *)
(* waits for good.  And when its reads were alone, all of its songs are    *)
(* then in the queue at the server in the end, in order.                   *)
(***************************************************************************)
ImportArrives ==
    \A d \in Adders :
        importing[d] # << >> ~>
            \/ selected[d] = << >>
            \/ /\ importing[d] = << >>
               /\ crossed[d] \/ IsWithin(WithoutRepeats(selected[d]), SongsOf(server))

=============================================================================

------------------------------ MODULE SongSearch ------------------------------
(***************************************************************************)
(* The search of songs: SongSearchViewController with its SongSearchField, *)
(* the searches kept by SearchCacher, and the answers of the Autocompleter *)
(* and of the music provider.  Answers are handled on a thread of the      *)
(* network, in any order, or never: they replace the data at once, the     *)
(* table is reloaded later, on the main thread, and a tap, at any moment,  *)
(* looks up the data by the number of its row.                             *)
(***************************************************************************)
EXTENDS Integers, Sequences, SequencesExt

CONSTANTS
    Queries,        \* texts that can be typed and searched for
    Sendable,       \* those a URL can be made of
    NoText,         \* the empty text
    Hints,          \* Hints[q]: the queries suggested for q
    Results,        \* Results[q]: the songs found for q
    UserPlaylists,  \* the playlists of the user
    MaxPending,     \* bound: searches sent and not answered
    MaxHints,       \* bound: hints asked for and not answered
    MaxSearches     \* bound: searches in all

ASSUME SearchAssumption ==
    /\ NoText \notin Queries /\ Sendable \subseteq Queries
    /\ Hints \in [Queries -> Seq(Queries)]
    /\ DOMAIN Results = Queries
    /\ MaxPending \in Nat \ {0} /\ MaxHints \in Nat /\ MaxSearches \in Nat

VARIABLES
    open,           \* the search is shown
    provider,       \* the streaming service of its party
    state,          \* the SearchState
    text,           \* what the search field holds
    recentSearches, playlists, autocomplete, searchResults,     \* the data
    rows,           \* what the rows of the table show
    reloadDue,      \* a reload of the table waits on the main queue
    searches,       \* queries the provider has not answered, oldest first
    hints,          \* queries the Autocompleter has not answered, oldest first
    stored,         \* the searches stored on the phone
    asked,          \* all searches ever, kept for the properties
    answered        \* songs have come since the last of them was asked for, kept
                    \*   for the properties

data == <<recentSearches, playlists, autocomplete, searchResults>>
network == <<searches, hints>>
history == <<asked, answered>>
searchVars == <<open, provider, state, text, data, rows, reloadDue, network, stored, history>>

\* The rows of the table in a state, given its data.  In the standard state they
\* are two sections, one after the other.
Rows(st, recent, lists, suggested, found) ==
    CASE st = "standard" -> recent \o lists
      [] st = "autocomplete" -> suggested
      [] st = "results" -> found

ReloadData == rows' = Rows(state', recentSearches', playlists', autocomplete', searchResults')

\* SearchCacher: the last three searches, the latest first.
CacheFour(song) ==                                                  \* a mutant
    stored' = Append(IF Len(stored) > 3 THEN Tail(stored) ELSE stored, song)
Cache(song) ==
    stored' = Append(IF Len(stored) >= 3 THEN Tail(stored) ELSE stored, song)
GetLastThree == Reverse(stored)

-----------------------------------------------------------------------------
Init ==
    /\ open = FALSE /\ provider \in {"spotify", "appleMusic"}
    /\ state = "standard" /\ text = NoText
    /\ recentSearches = << >> /\ playlists = << >>
    /\ autocomplete = << >> /\ searchResults = << >>
    /\ rows = << >> /\ reloadDue = FALSE
    /\ searches = << >> /\ hints = << >>
    /\ stored = << >> /\ asked = << >> /\ answered = FALSE

\* viewDidLoad.  The table loads its rows when it is shown.
OpenSearch ==
    /\ ~open
    /\ open' = TRUE
    /\ recentSearches' = GetLastThree
    /\ UNCHANGED <<provider, state, text, playlists, autocomplete, searchResults, reloadDue,
                   network, stored, history>>
    /\ ReloadData

\* The search is left, or the app traps; answers that are still to come change
\* nothing that is shown.  The next search is of any party.
Leave ==
    /\ open' = FALSE /\ provider' \in {"spotify", "appleMusic"}
    /\ state' = "standard" /\ text' = NoText
    /\ recentSearches' = << >> /\ playlists' = << >>
    /\ autocomplete' = << >> /\ searchResults' = << >>
    /\ rows' = << >> /\ reloadDue' = FALSE
    /\ searches' = << >> /\ hints' = << >>

BackArrow ==
    /\ open
    /\ Leave
    /\ UNCHANGED <<stored, history>>

\* didCancelSearch, by the clear button or by deleting all text.
CancelWithoutReload ==                                                 \* a mutant
    /\ open /\ text # NoText
    /\ text' = NoText
    /\ state' = "standard" /\ searchResults' = << >>
    /\ recentSearches' = GetLastThree
    /\ UNCHANGED <<open, provider, playlists, autocomplete, rows, reloadDue, network,
                   stored, history>>

DidCancelSearch ==
    /\ open /\ text # NoText
    /\ text' = NoText
    /\ state' = "standard" /\ searchResults' = << >>
    /\ recentSearches' = GetLastThree
    /\ UNCHANGED <<open, provider, playlists, autocomplete, reloadDue, network, stored,
                   history>>
    /\ ReloadData

\* textFieldDidChange: didStartSearching, and hints are asked for.  A text that
\* makes no URL traps in the Autocompleter, whatever the provider.
TypeText(query) ==
    /\ open /\ text # query /\ query \in Sendable
    /\ Len(hints) < MaxHints
    /\ text' = query
    /\ state' = "autocomplete"
    /\ hints' = Append(hints, query)
    /\ UNCHANGED <<open, provider, data, reloadDue, searches, stored, history>>
    /\ ReloadData

TypingTraps ==
    /\ open /\ Queries # Sendable
    /\ Leave
    /\ UNCHANGED <<stored, history>>

\* didRequestSearch(query): the query is cached, then sent to the provider.  Of a
\* text that makes no URL, Spotify sends nothing and calls nothing back, and Apple
\* Music traps.
Ask(query) ==
    /\ Len(asked) < MaxSearches
    /\ Cache(query)
    /\ asked' = Append(asked, query)

\* The state changes; the table does not.
DidRequestSearch(query) ==
    /\ query \in Sendable \/ provider = "spotify"
    /\ Len(searches) < MaxPending
    /\ Ask(query)
    /\ state' = "results"
    /\ searches' = IF query \in Sendable THEN Append(searches, query) ELSE searches
    /\ answered' = FALSE
    /\ UNCHANGED <<open, provider, data, hints, reloadDue>>

SearchTraps(query) ==
    /\ query \notin Sendable /\ provider = "appleMusic"
    /\ Ask(query)
    /\ Leave
    /\ UNCHANGED answered

\* A text that does not trap when it is typed or tapped does not trap here.
TapReturn ==
    /\ open /\ text # NoText
    /\ DidRequestSearch(text)
    /\ UNCHANGED <<text, rows>>

-----------------------------------------------------------------------------
(***************************************************************************)
(* Answers to searches, in any order.  A search that fails shows an alert; *)
(* an answer that is JSON but no object calls nothing back.  Neither       *)
(* changes anything else.                                                  *)
(***************************************************************************)
Answer(k) ==
    /\ k \in DOMAIN searches
    /\ searches' = RemoveAt(searches, k)
    /\ UNCHANGED <<open, provider, state, text, recentSearches, playlists, autocomplete,
                   rows, hints, stored, asked>>

FoundQuietly(k) ==                                                  \* a mutant
    /\ Answer(k)
    /\ searchResults' = Results[searches[k]]
    /\ answered' = TRUE
    /\ UNCHANGED reloadDue

Found(k) ==
    /\ Answer(k)
    /\ searchResults' = Results[searches[k]]
    /\ reloadDue' = TRUE
    /\ answered' = TRUE

NothingFound(k) ==
    /\ Answer(k)
    /\ UNCHANGED <<searchResults, reloadDue, answered>>

\* Hints come, in any order; hints that failed are none, and an answer without
\* terms calls nothing back.
Suggested(k) ==
    /\ k \in DOMAIN hints
    /\ hints' = RemoveAt(hints, k)
    /\ \/ /\ \E suggestions \in {Hints[hints[k]], << >>} : autocomplete' = suggestions
          /\ reloadDue' = TRUE
       \/ UNCHANGED <<autocomplete, reloadDue>>
    /\ UNCHANGED <<open, provider, state, text, recentSearches, playlists, searchResults,
                   rows, searches, stored, history>>

PlaylistsCome ==
    /\ open /\ playlists = << >> /\ playlists' = UserPlaylists
    /\ reloadDue' = TRUE
    /\ UNCHANGED <<open, provider, state, text, recentSearches, autocomplete,
                   searchResults, rows, network, stored, history>>

\* The reload on the main queue; the picture of a song that has come reloads too.
Reload ==
    /\ reloadDue \/ searchResults # << >>
    /\ reloadDue' = FALSE
    /\ UNCHANGED <<open, provider, state, text, data, network, stored, history>>
    /\ ReloadData

-----------------------------------------------------------------------------
(***************************************************************************)
(* didSelectRowAt: the row is looked up in the data of the state, whatever *)
(* the table shows.                                                        *)
(***************************************************************************)
Trap == << >>

LookUp(i) ==
    LET now == Rows(state, recentSearches, playlists, autocomplete, searchResults)
    IN IF i \in DOMAIN now THEN <<now[i]>> ELSE Trap

CanTap(i) == open /\ i \in DOMAIN rows

\* A song is added to the party and the search is left; or the app traps, in any
\* state, on a row that the data does not have.
TapSong(i) ==
    /\ CanTap(i) /\ (state = "results" \/ LookUp(i) = Trap)
    /\ Leave
    /\ UNCHANGED <<stored, history>>

\* A suggested or a recent search is searched for.
TapQuery(i) ==
    /\ CanTap(i) /\ state # "results"
    /\ LookUp(i) \in {<<q>> : q \in Queries}
    /\ \/ /\ DidRequestSearch(LookUp(i)[1])
          /\ text' = LookUp(i)[1]
          /\ ReloadData
       \/ SearchTraps(LookUp(i)[1])

\* A playlist is opened, and the user comes back from it.
TapPlaylist(i) ==
    /\ CanTap(i) /\ state = "standard"
    /\ LookUp(i) \in {<<p>> : p \in Range(UserPlaylists)}
    /\ UNCHANGED searchVars

Next ==
    \/ OpenSearch \/ BackArrow
    \/ DidCancelSearch \/ TapReturn
    \/ \E q \in Queries : TypeText(q)
    \/ TypingTraps
    \/ \E k \in 1..MaxPending : Found(k) \/ NothingFound(k)
    \/ \E k \in 1..MaxHints : Suggested(k)
    \/ PlaylistsCome \/ Reload
    \/ \E i \in DOMAIN rows : TapSong(i) \/ TapQuery(i) \/ TapPlaylist(i)

(***************************************************************************)
(* The main queue runs what waits on it.  No answer is promised.           *)
(***************************************************************************)
Fairness == WF_searchVars(reloadDue /\ Reload)

Spec == Init /\ [][Next]_searchVars /\ Fairness

-----------------------------------------------------------------------------
(***************************************************************************)
(* Every variable holds values of its kind: the rows of a table are of one *)
(* kind, and what waits is within its bounds.                              *)
(***************************************************************************)
SearchTypeOK ==
    /\ open \in BOOLEAN /\ reloadDue \in BOOLEAN /\ answered \in BOOLEAN
    /\ provider \in {"spotify", "appleMusic"}
    /\ state \in {"standard", "autocomplete", "results"}
    /\ text \in Queries \cup {NoText}
    /\ recentSearches \in Seq(Queries) /\ Len(recentSearches) <= 3
    /\ playlists \in {<< >>, UserPlaylists}
    /\ autocomplete \in {<< >>} \cup Range(Hints)
    /\ searchResults \in {<< >>} \cup Range(Results)
    /\ searches \in Seq(Sendable) /\ hints \in Seq(Sendable)
    /\ ~open => rows = << >> /\ text = NoText

(***************************************************************************)
(* When a tap may take something else than its row shows, or trap: only    *)
(* while a reload waits on the main queue, and from the moment a search is *)
(* asked for until songs come, of this search or of an earlier one.  At    *)
(* all other times the song that is added, the search or the playlist that *)
(* is opened is the one the row shows, also with older searches, hints and *)
(* playlists still to come, and after a cancel.                            *)
(***************************************************************************)
Stale == reloadDue \/ (state = "results" /\ ~answered)

TapTakesTheRow == \A i \in DOMAIN rows : open /\ ~Stale => LookUp(i) = <<rows[i]>>

(***************************************************************************)
(* getLastThree: the stored searches are the last three there ever were,   *)
(* those of which nothing was sent and those that trapped included.        *)
(***************************************************************************)
StoredAreLastThree ==
    stored = SubSeq(asked, IF Len(asked) > 3 THEN Len(asked) - 2 ELSE 1, Len(asked))

(***************************************************************************)
(* Songs that have come, on the thread of the network, are shown in the    *)
(* end, unless the user turns to something else.  That songs come, or the  *)
(* songs of the latest search last, the code does not promise.             *)
(***************************************************************************)
AnswersAreShown ==
    open /\ state = "results" /\ answered
        ~> rows = searchResults \/ ~open \/ state # "results" \/ ~answered

=============================================================================

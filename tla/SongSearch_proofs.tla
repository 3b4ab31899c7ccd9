-------------------------- MODULE SongSearch_proofs --------------------------
(***************************************************************************)
(* Proofs about SongSearch: its type invariant, that the stored searches   *)
(* are the last three, and when a tap may take something else than the row *)
(* it is on, for any queries, hints, results, bounds and order of answers. *)
(***************************************************************************)
EXTENDS SongSearch, SequenceTheorems, TLAPS

-----------------------------------------------------------------------------
(***************************************************************************)
(* Sequences.                                                              *)
(***************************************************************************)

\* A part of a sequence.
LEMMA PartOfSeq ==
  ASSUME NEW S, NEW s \in Seq(S), NEW from \in 1..Len(s) + 1, NEW to \in Nat,
         to <= Len(s), from <= to + 1
  PROVE  /\ SubSeq(s, from, to) \in Seq(S)
         /\ Len(SubSeq(s, from, to)) = to - from + 1
         /\ \A i \in 1..to - from + 1 : SubSeq(s, from, to)[i] = s[from + i - 1]
<1>1. Len(s) \in Nat
  BY LenProperties
<1>2. from \in Int /\ to \in Int
  BY <1>1
<1>3. \A i \in from..to : s[i] \in S
  BY <1>1, ElementOfSeq
<1>4. /\ SubSeq(s, from, to) \in Seq(S)
      /\ Len(SubSeq(s, from, to)) = IF from <= to THEN to - from + 1 ELSE 0
      /\ \A i \in 1..to - from + 1 : SubSeq(s, from, to)[i] = s[from + i - 1]
  BY <1>2, <1>3, SubSeqProperties
<1>. QED BY <1>2, <1>4

\* Removing the element at k.
LEMMA RemoveAtSeq ==
  ASSUME NEW S, NEW s \in Seq(S), NEW k \in DOMAIN s
  PROVE  RemoveAt(s, k) \in Seq(S)
<1>1. k \in 1..Len(s) /\ Len(s) \in Nat
  BY LenProperties
<1>2. SubSeq(s, 1, k - 1) \in Seq(S)
  BY <1>1, PartOfSeq
<1>3. SubSeq(s, k + 1, Len(s)) \in Seq(S)
  BY <1>1, PartOfSeq
<1>. QED BY <1>2, <1>3, ConcatProperties DEF RemoveAt

\* Appending an element.
LEMMA AppendSeq ==
  ASSUME NEW S, NEW s \in Seq(S), NEW e \in S
  PROVE  Append(s, e) \in Seq(S)
OBVIOUS

\* The last three of a sequence.
First(s) == IF Len(s) > 3 THEN Len(s) - 2 ELSE 1
LastThree(s) == SubSeq(s, First(s), Len(s))

LEMMA LastThreeProperties ==
  ASSUME NEW S, NEW s \in Seq(S)
  PROVE  /\ LastThree(s) \in Seq(S)
         /\ Len(LastThree(s)) = Len(s) - First(s) + 1
         /\ Len(LastThree(s)) <= 3
         /\ \A i \in 1..Len(s) - First(s) + 1 : LastThree(s)[i] = s[First(s) + i - 1]
<1>1. Len(s) \in Nat
  BY LenProperties
<1>2. First(s) \in 1..Len(s) + 1 /\ Len(s) - First(s) + 1 <= 3
  BY <1>1 DEF First
<1>. QED BY <1>1, <1>2, PartOfSeq DEF LastThree

\* What has one more element than s ends with one more element than s ends with.
LEMMA LastThreeGrows ==
  ASSUME NEW S, NEW s \in Seq(S), NEW a \in Seq(S), NEW n \in Nat, NEW m \in Nat,
         m = n + 1, Len(s) = n, Len(a) = m, \A i \in 1..n : a[i] = s[i]
  PROVE  /\ n >= 3 => /\ Len(LastThree(s)) = 3 /\ Len(LastThree(a)) = 3
                      /\ LastThree(a)[1] = LastThree(s)[2]
                      /\ LastThree(a)[2] = LastThree(s)[3]
                      /\ LastThree(a)[3] = a[n + 1]
         /\ n < 3 => LastThree(s) = s /\ LastThree(a) = a
<1>1. /\ LastThree(a) \in Seq(S) /\ Len(LastThree(a)) = m - First(a) + 1
      /\ \A i \in 1..m - First(a) + 1 : LastThree(a)[i] = a[First(a) + i - 1]
  <2>1. /\ LastThree(a) \in Seq(S) /\ Len(LastThree(a)) = Len(a) - First(a) + 1
        /\ \A i \in 1..Len(a) - First(a) + 1 : LastThree(a)[i] = a[First(a) + i - 1]
    BY LastThreeProperties
  <2>. QED BY <2>1, Zenon
<1>2. /\ LastThree(s) \in Seq(S) /\ Len(LastThree(s)) = n - First(s) + 1
      /\ \A i \in 1..n - First(s) + 1 : LastThree(s)[i] = s[First(s) + i - 1]
  <2>1. /\ LastThree(s) \in Seq(S) /\ Len(LastThree(s)) = Len(s) - First(s) + 1
        /\ \A i \in 1..Len(s) - First(s) + 1 : LastThree(s)[i] = s[First(s) + i - 1]
    BY LastThreeProperties
  <2>. QED BY <2>1, Zenon
<1>3. First(a) = (IF m > 3 THEN m - 2 ELSE 1) /\ First(s) = (IF n > 3 THEN n - 2 ELSE 1)
  BY DEF First
<1>4. ASSUME n >= 3
      PROVE  /\ Len(LastThree(s)) = 3 /\ Len(LastThree(a)) = 3
             /\ LastThree(a)[1] = LastThree(s)[2] /\ LastThree(a)[2] = LastThree(s)[3]
             /\ LastThree(a)[3] = a[n + 1]
  <2>1. First(a) = n - 1 /\ First(s) = n - 2
    BY <1>3, <1>4
  <2>2. /\ Len(LastThree(a)) = 3
        /\ LastThree(a)[1] = a[n - 1] /\ LastThree(a)[2] = a[n]
        /\ LastThree(a)[3] = a[n + 1]
    <3>1. m - First(a) + 1 = 3
      BY <2>1
    <3>2. \A i \in 1..3 : LastThree(a)[i] = a[n - 1 + i - 1]
      BY <1>1, <2>1, <3>1, Zenon
    <3>. QED BY <1>1, <3>1, <3>2
  <2>3. /\ Len(LastThree(s)) = 3
        /\ LastThree(s)[2] = s[n - 1] /\ LastThree(s)[3] = s[n]
    BY <1>2, <2>1
  <2>4. n - 1 \in 1..n /\ n \in 1..n
    BY <1>4
  <2>. QED BY <2>2, <2>3, <2>4
<1>5. ASSUME n < 3
      PROVE  LastThree(s) = s /\ LastThree(a) = a
  <2>1. First(a) = 1 /\ First(s) = 1
    BY <1>3, <1>5
  <2>2. LastThree(s) = s
    BY <1>2, <2>1, SeqEqual
  <2>3. LastThree(a) = a
    BY <1>1, <2>1, SeqEqual
  <2>. QED BY <2>2, <2>3
<1>. QED BY <1>4, <1>5

\* Three elements of which the first goes and one comes.
LEMMA NextThree ==
  ASSUME NEW S, NEW l \in Seq(S), NEW b \in Seq(S), NEW e \in S,
         Len(l) = 3, Len(b) = 3, b[1] = l[2], b[2] = l[3], b[3] = e
  PROVE  b = Append(Tail(l), e)
<1>1. l # << >>
  OBVIOUS
<1>2. PICK t \in Seq(S) : t = Tail(l) /\ Len(t) = 2 /\ t[1] = l[2] /\ t[2] = l[3]
  <2>1. /\ Tail(l) \in Seq(S) /\ Len(Tail(l)) = 2
        /\ \A i \in 1..Len(Tail(l)) : Tail(l)[i] = l[i + 1]
    BY <1>1, HeadTailProperties
  <2>2. Tail(l)[1] = l[2] /\ Tail(l)[2] = l[3]
    BY <2>1
  <2>. QED BY <2>1, <2>2
<1>3. PICK c \in Seq(S) : c = Append(t, e)
  BY AppendProperties
<1>4. Len(c) = 3 /\ c[1] = t[1] /\ c[2] = t[2] /\ c[3] = e
  <2>1. /\ Len(c) = Len(t) + 1 /\ (\A i \in 1..Len(t) : c[i] = t[i])
        /\ c[Len(t) + 1] = e
    BY <1>3, AppendProperties
  <2>2. Len(t) = 2
    BY <1>2
  <2>. QED BY <2>1, <2>2
<1>5. b[1] = c[1] /\ b[2] = c[2] /\ b[3] = c[3]
  BY <1>2, <1>4, Zenon
<1>6. b = c
  <2>1. \A i \in 1..3 : i = 1 \/ i = 2 \/ i = 3
    OBVIOUS
  <2>2. \A i \in 1..3 : b[i] = c[i]
    BY <1>5, <2>1, Zenon
  <2>. QED BY <1>4, <2>2, SeqEqual
<1>. QED BY <1>2, <1>3, <1>6

\* Appending to a sequence appends to its last three and drops the oldest of three.
LEMMA LastThreeOfAppend ==
  ASSUME NEW S, NEW s \in Seq(S), NEW e \in S
  PROVE  LastThree(Append(s, e)) =
           Append(IF Len(LastThree(s)) >= 3 THEN Tail(LastThree(s)) ELSE LastThree(s), e)
<1>1. PICK n \in Nat : n = Len(s)
  BY LenProperties
<1>2. PICK a \in Seq(S) : a = Append(s, e)
  BY AppendProperties
<1>3. Len(a) = n + 1 /\ (\A i \in 1..n : a[i] = s[i]) /\ a[n + 1] = e
  <2>1. /\ Len(a) = Len(s) + 1 /\ (\A i \in 1..Len(s) : a[i] = s[i])
        /\ a[Len(s) + 1] = e
    BY <1>2, AppendProperties
  <2>. QED BY <1>1, <2>1, Zenon
<1>4. LastThree(s) \in Seq(S) /\ LastThree(a) \in Seq(S)
  BY LastThreeProperties
<1>5. CASE n >= 3
  <2>1. /\ Len(LastThree(s)) = 3 /\ Len(LastThree(a)) = 3
        /\ LastThree(a)[1] = LastThree(s)[2] /\ LastThree(a)[2] = LastThree(s)[3]
        /\ LastThree(a)[3] = e
    BY <1>1, <1>3, <1>5, LastThreeGrows
  <2>2. LastThree(a) = Append(Tail(LastThree(s)), e)
    BY <1>4, <2>1, NextThree
  <2>. QED BY <1>2, <2>1, <2>2
<1>6. CASE n < 3
  <2>1. LastThree(s) = s /\ LastThree(a) = a
    BY <1>1, <1>3, <1>6, LastThreeGrows
  <2>2. ~(Len(LastThree(s)) >= 3)
    BY <1>1, <1>6, <2>1
  <2>. QED BY <1>2, <2>1, <2>2
<1>. QED BY <1>5, <1>6

\* A sequence in the reverse order.
LEMMA ReverseSeq ==
  ASSUME NEW S, NEW s \in Seq(S)
  PROVE  Reverse(s) \in Seq(S) /\ Len(Reverse(s)) = Len(s)
BY DEF Reverse

-----------------------------------------------------------------------------
(***************************************************************************)
(* Types, and the searches stored.                                         *)
(***************************************************************************)

\* Nothing waits for a search that was left.
ClosedIsIdle ==
    ~open => /\ text = NoText /\ rows = << >> /\ searchResults = << >> /\ ~reloadDue
             /\ searches = << >> /\ hints = << >> /\ state = "standard"

HistoryTypeOK == stored \in Seq(Queries) /\ asked \in Seq(Queries)

TypeInv == SearchTypeOK /\ HistoryTypeOK /\ StoredAreLastThree /\ ClosedIsIdle

LEMMA StoredIsLastThree == StoredAreLastThree <=> stored = LastThree(asked)
BY DEF StoredAreLastThree, LastThree, First

\* What is cached is a query: the stored searches stay the last three of all.
LEMMA CacheStep ==
  ASSUME HistoryTypeOK, StoredAreLastThree, NEW q \in Queries,
         Cache(q), asked' = Append(asked, q)
  PROVE  HistoryTypeOK' /\ StoredAreLastThree'
<1>1. stored = LastThree(asked)
  BY StoredIsLastThree
<1>2. asked' \in Seq(Queries)
  BY AppendSeq DEF HistoryTypeOK
<1>3. stored' = LastThree(asked')
  BY <1>1, LastThreeOfAppend DEF Cache, HistoryTypeOK
<1>4. StoredAreLastThree'
  BY <1>3 DEF StoredAreLastThree, LastThree, First
<1>5. stored' \in Seq(Queries)
  BY <1>2, <1>3, LastThreeProperties
<1>. QED BY <1>2, <1>4, <1>5 DEF HistoryTypeOK

\* The searches the field shows are queries.
LEMMA GetLastThreeType ==
  ASSUME HistoryTypeOK, StoredAreLastThree
  PROVE  GetLastThree \in Seq(Queries) /\ Len(GetLastThree) <= 3
<1>1. Len(stored) <= 3
  BY StoredIsLastThree, LastThreeProperties DEF HistoryTypeOK
<1>2. GetLastThree \in Seq(Queries) /\ Len(GetLastThree) = Len(stored)
  BY ReverseSeq DEF GetLastThree, HistoryTypeOK
<1>. QED BY <1>1, <1>2

LEMMA NoSearches ==
  ASSUME NEW s, s = << >>
  PROVE  s \in Seq(Queries) /\ s \in Seq(Sendable) /\ Len(s) <= 3
OBVIOUS

LEMMA TypeInit == Init => TypeInv
<1>. SUFFICES ASSUME Init PROVE TypeInv
  OBVIOUS
<1>1. SearchTypeOK
  <2>1. /\ recentSearches \in Seq(Queries) /\ Len(recentSearches) <= 3
        /\ searches \in Seq(Sendable) /\ hints \in Seq(Sendable)
    BY NoSearches DEF Init
  <2>. QED BY <2>1 DEF Init, SearchTypeOK
<1>2. HistoryTypeOK /\ ClosedIsIdle
  BY DEF Init, HistoryTypeOK, ClosedIsIdle
<1>3. StoredAreLastThree
  BY SubSeqEmpty DEF Init, StoredAreLastThree
<1>. QED BY <1>1, <1>2, <1>3 DEF TypeInv

\* A search that is left has no data.
LEMMA LeaveStep ==
  ASSUME TypeInv, Leave, HistoryTypeOK', StoredAreLastThree', answered' \in BOOLEAN
  PROVE  TypeInv'
<1>0. SearchTypeOK
  BY DEF TypeInv
<1>1. SearchTypeOK'
  <2>1. /\ recentSearches' \in Seq(Queries) /\ Len(recentSearches') <= 3
        /\ searches' \in Seq(Sendable) /\ hints' \in Seq(Sendable)
    BY NoSearches DEF Leave
  <2>. QED BY <1>0, <2>1 DEF SearchTypeOK, Leave
<1>2. ClosedIsIdle'
  BY DEF Leave, ClosedIsIdle
<1>. QED BY <1>1, <1>2 DEF TypeInv

LEMMA HistoryKept ==
  ASSUME TypeInv, UNCHANGED <<stored, history>>
  PROVE  HistoryTypeOK' /\ StoredAreLastThree' /\ answered' \in BOOLEAN
BY DEF TypeInv, SearchTypeOK, HistoryTypeOK, StoredAreLastThree, history

\* A query is searched for, or the provider traps on it.
LEMMA RequestStep ==
  ASSUME TypeInv, open, NEW q \in Queries, DidRequestSearch(q), text' \in Queries
  PROVE  TypeInv'
<1>0. SearchTypeOK
  BY DEF TypeInv
<1>1. HistoryTypeOK' /\ StoredAreLastThree'
  BY CacheStep DEF TypeInv, DidRequestSearch, Ask
<1>2. searches' \in Seq(Sendable)
  <2>1. CASE q \in Sendable
    BY <1>0, <2>1, AppendSeq DEF SearchTypeOK, DidRequestSearch
  <2>2. CASE q \notin Sendable
    BY <1>0, <2>2 DEF SearchTypeOK, DidRequestSearch
  <2>. QED BY <2>1, <2>2
<1>3. SearchTypeOK'
  BY <1>0, <1>2 DEF SearchTypeOK, DidRequestSearch, data
<1>4. ClosedIsIdle'
  BY DEF ClosedIsIdle, DidRequestSearch
<1>. QED BY <1>1, <1>3, <1>4 DEF TypeInv

LEMMA TrapStep ==
  ASSUME TypeInv, NEW q \in Queries, SearchTraps(q)
  PROVE  TypeInv'
<1>1. HistoryTypeOK' /\ StoredAreLastThree'
  BY CacheStep DEF TypeInv, SearchTraps, Ask
<1>2. answered' \in BOOLEAN
  BY DEF TypeInv, SearchTypeOK, SearchTraps
<1>. QED BY <1>1, <1>2, LeaveStep DEF SearchTraps

LEMMA TappedQuery ==
  ASSUME NEW i, TapQuery(i)
  PROVE  \E q \in Queries : \/ DidRequestSearch(q) /\ text' = q
                            \/ SearchTraps(q)
<1>1. PICK q \in Queries : LookUp(i) = <<q>>
  BY DEF TapQuery
<1>2. LookUp(i)[1] = q
  BY <1>1
<1>. QED BY <1>2 DEF TapQuery

LEMMA TypeStep == TypeInv /\ [Next]_searchVars => TypeInv'
<1>. SUFFICES ASSUME TypeInv, [Next]_searchVars PROVE TypeInv'
  OBVIOUS
<1>0. /\ SearchTypeOK /\ HistoryTypeOK /\ StoredAreLastThree /\ ClosedIsIdle
      /\ GetLastThree \in Seq(Queries) /\ Len(GetLastThree) <= 3
  BY GetLastThreeType DEF TypeInv
<1>1. ASSUME UNCHANGED <<stored, asked>>
      PROVE  HistoryTypeOK' /\ StoredAreLastThree'
  BY <1>0, <1>1 DEF HistoryTypeOK, StoredAreLastThree
<1>2. CASE OpenSearch
  <2>1. SearchTypeOK' /\ ClosedIsIdle'
    BY <1>0, <1>2 DEF OpenSearch, SearchTypeOK, ClosedIsIdle, network, history
  <2>. QED BY <1>1, <1>2, <2>1 DEF OpenSearch, TypeInv, history
<1>3. CASE BackArrow
  BY <1>3, LeaveStep, HistoryKept DEF BackArrow
<1>4. CASE DidCancelSearch
  <2>1. SearchTypeOK' /\ ClosedIsIdle'
    BY <1>0, <1>4 DEF DidCancelSearch, SearchTypeOK, ClosedIsIdle, network, history
  <2>. QED BY <1>1, <1>4, <2>1 DEF DidCancelSearch, TypeInv, history
<1>5. CASE TapReturn
  <2>1. text \in Queries /\ text' = text
    BY <1>0, <1>5 DEF TapReturn, SearchTypeOK
  <2>. QED BY <1>5, <2>1, RequestStep DEF TapReturn
<1>6. ASSUME NEW q \in Queries, TypeText(q)
      PROVE  TypeInv'
  <2>1. hints' \in Seq(Sendable)
    BY <1>0, <1>6, AppendSeq DEF TypeText, SearchTypeOK
  <2>2. SearchTypeOK' /\ ClosedIsIdle'
    BY <1>0, <1>6, <2>1 DEF TypeText, SearchTypeOK, ClosedIsIdle, data, history
  <2>. QED BY <1>1, <1>6, <2>2 DEF TypeText, TypeInv, history
<1>19. CASE TypingTraps
  BY <1>19, LeaveStep, HistoryKept DEF TypingTraps
<1>7. ASSUME NEW k \in Nat, Found(k) \/ NothingFound(k)
      PROVE  TypeInv'
  <2>1. k \in DOMAIN searches /\ searches' = RemoveAt(searches, k)
    BY <1>7 DEF Found, NothingFound, Answer
  <2>2. searches' \in Seq(Sendable) /\ searches[k] \in Sendable /\ searches # << >>
    BY <1>0, <2>1, RemoveAtSeq, LenProperties, ElementOfSeq, EmptySeq DEF SearchTypeOK
  <2>3. searchResults' \in {<< >>} \cup Range(Results)
    BY <1>0, <1>7, <2>2, SearchAssumption DEF Found, NothingFound, SearchTypeOK, Range
  <2>4. open
    BY <1>0, <2>2 DEF ClosedIsIdle
  <2>5. SearchTypeOK' /\ ClosedIsIdle'
    BY <1>0, <1>7, <2>2, <2>3, <2>4
    DEF Found, NothingFound, Answer, SearchTypeOK, ClosedIsIdle
  <2>. QED BY <1>1, <1>7, <2>5 DEF Found, NothingFound, Answer, TypeInv
<1>8. ASSUME NEW k \in Nat, Suggested(k)
      PROVE  TypeInv'
  <2>1. k \in DOMAIN hints /\ hints' = RemoveAt(hints, k)
    BY <1>8 DEF Suggested
  <2>2. hints' \in Seq(Sendable) /\ hints[k] \in Sendable /\ hints # << >>
    BY <1>0, <2>1, RemoveAtSeq, LenProperties, ElementOfSeq, EmptySeq DEF SearchTypeOK
  <2>3. autocomplete' \in {<< >>} \cup Range(Hints)
    BY <1>0, <1>8, <2>2, SearchAssumption DEF Suggested, SearchTypeOK, Range
  <2>4. open
    BY <1>0, <2>2 DEF ClosedIsIdle
  <2>5. reloadDue' \in BOOLEAN
    BY <1>0, <1>8 DEF Suggested, SearchTypeOK
  <2>6. SearchTypeOK' /\ ClosedIsIdle'
    BY <1>0, <1>8, <2>2, <2>3, <2>4, <2>5
    DEF Suggested, SearchTypeOK, ClosedIsIdle, history
  <2>. QED BY <1>1, <1>8, <2>6 DEF Suggested, TypeInv, history
<1>9. CASE PlaylistsCome
  <2>1. SearchTypeOK' /\ ClosedIsIdle'
    BY <1>0, <1>9 DEF PlaylistsCome, SearchTypeOK, ClosedIsIdle, network, history
  <2>. QED BY <1>1, <1>9, <2>1 DEF PlaylistsCome, TypeInv, history
<1>10. CASE Reload
  <2>1. SearchTypeOK' /\ ClosedIsIdle'
    BY <1>0, <1>10 DEF Reload, SearchTypeOK, ClosedIsIdle, network, data, history
  <2>. QED BY <1>1, <1>10, <2>1 DEF Reload, TypeInv, history
<1>11. ASSUME NEW i \in DOMAIN rows, TapSong(i)
       PROVE  TypeInv'
  BY <1>11, LeaveStep, HistoryKept DEF TapSong
<1>12. ASSUME NEW i \in DOMAIN rows, TapQuery(i)
       PROVE  TypeInv'
  <2>1. PICK q \in Queries : (DidRequestSearch(q) /\ text' = q) \/ SearchTraps(q)
    BY <1>12, TappedQuery
  <2>. QED BY <1>12, <2>1, RequestStep, TrapStep DEF TapQuery, CanTap
<1>14. CASE UNCHANGED searchVars
  <2>1. SearchTypeOK' /\ ClosedIsIdle'
    BY <1>0, <1>14 DEF searchVars, SearchTypeOK, ClosedIsIdle, network, data, history
  <2>. QED BY <1>1, <1>14, <2>1 DEF searchVars, TypeInv, history
<1>13. ASSUME NEW i \in DOMAIN rows, TapPlaylist(i)
       PROVE  TypeInv'
  BY <1>13, <1>14 DEF TapPlaylist
<1>15. 1..MaxPending \subseteq Nat /\ 1..MaxHints \subseteq Nat
  OBVIOUS
<1>. QED
  BY <1>2, <1>3, <1>4, <1>5, <1>6, <1>7, <1>8, <1>9, <1>10, <1>11, <1>12, <1>13,
     <1>14, <1>15, <1>19 DEF Next

(***************************************************************************)
(* Every variable holds values of its kind, through every answer, failure  *)
(* and reload of a search, and in every order.                             *)
(***************************************************************************)
THEOREM SearchTypeCorrect == Spec => []SearchTypeOK
<1>1. TypeInv => SearchTypeOK
  BY DEF TypeInv
<1>. QED BY TypeInit, TypeStep, <1>1, PTL DEF Spec

(***************************************************************************)
(* SearchCacher keeps the last three of all searches, however many.        *)
(***************************************************************************)
THEOREM StoredAreLastThreeHolds == Spec => []StoredAreLastThree
<1>1. TypeInv => StoredAreLastThree
  BY DEF TypeInv
<1>. QED BY TypeInit, TypeStep, <1>1, PTL DEF Spec

-----------------------------------------------------------------------------
(***************************************************************************)
(* The rows and the data.  When no reload waits the table shows the data,  *)
(* but for a search that was asked for and has brought no songs: whatever  *)
(* else changes the data of the state orders a reload, or reloads.         *)
(***************************************************************************)
Shown == Rows(state, recentSearches, playlists, autocomplete, searchResults)

RowsAreData == open /\ ~Stale => rows = Shown

LEMMA RowsInit == Init => RowsAreData
BY DEF Init, RowsAreData

LEMMA RowsStep == TypeInv /\ RowsAreData /\ [Next]_searchVars => RowsAreData'
<1>. SUFFICES ASSUME TypeInv, RowsAreData, [Next]_searchVars, open', ~Stale'
              PROVE  rows' = Shown'
  BY DEF RowsAreData
<1>1. ASSUME ReloadData
      PROVE  rows' = Shown'
  BY <1>1 DEF ReloadData, Shown
<1>2. ASSUME UNCHANGED <<open, state, rows, data, reloadDue, answered>>
      PROVE  rows' = Shown'
  <2>1. ~Stale
    BY <1>2 DEF Stale
  <2>2. rows = Shown
    BY <1>2, <2>1 DEF RowsAreData
  <2>. QED BY <1>2, <2>2 DEF Shown, Rows, data
<1>3. ASSUME NEW q, DidRequestSearch(q) \/ SearchTraps(q)
      PROVE  FALSE
  BY <1>3 DEF DidRequestSearch, SearchTraps, Leave, Stale
<1>4. CASE OpenSearch
  BY <1>1, <1>4 DEF OpenSearch
<1>5. CASE BackArrow
  BY <1>5 DEF BackArrow, Leave
<1>6. CASE DidCancelSearch
  BY <1>1, <1>6 DEF DidCancelSearch
<1>7. CASE TapReturn
  BY <1>3, <1>7 DEF TapReturn
<1>8. ASSUME NEW q \in Queries, TypeText(q)
      PROVE  rows' = Shown'
  BY <1>1, <1>8 DEF TypeText
<1>19. CASE TypingTraps
  BY <1>19 DEF TypingTraps, Leave
<1>9. ASSUME NEW k, Found(k)
      PROVE  rows' = Shown'
  BY <1>9 DEF Found, Stale
<1>10. ASSUME NEW k, NothingFound(k)
       PROVE  rows' = Shown'
  BY <1>2, <1>10 DEF NothingFound, Answer, data
<1>11. ASSUME NEW k, Suggested(k)
       PROVE  rows' = Shown'
  <2>1. UNCHANGED <<autocomplete, reloadDue>>
    BY <1>11 DEF Suggested, Stale
  <2>. QED BY <1>2, <1>11, <2>1 DEF Suggested, data, history
<1>12. CASE PlaylistsCome
  BY <1>12 DEF PlaylistsCome, Stale
<1>13. CASE Reload
  BY <1>1, <1>13 DEF Reload
<1>14. ASSUME NEW i \in DOMAIN rows, TapSong(i)
       PROVE  rows' = Shown'
  BY <1>14 DEF TapSong, Leave
<1>15. ASSUME NEW i \in DOMAIN rows, TapQuery(i)
       PROVE  rows' = Shown'
  BY <1>3, <1>15, TappedQuery
<1>17. CASE UNCHANGED searchVars
  BY <1>2, <1>17 DEF searchVars, history
<1>16. ASSUME NEW i \in DOMAIN rows, TapPlaylist(i)
       PROVE  rows' = Shown'
  BY <1>16, <1>17 DEF TapPlaylist
<1>. QED
  BY <1>4, <1>5, <1>6, <1>7, <1>8, <1>9, <1>10, <1>11, <1>12, <1>13, <1>14, <1>15,
     <1>16, <1>17, <1>19 DEF Next

(***************************************************************************)
(* Whatever the order in which answers, hints, playlists, cancels and taps *)
(* come, and whatever never comes: a tap takes something else than its row *)
(* shows only while a reload waits, or while a search that was asked for   *)
(* has brought no songs.                                                   *)
(***************************************************************************)
THEOREM TapTakesTheRowHolds == Spec => []TapTakesTheRow
<1>1. RowsAreData => TapTakesTheRow
  <2>. SUFFICES ASSUME RowsAreData, NEW i \in DOMAIN rows, open, ~Stale
                PROVE  LookUp(i) = <<rows[i]>>
    BY DEF TapTakesTheRow
  <2>1. rows = Shown
    BY DEF RowsAreData
  <2>. QED BY <2>1 DEF LookUp, Shown
<1>. QED BY TypeInit, TypeStep, RowsInit, RowsStep, <1>1, PTL DEF Spec
=============================================================================

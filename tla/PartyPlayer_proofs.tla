------------------------- MODULE PartyPlayer_proofs -------------------------
(***************************************************************************)
(* Proofs about PartyPlayer: in a party whose owners play nothing else and *)
(* whose host does not restart, the view controllers use the Datastore as  *)
(* it expects, the host is never ahead of its player, clears it only when  *)
(* it is done, and its player is a jukebox.  For any devices, adders,      *)
(* songs and bounds on the queue, the reads, the messages and the faults.  *)
(***************************************************************************)
EXTENDS PartyPlayer, Datastore_proofs

-----------------------------------------------------------------------------
(***************************************************************************)
(* Ends of sequences.                                                      *)
(***************************************************************************)

\* The library compares the sequences backwards; an end is what is left when a
\* beginning is taken away.
LEMMA SuffixIsConcat ==
  ASSUME NEW S, NEW s \in Seq(S), NEW t \in Seq(S)
  PROVE  IsSuffix(s, t) <=> \E u \in Seq(S) : t = u \o s
<1>. DEFINE m == Len(s)
            n == Len(t)
<1>1. m \in Nat /\ n \in Nat
  OBVIOUS
<1>2. /\ Reverse(s) \in Seq(S) /\ Len(Reverse(s)) = m
      /\ \A i \in 1..m : Reverse(s)[i] = s[m - i + 1]
      /\ Reverse(t) \in Seq(S) /\ Len(Reverse(t)) = n
      /\ \A i \in 1..n : Reverse(t)[i] = t[n - i + 1]
  BY DEF Reverse
<1>3. ASSUME IsSuffix(s, t) PROVE \E u \in Seq(S) : t = u \o s
  <2>1. m <= n /\ SubSeq(Reverse(s), 1, m) = SubSeq(Reverse(t), 1, m)
    BY <1>2, <1>3 DEF IsSuffix, IsPrefix
  <2>2. \A i \in 1..m : Reverse(s)[i] = Reverse(t)[i]
    <3>1. SubSeq(Reverse(s), 1, m) = Reverse(s)
      BY <1>2, SubSeqFull
    <3>2. \A i \in 1..m : Reverse(t)[i] \in S
      BY <1>1, <1>2, <2>1
    <3>3. \A i \in 1..(m - 1 + 1) : SubSeq(Reverse(t), 1, m)[i] = Reverse(t)[1 + i - 1]
      <4>. HIDE DEF m
      <4>. QED BY <1>1, <3>2, SubSeqProperties
    <3>. QED BY <1>1, <2>1, <3>1, <3>3
  <2>3. \A i \in 1..m : s[i] = t[(n - m) + i]
    <3>. SUFFICES ASSUME NEW i \in 1..m PROVE s[i] = t[(n - m) + i]
      OBVIOUS
    <3>. DEFINE j == m - i + 1
    <3>1. j \in 1..m /\ j \in 1..n /\ m - j + 1 = i /\ n - j + 1 = (n - m) + i
      BY <1>1, <2>1
    <3>. HIDE DEF j
    <3>. QED BY <1>2, <2>2, <3>1
  <2>. DEFINE u == SubSeq(t, 1, n - m)
              v == SubSeq(t, (n - m) + 1, n)
  <2>4. u \o v = t /\ u \in Seq(S)
    <3>1. 1 \in 1..(Len(t) + 1) /\ n - m \in (1 - 1)..Len(t) /\ n \in (n - m)..Len(t)
      BY <1>1, <2>1
    <3>2. SubSeq(t, 1, n - m) \o SubSeq(t, (n - m) + 1, n) = SubSeq(t, 1, n)
      BY <3>1, ConcatAdjacentSubSeq
    <3>3. \A i \in 1..(n - m) : t[i] \in S
      BY <1>1, <2>1
    <3>4. u \in Seq(S)
      BY <1>1, <3>3, SubSeqProperties
    <3>. QED BY <3>2, <3>4, SubSeqFull
  <2>5. v = s
    <3>1. \A i \in ((n - m) + 1)..n : t[i] \in S
      BY <1>1, <2>1
    <3>2. /\ v \in Seq(S)
          /\ Len(v) = IF (n - m) + 1 <= n THEN n - ((n - m) + 1) + 1 ELSE 0
          /\ \A i \in 1..(n - ((n - m) + 1) + 1) : v[i] = t[(n - m) + 1 + i - 1]
      BY <1>1, <3>1, SubSeqProperties
    <3>. HIDE DEF v
    <3>3. Len(v) = m
      BY <1>1, <2>1, <3>2
    <3>4. \A i \in 1..m : v[i] = s[i]
      BY <1>1, <2>1, <2>3, <3>2
    <3>. QED BY <3>2, <3>3, <3>4, SeqEqual
  <2>. QED BY <2>4, <2>5
<1>4. ASSUME NEW u \in Seq(S), t = u \o s PROVE IsSuffix(s, t)
  <2>1. n = Len(u) + m /\ Len(u) \in Nat
    BY <1>4, ConcatProperties
  <2>2. \A i \in 1..m : t[Len(u) + i] = s[i]
    BY <1>1, <1>4, <2>1, ConcatProperties
  <2>3. \A i \in 1..m : Reverse(s)[i] = Reverse(t)[i]
    <3>. SUFFICES ASSUME NEW i \in 1..m PROVE Reverse(s)[i] = Reverse(t)[i]
      OBVIOUS
    <3>1. m - i + 1 \in 1..m /\ i \in 1..n /\ n - i + 1 = Len(u) + (m - i + 1)
      BY <1>1, <2>1
    <3>. QED BY <1>2, <2>2, <3>1
  <2>4. SubSeq(Reverse(s), 1, m) = SubSeq(Reverse(t), 1, m)
    <3>1. \A i \in 1..m : Reverse(s)[i] \in S /\ Reverse(t)[i] \in S
      BY <1>1, <1>2, <2>1
    <3>. DEFINE a == SubSeq(Reverse(s), 1, m)
                b == SubSeq(Reverse(t), 1, m)
    <3>2. /\ a \in Seq(S) /\ Len(a) = IF 1 <= m THEN m - 1 + 1 ELSE 0
          /\ \A i \in 1..(m - 1 + 1) : a[i] = Reverse(s)[1 + i - 1]
      <4>. HIDE DEF m
      <4>. QED BY <1>1, <3>1, SubSeqProperties
    <3>3. /\ b \in Seq(S) /\ Len(b) = IF 1 <= m THEN m - 1 + 1 ELSE 0
          /\ \A i \in 1..(m - 1 + 1) : b[i] = Reverse(t)[1 + i - 1]
      <4>. HIDE DEF m
      <4>. QED BY <1>1, <3>1, SubSeqProperties
    <3>. HIDE DEF a, b
    <3>4. Len(a) = m /\ Len(b) = m
      BY <1>1, <3>2, <3>3
    <3>5. \A i \in 1..m : a[i] = b[i]
      BY <1>1, <2>3, <3>2, <3>3
    <3>6. a = b
      BY <3>2, <3>3, <3>4, <3>5, SeqEqual
    <3>. QED BY <3>6 DEF a, b
  <2>. QED BY <1>1, <1>2, <2>1, <2>4 DEF IsSuffix, IsPrefix
<1>. QED BY <1>3, <1>4

\* A sequence and its end.
LEMMA SuffixLength ==
  ASSUME NEW S, NEW s \in Seq(S), NEW t \in Seq(S), IsSuffix(s, t)
  PROVE  /\ Len(s) <= Len(t)
         /\ Len(s) = Len(t) => s = t
<1>1. PICK u \in Seq(S) : t = u \o s
  BY SuffixIsConcat
<1>2. Len(t) = Len(u) + Len(s) /\ Len(u) \in Nat /\ Len(s) \in Nat
  BY <1>1, ConcatProperties
<1>3. Len(s) = Len(t) => u = << >>
  BY <1>2
<1>. QED BY <1>1, <1>2, <1>3, ConcatEmptySeq

\* Nothing, and all, is an end.
LEMMA SuffixEnds ==
  ASSUME NEW S, NEW t \in Seq(S)
  PROVE  IsSuffix(<< >>, t) /\ IsSuffix(t, t)
<1>1. << >> \in Seq(S) /\ t \o << >> = t /\ << >> \o t = t
  BY ConcatEmptySeq
<1>. QED BY <1>1, SuffixIsConcat

\* Both grow by the same element.
LEMMA SuffixAppend ==
  ASSUME NEW S, NEW s \in Seq(S), NEW t \in Seq(S), NEW x \in S
  PROVE  /\ IsSuffix(s, t) => IsSuffix(Append(s, x), Append(t, x))
         /\ IsSuffix(<< x >>, Append(t, x))
<1>1. /\ << x >> \in Seq(S) /\ Append(s, x) \in Seq(S) /\ Append(t, x) \in Seq(S)
      /\ Append(s, x) = s \o << x >> /\ Append(t, x) = t \o << x >>
  BY AppendIsConcat
<1>2. ASSUME IsSuffix(s, t) PROVE IsSuffix(Append(s, x), Append(t, x))
  <2>1. PICK u \in Seq(S) : t = u \o s
    BY <1>2, SuffixIsConcat
  <2>2. (u \o s) \o << x >> = u \o (s \o << x >>)
    BY <1>1, ConcatAssociative
  <2>3. Append(t, x) = u \o Append(s, x)
    BY <1>1, <2>1, <2>2, Zenon
  <2>. QED BY <1>1, <2>3, SuffixIsConcat
<1>3. IsSuffix(<< x >>, Append(t, x))
  BY <1>1, SuffixIsConcat
<1>. QED BY <1>2, <1>3

\* The head leaves the end.
LEMMA SuffixTail ==
  ASSUME NEW S, NEW s \in Seq(S), NEW t \in Seq(S), IsSuffix(s, t), s # << >>
  PROVE  IsSuffix(Tail(s), t) /\ Len(Tail(s)) < Len(t)
<1>. DEFINE h == Head(s)
            r == Tail(s)
<1>1. h \in S /\ r \in Seq(S) /\ << h >> \in Seq(S) /\ s = << h >> \o r
  BY HeadThenTail
<1>2. Len(r) = Len(s) - 1 /\ Len(s) \in Nat
  BY HeadTailProperties
<1>. HIDE DEF h, r
<1>3. PICK u \in Seq(S) : t = u \o s
  BY SuffixIsConcat
<1>4. u \o << h >> \in Seq(S) /\ (u \o << h >>) \o r = u \o (<< h >> \o r)
  BY <1>1, ConcatProperties, ConcatAssociative
<1>5. t = (u \o << h >>) \o r
  BY <1>1, <1>3, <1>4, Zenon
<1>6. IsSuffix(r, t)
  BY <1>1, <1>4, <1>5, SuffixIsConcat
<1>7. Len(s) <= Len(t) /\ Len(t) \in Nat
  BY SuffixLength
<1>. QED BY <1>2, <1>6, <1>7 DEF r

\* The head leaves the whole, when the end is not all of it.
LEMMA SuffixOfTail ==
  ASSUME NEW S, NEW s \in Seq(S), NEW t \in Seq(S), IsSuffix(s, t), Len(s) < Len(t)
  PROVE  t # << >> /\ IsSuffix(s, Tail(t))
<1>1. PICK u \in Seq(S) : t = u \o s
  BY SuffixIsConcat
<1>2. u # << >>
  <2>1. Len(t) = Len(u) + Len(s) /\ Len(s) \in Nat
    BY <1>1, ConcatProperties
  <2>. QED BY <2>1
<1>. DEFINE h == Head(u)
            r == Tail(u)
<1>3. h \in S /\ r \in Seq(S) /\ << h >> \in Seq(S) /\ u = << h >> \o r
  BY <1>2, HeadThenTail
<1>. HIDE DEF h, r
<1>4. (<< h >> \o r) \o s = << h >> \o (r \o s) /\ r \o s \in Seq(S)
  BY <1>3, ConcatAssociative, ConcatProperties
<1>5. t = << h >> \o (r \o s)
  BY <1>1, <1>3, <1>4, Zenon
<1>6. << h >> \o (r \o s) # << >> /\ Tail(<< h >> \o (r \o s)) = r \o s
  BY <1>3, <1>4, TailOfCons
<1>7. t # << >> /\ Tail(t) = r \o s
  BY <1>5, <1>6, Zenon
<1>8. IsSuffix(s, r \o s)
  BY <1>3, <1>4, SuffixIsConcat
<1>. QED BY <1>7, <1>8, Zenon

-----------------------------------------------------------------------------
(***************************************************************************)
(* Slots in their order.                                                   *)
(***************************************************************************)

\* How many numbers there are in an interval.
LEMMA CountInterval ==
  ASSUME NEW a \in Nat, NEW b \in Nat, a <= b
  PROVE  IsFiniteSet(a..(b - 1)) /\ Cardinality(a..(b - 1)) = b - a
<1>1. PICK c \in Int : c = b - 1
  OBVIOUS
<1>2. a \in Int
  OBVIOUS
<1>3. IsFiniteSet(a..c) /\ Cardinality(a..c) = IF a > c THEN 0 ELSE c - a + 1
  BY <1>1, <1>2, FS_Interval
<1>. QED BY <1>1, <1>2, <1>3

\* The slots of an interval.
LEMMA NthOfInterval ==
  ASSUME NEW a \in Nat, NEW b \in Nat, a <= b, NEW k \in 1..(b - a)
  PROVE  NthSlot(a..(b - 1), k) = a + k - 1
<1>. DEFINE S == a..(b - 1)
            n == a + k - 1
<1>1. \A i \in S : Cardinality({j \in S : j < i}) = i - a
  <2>. SUFFICES ASSUME NEW i \in S
                PROVE  Cardinality({j \in S : j < i}) = i - a
    OBVIOUS
  <2>1. {j \in S : j < i} = a..(i - 1)
    <3>1. \A j \in S : j < i <=> j \in a..(i - 1)
      OBVIOUS
    <3>2. a..(i - 1) \subseteq S
      OBVIOUS
    <3>. HIDE DEF S
    <3>. QED BY <3>1, <3>2
  <2>2. i \in Nat /\ a <= i
    OBVIOUS
  <2>. HIDE DEF S
  <2>. QED BY <2>1, <2>2, CountInterval
<1>2. n \in S /\ \A i \in S : i \in Int /\ (i - a = k - 1 => i = n)
  OBVIOUS
<1>3. n - a = k - 1
  OBVIOUS
<1>. HIDE DEF S, n
<1>4. \E i \in S : Cardinality({j \in S : j < i}) = k - 1
  BY <1>1, <1>2, <1>3
<1>5. /\ NthSlot(S, k) \in S
      /\ Cardinality({j \in S : j < NthSlot(S, k)}) = k - 1
  BY <1>4 DEF NthSlot
<1>6. NthSlot(S, k) - a = k - 1
  BY <1>1, <1>5
<1>7. NthSlot(S, k) = n
  BY <1>2, <1>5, <1>6
<1>. QED BY <1>7 DEF S, n

\* Every slot of a finite set has its place.
LEMMA NthIsSlot ==
  ASSUME NEW S, S \subseteq Nat, IsFiniteSet(S), NEW k \in 1..Cardinality(S)
  PROVE  NthSlot(S, k) \in S
<1>. DEFINE before(i) == {j \in S : j < i}
            Missing == {m \in 1..Cardinality(S) : \A i \in S : Cardinality(before(i)) # m - 1}
<1>1. Cardinality(S) \in Nat
  BY FS_CardinalityType
<1>2. \A i \in S : IsFiniteSet(before(i)) /\ Cardinality(before(i)) \in Nat
  <2>1. \A i \in S : before(i) \in SUBSET S
    OBVIOUS
  <2>. QED BY <2>1, FS_Subset, FS_CardinalityType
<1>3. ASSUME NEW m \in Missing, \A x \in Missing : m <= x
      PROVE  FALSE
  <2>1. m \in 1..Cardinality(S) /\ \A i \in S : Cardinality(before(i)) # m - 1
    OBVIOUS
  <2>2. CASE m = 1
    <3>1. S # {}
      BY <1>1, <2>1, FS_EmptySet
    <3>2. PICK i \in S : \A x \in S : i <= x
      BY <3>1, LeastElement
    <3>3. \A j \in S : ~(j < i)
      BY <3>2
    <3>4. before(i) = {}
      BY <3>3
    <3>. QED BY <2>1, <2>2, <3>4, FS_EmptySet
  <2>3. CASE m > 1
    <3>1. m - 1 \in 1..Cardinality(S)
      BY <1>1, <2>1, <2>3
    <3>2. ~(m <= m - 1)
      BY <1>1, <2>1
    <3>3. m - 1 \notin Missing
      BY <1>3, <3>2
    <3>4. PICK i \in S : Cardinality(before(i)) = (m - 1) - 1
      BY <3>1, <3>3
    <3>. DEFINE upTo == before(i) \cup {i}
                T == {j \in S : i < j}
    <3>5. IsFiniteSet(upTo) /\ Cardinality(upTo) = m - 1
      <4>1. i \notin before(i)
        OBVIOUS
      <4>2. IsFiniteSet(before(i)) /\ m \in Nat
        BY <1>1, <1>2, <2>1
      <4>3. (m - 1) - 1 + 1 = m - 1
        BY <4>2
      <4>. HIDE DEF before
      <4>. QED BY <3>4, <4>1, <4>2, <4>3, FS_AddElement
    <3>6. T # {}
      <4>1. SUFFICES ASSUME T = {} PROVE FALSE
        OBVIOUS
      <4>2. \A j \in S : j < i \/ j = i
        BY <4>1
      <4>3. S = upTo
        BY <4>2
      <4>. QED BY <1>1, <2>1, <3>5, <4>3
    <3>7. PICK n \in T : \A x \in T : n <= x
      <4>1. T \subseteq Nat
        OBVIOUS
      <4>. HIDE DEF T
      <4>. QED BY <3>6, <4>1, LeastElement
    <3>8. n \in S
      OBVIOUS
    <3>9. \A j \in S : j < n <=> j < i \/ j = i
      BY <3>7
    <3>10. before(n) = upTo
      BY <3>9
    <3>. QED BY <2>1, <3>5, <3>8, <3>10
  <2>. QED BY <1>1, <2>1, <2>2, <2>3
<1>4. Missing = {}
  <2>. SUFFICES ASSUME Missing # {} PROVE FALSE
    OBVIOUS
  <2>1. Missing \subseteq Nat
    BY <1>1
  <2>2. \E m \in Missing : \A x \in Missing : m <= x
    <3>. HIDE DEF Missing
    <3>. QED BY <2>1, LeastElement
  <2>. QED BY <1>3, <2>2
<1>5. \E i \in S : Cardinality(before(i)) = k - 1
  BY <1>4
<1>. QED BY <1>5 DEF NthSlot

-----------------------------------------------------------------------------
(***************************************************************************)
(* The view of a device that listens.                                      *)
(***************************************************************************)
DataInv == TypeOK /\ NoHolesInv /\ CastsInv

ViewsSound ==
    \A d \in Devices : Listening(d) =>
        IsQueue(View(d)) /\ IsSegment(DOMAIN View(d)) /\ AllSongs(View(d))

\* It is a queue of songs without holes.
LEMMA ViewsAreSound == DataInv => ViewsSound
<1>. SUFFICES ASSUME DataInv, NEW d \in Devices, Listening(d)
              PROVE  IsQueue(View(d)) /\ IsSegment(DOMAIN View(d)) /\ AllSongs(View(d))
  BY DEF ViewsSound
<1>1. TypeOK /\ NoHolesInv /\ CastsInv
  BY DEF DataInv
<1>2. ReadQueue(d) = View(d) /\ Seen(d) = Known(d) \cup Slots(outbox[d])
  BY DEF ReadQueue, Seen
<1>. QED BY <1>1, <1>2, ViewSlots, SeenIsSegment, ReadSongs

\* What a device does to the database without marking a song, its restart apart,
\* and with it.
SharedMove(d) ==
    \/ ~Listening(d) /\ SubscribeToUpdates(d)
    \/ RefuseDuplicate(d) \/ StoreSong(d)
    \/ Transmit(d) \/ Receive(d) \/ LoseConnection(d)

DataMove(d) == SharedMove(d) \/ \E i \in Nat : DidFinish(d, i)

\* Nothing disappears from a view, whatever devices do.
LEMMA ViewGrows ==
  ASSUME TypeOK, NoHolesInv, NEW h \in Devices, Listening(h), NEW d \in Devices, DataMove(d)
  PROVE  Listening(h)' /\ DOMAIN View(h) \subseteq DOMAIN View(h)'
<1>1. /\ cache[h] = cache[h] /\ unacked[h] \in Seq(Write) /\ outbox[h] \in Seq(Write)
      /\ inbox[h] \in Seq(Message) /\ IsQueue(cache[h])
      /\ unacked[d] \in Seq(Write) /\ outbox[d] \in Seq(Write)
  BY DEF TypeOK, DBTypeOK
<1>2. /\ DOMAIN View(h) = DOMAIN cache[h] \cup Slots(Pending(h))
      /\ DOMAIN View(h)' = DOMAIN cache'[h] \cup Slots(Pending(h)')
  BY DEF View, Overlay
<1>3. Slots(Pending(h)) = Slots(unacked[h]) \cup Slots(outbox[h])
  BY <1>1, SlotsToConcat DEF Pending
<1>4. CASE ~Listening(d) /\ SubscribeToUpdates(d)
  <2>1. h # d
    BY <1>4
  <2>2. /\ cache'[h] = cache[h] /\ unacked'[h] = unacked[h] /\ outbox' = outbox
        /\ observers'[h] = observers[h]
    BY <1>4, <2>1 DEF SubscribeToUpdates, Observe, TypeOK, DBTypeOK
  <2>. QED BY <2>2 DEF View, Pending, Listening
<1>5. CASE RefuseDuplicate(d)
  BY <1>5 DEF RefuseDuplicate, dbVars, View, Pending, Listening
<1>6. ASSUME NEW w \in Write, SetValue(d, w)
      PROVE  Listening(h)' /\ DOMAIN View(h) \subseteq DOMAIN View(h)'
  <2>1. /\ cache' = cache /\ unacked' = unacked /\ observers' = observers
        /\ outbox' = [outbox EXCEPT ![d] = Append(outbox[d], w)]
    BY <1>6 DEF SetValue
  <2>2. CASE h # d
    <3>1. outbox'[h] = outbox[h]
      BY <2>1, <2>2 DEF TypeOK, DBTypeOK
    <3>. QED BY <2>1, <3>1 DEF View, Pending, Listening
  <2>3. CASE h = d
    <3>1. outbox'[h] = Append(outbox[h], w)
      BY <2>1, <2>3 DEF TypeOK, DBTypeOK
    <3>2. Pending(h)' = unacked[h] \o Append(outbox[h], w)
      BY <2>1, <3>1 DEF Pending
    <3>3. Append(outbox[h], w) \in Seq(Write)
      BY <1>1
    <3>4. /\ Slots(unacked[h] \o Append(outbox[h], w))
               = Slots(unacked[h]) \cup Slots(Append(outbox[h], w))
          /\ Slots(Append(outbox[h], w)) = Slots(outbox[h]) \cup {w.slot}
      BY <1>1, <3>3, SlotsToConcat, SlotsToAppend
    <3>. QED BY <1>2, <1>3, <2>1, <3>2, <3>4 DEF Listening
  <2>. QED BY <2>2, <2>3
<1>7. CASE StoreSong(d)
  <2>1. SetValue(d, SongWrite(Head(adding[d]))) /\ adding[d] \in Seq(Add) /\ adding[d] # << >>
    BY <1>7 DEF StoreSong, TypeOK
  <2>2. Head(adding[d]) \in Add
    BY <2>1
  <2>3. SongWrite(Head(adding[d])) \in Write
    BY <2>2 DEF SongWrite, SongAt, Write, Add, MaybeSongs
  <2>. QED BY <1>6, <2>1, <2>3
<1>8. ASSUME NEW i \in Nat, DidFinish(d, i)
      PROVE  Listening(h)' /\ DOMAIN View(h) \subseteq DOMAIN View(h)'
  <2>1. PlayedAt(i) \in Write
    BY DEF PlayedAt, Write, MaybeSongs
  <2>. QED BY <1>6, <1>8, <2>1 DEF DidFinish
<1>9. CASE Transmit(d)
  <2>1. /\ outbox[d] # << >> /\ cache' = cache /\ observers' = observers
        /\ unacked' = [unacked EXCEPT ![d] = Append(unacked[d], Head(outbox[d]))]
        /\ outbox' = [outbox EXCEPT ![d] = Tail(outbox[d])]
    BY <1>9 DEF Transmit, ServerApply
  <2>2. Pending(h)' = Pending(h)
    <3>1. CASE h # d
      BY <2>1, <3>1 DEF Pending, TypeOK, DBTypeOK
    <3>2. CASE h = d
      <4>1. /\ unacked'[h] = Append(unacked[h], Head(outbox[h]))
            /\ outbox'[h] = Tail(outbox[h])
        BY <2>1, <3>2 DEF TypeOK, DBTypeOK
      <4>2. Append(unacked[h], Head(outbox[h])) \o Tail(outbox[h]) = unacked[h] \o outbox[h]
        BY <1>1, <2>1, <3>2, PendingApplied
      <4>. QED BY <4>1, <4>2 DEF Pending
    <3>. QED BY <3>1, <3>2
  <2>. QED BY <1>2, <2>1, <2>2 DEF Listening
<1>10. CASE Receive(d)
  <2>. DEFINE m == Head(inbox[d])
  <2>1. /\ inbox[d] # << >>
        /\ m.own => unacked[d] # << >> /\ Head(unacked[d]) = m.write
        /\ cache' = [cache EXCEPT ![d] =
                       IF Listening(d) THEN Put(cache[d], m.write) ELSE cache[d]]
        /\ unacked' = [unacked EXCEPT ![d] = IF m.own THEN Tail(unacked[d]) ELSE unacked[d]]
        /\ outbox' = outbox /\ observers' = observers
    BY <1>10 DEF Receive, Deliver
  <2>2. CASE h # d
    BY <2>1, <2>2 DEF View, Pending, Listening, TypeOK, DBTypeOK
  <2>3. CASE h = d
    <3>1. m \in Message
      BY <1>1, <2>1, <2>3
    <3>2. m.write \in Write
      <4>. HIDE DEF m
      <4>. QED BY <3>1 DEF Message
    <3>. HIDE DEF m
    <3>3. /\ cache'[h] = Put(cache[h], m.write)
          /\ unacked'[h] = (IF m.own THEN Tail(unacked[h]) ELSE unacked[h])
      BY <2>1, <2>3 DEF TypeOK, DBTypeOK
    <3>4. DOMAIN cache'[h] = DOMAIN cache[h] \cup {m.write.slot}
      BY <1>1, <3>2, <3>3, PutQueue
    <3>5. Slots(unacked[h]) \subseteq Slots(unacked'[h]) \cup {m.write.slot}
      <4>1. CASE m.own
        <5>1. {Head(unacked[h]).slot} \cup Slots(Tail(unacked[h])) = Slots(unacked[h])
          BY <1>1, <2>1, <2>3, <4>1, SlotsToTail
        <5>. QED BY <2>1, <2>3, <3>3, <4>1, <5>1
      <4>2. CASE ~m.own
        BY <3>3, <4>2
      <4>. QED BY <4>1, <4>2
    <3>6. Slots(Pending(h)') = Slots(unacked'[h]) \cup Slots(outbox[h])
      <4>1. unacked'[h] \in Seq(Write)
        <5>1. m.own => Tail(unacked[h]) \in Seq(Write)
          BY <1>1, <2>1, <2>3, HeadTailProperties
        <5>. QED BY <1>1, <3>3, <5>1
      <4>2. Pending(h)' = unacked'[h] \o outbox[h]
        BY <2>1 DEF Pending
      <4>. QED BY <1>1, <4>1, <4>2, SlotsToConcat
    <3>. QED BY <1>2, <1>3, <2>1, <3>4, <3>5, <3>6 DEF Listening
  <2>. QED BY <2>2, <2>3
<1>11. CASE LoseConnection(d)
  <2>1. /\ cache' = [cache EXCEPT ![d] = IF Listening(d) THEN server ELSE cache[d]]
        /\ outbox' = [outbox EXCEPT ![d] = Pending(d)]
        /\ unacked' = [unacked EXCEPT ![d] = << >>]
        /\ observers' = observers
    BY <1>11 DEF LoseConnection, Reconnect
  <2>2. CASE h # d
    BY <2>1, <2>2 DEF View, Pending, Listening, TypeOK, DBTypeOK
  <2>3. CASE h = d
    <3>1. cache'[h] = server /\ outbox'[h] = Pending(h) /\ unacked'[h] = << >>
      BY <2>1, <2>3 DEF TypeOK, DBTypeOK
    <3>2. Pending(h)' = Pending(h)
      <4>1. << >> \o Pending(h) = Pending(h)
        BY <1>1, ConcatProperties, ConcatEmptySeq DEF Pending
      <4>. QED BY <3>1, <4>1 DEF Pending
    <3>3. DOMAIN cache[h] \subseteq DOMAIN server
      BY SeenIsSegment DEF Known
    <3>. QED BY <1>2, <2>1, <3>1, <3>2, <3>3 DEF Listening
  <2>. QED BY <2>2, <2>3
<1>. QED BY <1>4, <1>5, <1>7, <1>8, <1>9, <1>10, <1>11 DEF DataMove, SharedMove

-----------------------------------------------------------------------------
(***************************************************************************)
(* Marks that are for the first n slots.                                   *)
(***************************************************************************)
LEMMA MarksBeforeSeq ==
  ASSUME NEW n \in Nat, NEW ws \in Seq(Write), MarksBefore(ws, n)
  PROVE  /\ \A w \in Write : (w.song = NoSong => w.slot < n) => MarksBefore(Append(ws, w), n)
         /\ ws # << >> => /\ MarksBefore(Tail(ws), n)
                          /\ Head(ws).song = NoSong => Head(ws).slot < n
         /\ \A us \in Seq(Write) : MarksBefore(us, n) => MarksBefore(us \o ws, n)
<1>1. ASSUME NEW w \in Write, w.song = NoSong => w.slot < n
      PROVE  MarksBefore(Append(ws, w), n)
  <2>. DEFINE vs == Append(ws, w)
  <2>1. /\ DOMAIN vs = 1..(Len(ws) + 1) /\ Len(ws) \in Nat
        /\ \A k \in 1..Len(ws) : vs[k] = ws[k]
        /\ vs[Len(ws) + 1] = w
        /\ DOMAIN ws = 1..Len(ws)
    OBVIOUS
  <2>. HIDE DEF vs
  <2>2. \A k \in DOMAIN vs : (k \in DOMAIN ws /\ vs[k] = ws[k]) \/ vs[k] = w
    BY <2>1
  <2>3. MarksBefore(vs, n)
    BY <1>1, <2>2 DEF MarksBefore
  <2>. QED BY <2>3 DEF vs
<1>2. ASSUME ws # << >>
      PROVE  MarksBefore(Tail(ws), n) /\ (Head(ws).song = NoSong => Head(ws).slot < n)
  <2>1. /\ Head(ws) = ws[1] /\ 1 \in DOMAIN ws
        /\ DOMAIN Tail(ws) = 1..(Len(ws) - 1)
        /\ \A k \in DOMAIN Tail(ws) : k + 1 \in DOMAIN ws /\ Tail(ws)[k] = ws[k + 1]
    BY <1>2, HeadTailProperties
  <2>. QED BY <2>1 DEF MarksBefore
<1>3. ASSUME NEW us \in Seq(Write), MarksBefore(us, n)
      PROVE  MarksBefore(us \o ws, n)
  <2>. DEFINE vs == us \o ws
  <2>1. /\ DOMAIN vs = 1..(Len(us) + Len(ws)) /\ Len(us) \in Nat /\ Len(ws) \in Nat
        /\ \A k \in 1..(Len(us) + Len(ws)) : vs[k] = IF k <= Len(us) THEN us[k] ELSE ws[k - Len(us)]
        /\ DOMAIN us = 1..Len(us) /\ DOMAIN ws = 1..Len(ws)
    <3>1. vs \in Seq(Write) /\ Len(vs) = Len(us) + Len(ws)
      BY ConcatProperties
    <3>2. DOMAIN vs = 1..(Len(us) + Len(ws))
      BY <3>1
    <3>. QED BY <3>2, ConcatProperties
  <2>. HIDE DEF vs
  <2>2. \A k \in DOMAIN vs : \/ k \in DOMAIN us /\ vs[k] = us[k]
                             \/ k - Len(us) \in DOMAIN ws /\ vs[k] = ws[k - Len(us)]
    BY <2>1
  <2>3. MarksBefore(vs, n)
    BY <1>3, <2>2 DEF MarksBefore
  <2>. QED BY <2>3 DEF vs
<1>. QED BY <1>1, <1>2, <1>3

LEMMA MarksBeforeEmpty ==
  ASSUME NEW n
  PROVE  MarksBefore(<< >>, n) /\ Writes(<< >>) = << >>
BY DEF MarksBefore, Writes

\* A queue with one write more.
LEMMA PutPlayed ==
  ASSUME NEW n, NEW q, PlayedBefore(q, n), NEW w, w.song = NoSong => w.slot < n
  PROVE  PlayedBefore(Put(q, w), n)
<1>. SUFFICES ASSUME NEW i \in DOMAIN q \cup {w.slot}, Put(q, w)[i].played
              PROVE  i < n
  BY DEF PlayedBefore, Put
<1>1. CASE i # w.slot
  <2>1. Put(q, w)[i] = q[i] /\ i \in DOMAIN q
    BY <1>1 DEF Put
  <2>. QED BY <2>1 DEF PlayedBefore
<1>2. CASE i = w.slot /\ w.song # NoSong
  <2>1. Put(q, w)[i] = Fresh(w.song)
    BY <1>2 DEF Put
  <2>. QED BY <2>1 DEF Fresh
<1>3. CASE i = w.slot /\ w.song = NoSong
  BY <1>3
<1>. QED BY <1>1, <1>2, <1>3

\* A queue seen under pending writes.
LEMMA OverlayPlayed ==
  ASSUME NEW n, NEW q, PlayedBefore(q, n), NEW ws, MarksBefore(ws, n)
  PROVE  PlayedBefore(Overlay(q, ws), n)
<1>. SUFFICES ASSUME NEW i \in DOMAIN q \cup Slots(ws), Overlay(q, ws)[i].played
              PROVE  i < n
  BY DEF PlayedBefore, Overlay
<1>. DEFINE last == LastSongWrite(ws, i)
            base == IF last > 0 THEN Fresh(ws[last].song)
                    ELSE IF i \in DOMAIN q THEN q[i] ELSE Fresh(NoSong)
            marked == \E k \in DOMAIN ws : k > last /\ ws[k].slot = i /\ ws[k].song = NoSong
<1>1. Overlay(q, ws)[i].played = (base.played \/ marked)
  BY DEF Overlay
<1>2. CASE marked
  BY <1>2 DEF MarksBefore
<1>3. CASE base.played
  <2>1. \A s : ~Fresh(s).played
    BY DEF Fresh
  <2>2. i \in DOMAIN q /\ q[i].played
    BY <1>3, <2>1
  <2>. QED BY <2>2 DEF PlayedBefore
<1>. HIDE DEF base, marked
<1>. QED BY <1>1, <1>2, <1>3

\* More slots.
LEMMA MarksUpToMore ==
  ASSUME TypeOK, NEW m \in Nat, NEW n \in Nat, m <= n, MarksUpTo(m)
  PROVE  MarksUpTo(n)
<1>1. ASSUME NEW q, IsQueue(q), PlayedBefore(q, m) PROVE PlayedBefore(q, n)
  <2>1. \A i \in DOMAIN q : i \in Nat
    BY <1>1 DEF IsQueue
  <2>. QED BY <1>1, <2>1 DEF PlayedBefore
<1>2. ASSUME NEW ws \in Seq(Write), MarksBefore(ws, m) PROVE MarksBefore(ws, n)
  <2>1. \A k \in DOMAIN ws : ws[k] \in Write
    OBVIOUS
  <2>2. \A k \in DOMAIN ws : ws[k].slot \in Nat
    BY <2>1 DEF Write
  <2>. QED BY <1>2, <2>2 DEF MarksBefore
<1>3. /\ IsQueue(server)
      /\ \A d \in Devices : /\ IsQueue(cache[d]) /\ inbox[d] \in Seq(Message)
                            /\ outbox[d] \in Seq(Write) /\ unacked[d] \in Seq(Write)
  BY DEF TypeOK, DBTypeOK
<1>4. \A d \in Devices : Writes(inbox[d]) \in Seq(Write)
  BY <1>3, WritesSeq
<1>. QED BY <1>1, <1>2, <1>3, <1>4 DEF MarksUpTo

\* A device writes a song, or marks one of the slots.
LEMMA SetValueMarks ==
  ASSUME TypeOK, NEW n \in Nat, MarksUpTo(n), NEW d \in Devices, NEW w \in Write,
         w.song = NoSong => w.slot < n, SetValue(d, w)
  PROVE  MarksUpTo(n)'
<1>1. /\ server' = server /\ cache' = cache /\ inbox' = inbox /\ unacked' = unacked
      /\ outbox' = [outbox EXCEPT ![d] = Append(outbox[d], w)]
  BY DEF SetValue
<1>2. /\ outbox'[d] = Append(outbox[d], w) /\ outbox[d] \in Seq(Write)
      /\ \A e \in Devices : e # d => outbox'[e] = outbox[e]
  BY <1>1 DEF TypeOK, DBTypeOK
<1>3. MarksBefore(Append(outbox[d], w), n)
  <2>1. MarksBefore(outbox[d], n)
    BY DEF MarksUpTo
  <2>. QED BY <1>2, <2>1, MarksBeforeSeq
<1>. QED BY <1>1, <1>2, <1>3 DEF MarksUpTo

\* A write is applied and told to the listeners.
LEMMA TransmitMarks ==
  ASSUME TypeOK, NEW n \in Nat, MarksUpTo(n), NEW d \in Devices, Transmit(d)
  PROVE  MarksUpTo(n)'
<1>. DEFINE w == Head(outbox[d])
            note(e) == [write |-> w, own |-> e = d]
<1>1. /\ outbox[d] # << >> /\ server' = Put(server, w) /\ cache' = cache
      /\ unacked' = [unacked EXCEPT ![d] = Append(unacked[d], w)]
      /\ inbox' = [e \in Devices |-> IF e = d \/ Listening(e)
                                     THEN Append(inbox[e], note(e)) ELSE inbox[e]]
      /\ outbox' = [outbox EXCEPT ![d] = Tail(outbox[d])]
  BY DEF Transmit, ServerApply
<1>2. \A e \in Devices : /\ outbox[e] \in Seq(Write) /\ unacked[e] \in Seq(Write)
                         /\ inbox[e] \in Seq(Message)
  BY DEF TypeOK, DBTypeOK
<1>3. \A e \in Devices : /\ MarksBefore(outbox[e], n) /\ MarksBefore(unacked[e], n)
                         /\ MarksBefore(Writes(inbox[e]), n) /\ PlayedBefore(cache[e], n)
  BY DEF MarksUpTo
<1>4. w \in Write /\ MarksBefore(Tail(outbox[d]), n) /\ (w.song = NoSong => w.slot < n)
  <2>1. Head(outbox[d]) \in Write
    BY <1>1, <1>2, HeadTailProperties
  <2>. QED BY <1>1, <1>2, <1>3, <2>1, MarksBeforeSeq
<1>5. \A e \in Devices : note(e) \in Message /\ note(e).write = w
  <2>. HIDE DEF w
  <2>. QED BY <1>4 DEF Message
<1>6. /\ outbox'[d] = Tail(outbox[d]) /\ unacked'[d] = Append(unacked[d], w)
      /\ \A e \in Devices : e # d => outbox'[e] = outbox[e] /\ unacked'[e] = unacked[e]
      /\ \A e \in Devices : inbox'[e] = Append(inbox[e], note(e)) \/ inbox'[e] = inbox[e]
  <2>. HIDE DEF w, note
  <2>. QED BY <1>1 DEF TypeOK, DBTypeOK
<1>. HIDE DEF w, note
<1>7. PlayedBefore(server', n)
  <2>1. PlayedBefore(server, n)
    BY DEF MarksUpTo
  <2>. QED BY <1>1, <1>4, <2>1, PutPlayed
<1>8. ASSUME NEW e \in Devices
      PROVE  /\ MarksBefore(outbox'[e], n) /\ MarksBefore(unacked'[e], n)
             /\ MarksBefore(Writes(inbox'[e]), n)
  <2>1. MarksBefore(outbox'[e], n)
    BY <1>3, <1>4, <1>6
  <2>2. MarksBefore(unacked'[e], n)
    <3>1. MarksBefore(Append(unacked[d], w), n)
      BY <1>2, <1>3, <1>4, MarksBeforeSeq
    <3>. QED BY <1>3, <1>6, <3>1
  <2>3. MarksBefore(Writes(inbox'[e]), n)
    <3>1. Writes(inbox[e]) \in Seq(Write)
      BY <1>2, WritesSeq
    <3>2. Writes(Append(inbox[e], note(e))) = Append(Writes(inbox[e]), w)
      <4>1. Writes(Append(inbox[e], note(e))) = Append(Writes(inbox[e]), note(e).write)
        BY <1>2, <1>5, WritesAppend
      <4>. QED BY <1>5, <4>1
    <3>3. MarksBefore(Append(Writes(inbox[e]), w), n)
      BY <1>3, <1>4, <3>1, MarksBeforeSeq
    <3>. QED BY <1>3, <1>6, <3>2, <3>3
  <2>. QED BY <2>1, <2>2, <2>3
<1>. QED BY <1>1, <1>3, <1>7, <1>8 DEF MarksUpTo

\* A message is received.
LEMMA ReceiveMarks ==
  ASSUME TypeOK, NEW n \in Nat, MarksUpTo(n), NEW d \in Devices, Receive(d)
  PROVE  MarksUpTo(n)'
<1>. DEFINE m == Head(inbox[d])
            w == m.write
<1>1. /\ inbox[d] # << >>
      /\ m.own => unacked[d] # << >>
      /\ cache' = [cache EXCEPT ![d] = IF Listening(d) THEN Put(cache[d], w) ELSE cache[d]]
      /\ unacked' = [unacked EXCEPT ![d] = IF m.own THEN Tail(unacked[d]) ELSE unacked[d]]
      /\ inbox' = [inbox EXCEPT ![d] = Tail(inbox[d])]
      /\ server' = server /\ outbox' = outbox
  BY DEF Receive, Deliver
<1>2. unacked[d] \in Seq(Write) /\ inbox[d] \in Seq(Message)
  BY DEF TypeOK, DBTypeOK
<1>3. \A e \in Devices : /\ MarksBefore(outbox[e], n) /\ MarksBefore(unacked[e], n)
                         /\ MarksBefore(Writes(inbox[e]), n) /\ PlayedBefore(cache[e], n)
  BY DEF MarksUpTo
<1>4. MarksBefore(Writes(Tail(inbox[d])), n) /\ (w.song = NoSong => w.slot < n)
  <2>1. /\ Writes(inbox[d]) \in Seq(Write) /\ Writes(inbox[d]) # << >>
        /\ Head(Writes(inbox[d])) = w
        /\ Tail(Writes(inbox[d])) = Writes(Tail(inbox[d]))
    BY <1>1, <1>2, WritesSeq, WritesTail
  <2>2. /\ MarksBefore(Tail(Writes(inbox[d])), n)
        /\ Head(Writes(inbox[d])).song = NoSong => Head(Writes(inbox[d])).slot < n
    BY <1>3, <2>1, MarksBeforeSeq
  <2>. HIDE DEF w, m
  <2>. QED BY <2>1, <2>2
<1>. HIDE DEF w, m
<1>5. PlayedBefore(Put(cache[d], w), n)
  BY <1>3, <1>4, PutPlayed
<1>6. m.own => MarksBefore(Tail(unacked[d]), n)
  BY <1>1, <1>2, <1>3, MarksBeforeSeq
<1>7. \A e \in Devices : /\ PlayedBefore(cache'[e], n)
                         /\ MarksBefore(unacked'[e], n)
                         /\ MarksBefore(Writes(inbox'[e]), n)
  BY <1>1, <1>3, <1>4, <1>5, <1>6 DEF TypeOK, DBTypeOK
<1>. QED BY <1>1, <1>3, <1>7 DEF MarksUpTo

\* A device listens, reconnects or dies.
LEMMA ConnectMarks ==
  ASSUME TypeOK, NEW n \in Nat, MarksUpTo(n), NEW d \in Devices,
         Observe(d) \/ Reconnect(d) \/ Forget(d)
  PROVE  MarksUpTo(n)'
<1>1. /\ PlayedBefore(server, n)
      /\ \A e \in Devices : /\ MarksBefore(outbox[e], n) /\ MarksBefore(unacked[e], n)
                            /\ MarksBefore(Writes(inbox[e]), n) /\ PlayedBefore(cache[e], n)
  BY DEF MarksUpTo
<1>2. MarksBefore(<< >>, n) /\ Writes(<< >>) = << >> /\ PlayedBefore(EmptyQueue, n)
  BY MarksBeforeEmpty DEF PlayedBefore, EmptyQueue
<1>3. MarksBefore(Pending(d), n)
  <2>1. unacked[d] \in Seq(Write) /\ outbox[d] \in Seq(Write)
    BY DEF TypeOK, DBTypeOK
  <2>. QED BY <1>1, <2>1, MarksBeforeSeq DEF Pending
<1>4. CASE Observe(d)
  BY <1>1, <1>2, <1>4 DEF Observe, MarksUpTo, TypeOK, DBTypeOK
<1>5. CASE Reconnect(d)
  BY <1>1, <1>2, <1>3, <1>5 DEF Reconnect, MarksUpTo, TypeOK, DBTypeOK
<1>6. CASE Forget(d)
  BY <1>1, <1>2, <1>6 DEF Forget, MarksUpTo, TypeOK, DBTypeOK
<1>. QED BY <1>4, <1>5, <1>6

\* Any step of the datastore that marks no other slot.
LEMMA MarksStay ==
  ASSUME TypeOK, NEW n \in Nat, MarksUpTo(n), NEW d \in Devices,
         \/ SharedMove(d)
         \/ \E i \in Nat : i < n /\ DidFinish(d, i)
         \/ Restart(d)
         \/ UNCHANGED dbVars
  PROVE  MarksUpTo(n)'
<1>1. CASE UNCHANGED dbVars
  BY <1>1 DEF dbVars, MarksUpTo
<1>2. CASE Restart(d)
  BY <1>2, ConnectMarks DEF Restart, AppDies
<1>3. CASE SharedMove(d)
  <2>1. CASE SubscribeToUpdates(d)
    BY <2>1, ConnectMarks DEF SubscribeToUpdates
  <2>2. CASE RefuseDuplicate(d)
    BY <2>2 DEF RefuseDuplicate, dbVars, MarksUpTo
  <2>3. CASE StoreSong(d)
    <3>1. SetValue(d, SongWrite(Head(adding[d]))) /\ adding[d] \in Seq(Add) /\ adding[d] # << >>
      BY <2>3 DEF StoreSong, TypeOK
    <3>2. Head(adding[d]) \in Add
      BY <3>1
    <3>3. /\ SongWrite(Head(adding[d])) \in Write
          /\ SongWrite(Head(adding[d])).song # NoSong
      BY <3>2, TypesAssumption DEF SongWrite, SongAt, Write, Add, MaybeSongs
    <3>. QED BY <3>1, <3>3, SetValueMarks
  <2>4. CASE Transmit(d)
    BY <2>4, TransmitMarks
  <2>5. CASE Receive(d)
    BY <2>5, ReceiveMarks
  <2>6. CASE LoseConnection(d)
    BY <2>6, ConnectMarks DEF LoseConnection
  <2>. QED BY <1>3, <2>1, <2>2, <2>3, <2>4, <2>5, <2>6 DEF SharedMove
<1>4. ASSUME NEW i \in Nat, i < n, DidFinish(d, i) PROVE MarksUpTo(n)'
  <2>1. /\ PlayedAt(i) \in Write /\ PlayedAt(i).slot < n
        /\ SetValue(d, PlayedAt(i))
    BY <1>4 DEF PlayedAt, Write, MaybeSongs, DidFinish
  <2>. QED BY <2>1, SetValueMarks
<1>. QED BY <1>1, <1>2, <1>3, <1>4

-----------------------------------------------------------------------------
(***************************************************************************)
(* The snapshots that are raised.                                          *)
(***************************************************************************)

\* Queues without holes.
Queues == UNION {[0..(n - 1) -> Entry] : n \in Nat}

LEMMA QueueIsTyped ==
  ASSUME NEW q, IsQueue(q), IsSegment(DOMAIN q)
  PROVE  q \in Queues
<1>1. PICK n \in Nat : DOMAIN q = 0..(n - 1)
  BY SegmentElim
<1>2. q = [i \in DOMAIN q |-> q[i]] /\ \A i \in DOMAIN q : q[i] \in Entry
  BY DEF IsQueue
<1>3. q \in [0..(n - 1) -> Entry]
  BY <1>1, <1>2
<1>. QED BY <1>3 DEF Queues

LEMMA TypedIsQueue ==
  ASSUME NEW q \in Queues
  PROVE  IsQueue(q) /\ IsFiniteSet(DOMAIN q)
<1>1. PICK n \in Nat : q \in [0..(n - 1) -> Entry]
  BY DEF Queues
<1>2. IsFiniteSet(0..(n - 1))
  BY CountInterval
<1>. QED BY <1>1, <1>2 DEF IsQueue

EventsTyped ==
    /\ events \in [Devices -> Seq(Entry \cup Queues)]
    /\ events[Host] \in Seq(Entry)
    /\ \A d \in Devices \ {Host} : events[d] \in Seq(Queues)

\* One observer hears of each child once.
LEMMA RepeatedOnce ==
  ASSUME NEW S, NEW s \in Seq(S)
  PROVE  Repeated(s, 1) = s
<1>. SUFFICES ASSUME s # << >> PROVE Repeated(s, 1) = s
  BY DEF Repeated
<1>1. Len(s) \in Nat /\ 1 * Len(s) = Len(s)
  OBVIOUS
<1>2. Repeated(s, 1) = [k \in 1..(1 * Len(s)) |-> s[((k - 1) \div 1) + 1]]
  BY DEF Repeated
<1>3. \A k \in 1..Len(s) : ((k - 1) \div 1) + 1 = k
  OBVIOUS
<1>4. Repeated(s, 1) = [k \in 1..Len(s) |-> s[k]]
  BY <1>1, <1>2, <1>3
<1>5. s = [k \in 1..Len(s) |-> s[k]]
  BY LenProperties
<1>. QED BY <1>4, <1>5

\* What is raised on the host, which sees n slots and will see m, are the snapshots
\* of the slots from n on, in their order.
LEMMA ChildrenOfInterval ==
  ASSUME NEW q, NEW n \in Nat, NEW m \in Nat, n <= m, DOMAIN q = 0..(m - 1),
         \A i \in DOMAIN q : q[i] \in Entry
  PROVE  /\ Children(q, DOMAIN q \ (0..(n - 1))) = [k \in 1..(m - n) |-> q[n + k - 1]]
         /\ [k \in 1..(m - n) |-> q[n + k - 1]] \in Seq(Entry)
<1>1. DOMAIN q \ (0..(n - 1)) = n..(m - 1)
  BY SMT
<1>2. /\ Cardinality(n..(m - 1)) = m - n
      /\ \A k \in 1..(m - n) : NthSlot(n..(m - 1), k) = n + k - 1
  BY CountInterval, NthOfInterval
<1>3. m - n \in Nat /\ \A k \in 1..(m - n) : n + k - 1 \in DOMAIN q
  OBVIOUS
<1>4. [k \in 1..(m - n) |-> q[n + k - 1]] \in Seq(Entry)
  BY <1>3
<1>5. Children(q, n..(m - 1)) = [k \in 1..(m - n) |-> q[NthSlot(n..(m - 1), k)]]
  BY <1>2 DEF Children
<1>6. Children(q, n..(m - 1)) = [k \in 1..(m - n) |-> q[n + k - 1]]
  BY <1>2, <1>5
<1>. QED BY <1>1, <1>4, <1>6

\* The host, which saw n slots, sees m and will hear of the new ones.
HostHears(n, m) ==
    /\ n <= m
    /\ IF Listening(Host)
       THEN DOMAIN View(Host) = 0..(n - 1) /\ Cardinality(DOMAIN View(Host)) = n
       ELSE n = 0
    /\ IF Listening(Host)'
       THEN DOMAIN View(Host)' = 0..(m - 1) /\ Cardinality(DOMAIN View(Host)') = m
       ELSE m = 0
    /\ [k \in 1..(m - n) |-> View(Host)'[n + k - 1]] \in Seq(Entry)
    /\ events'[Host] = events[Host] \o [k \in 1..(m - n) |-> View(Host)'[n + k - 1]]

LEMMA RaiseStep ==
  ASSUME DataInv, DataInv', EventsTyped, observers[Host] <= 1,
         NEW d \in Devices, DataMove(d), RaiseEvents
  PROVE  /\ EventsTyped'
         /\ \E n, m \in Nat : HostHears(n, m)
<1>. USE PartyAssumption
<1>1. TypeOK /\ NoHolesInv /\ ViewsSound
  BY ViewsAreSound DEF DataInv
<1>2. ViewsSound'
  BY ViewsAreSound, PTL
<1>3. Listening(Host) => Listening(Host)' /\ DOMAIN View(Host) \subseteq DOMAIN View(Host)'
  BY <1>1, ViewGrows
<1>4. /\ observers[Host] \in Nat /\ observers'[Host] \in Nat
      /\ Listening(Host) => observers[Host] = 1 /\ observers'[Host] = 1
  <2>1. observers[Host] \in Nat
    BY <1>1 DEF TypeOK, DBTypeOK
  <2>2. Listening(Host) => observers'[Host] = observers[Host]
    <3>1. CASE observers' = observers
      BY <3>1
    <3>2. CASE ~Listening(d) /\ observers' = [observers EXCEPT ![d] = @ + 1]
      BY <1>1, <3>2 DEF TypeOK, DBTypeOK
    <3>3. \/ observers' = observers
          \/ ~Listening(d) /\ observers' = [observers EXCEPT ![d] = @ + 1]
      BY DEF DataMove, SharedMove, SubscribeToUpdates, Observe, RefuseDuplicate, StoreSong,
             SetValue, Transmit, ServerApply, Receive, Deliver, LoseConnection, Reconnect,
             DidFinish, dbVars
    <3>. QED BY <3>1, <3>2, <3>3
  <2>3. observers' \in [Devices -> Nat]
    BY DEF DataInv, TypeOK, DBTypeOK
  <2>. QED BY <2>1, <2>2, <2>3 DEF Listening
<1>5. \A e \in Devices : ViewNext(e) = View(e)'
  BY DEF ViewNext, View, Pending
<1>6. \A e \in Devices \ {Host} : Raised(e) \in Seq(Queues)
  <2>. SUFFICES ASSUME NEW e \in Devices \ {Host}
                PROVE  Raised(e) \in Seq(Queues)
    OBVIOUS
  <2>1. CASE ~Listening(e)'
    BY <2>1 DEF Raised
  <2>2. CASE Listening(e)'
    <3>1. View(e)' \in Queues
      BY <1>2, <2>2, QueueIsTyped DEF ViewsSound
    <3>2. << View(e)' >> \in Seq(Queues) /\ << >> \in Seq(Queues)
      BY <3>1
    <3>3. Raised(e) = << View(e)' >> \/ Raised(e) = << >>
      BY <1>5, <2>2 DEF Raised
    <3>. QED BY <3>2, <3>3
  <2>. QED BY <2>1, <2>2
<1>7. PICK n \in Nat : IF Listening(Host)
                       THEN DOMAIN View(Host) = 0..(n - 1) /\ Cardinality(DOMAIN View(Host)) = n
                       ELSE n = 0
  <2>1. CASE Listening(Host)
    <3>1. PICK n \in Nat : DOMAIN View(Host) = 0..(n - 1)
      BY <1>1, <2>1, SegmentElim DEF ViewsSound
    <3>2. Cardinality(0..(n - 1)) = n
      BY CountInterval
    <3>. QED BY <2>1, <3>1, <3>2
  <2>. QED BY <2>1
<1>8. PICK m \in Nat : IF Listening(Host)'
                       THEN DOMAIN View(Host)' = 0..(m - 1) /\ Cardinality(DOMAIN View(Host)') = m
                       ELSE m = 0
  <2>1. CASE Listening(Host)'
    <3>1. PICK m \in Nat : DOMAIN View(Host)' = 0..(m - 1)
      BY <1>2, <2>1, SegmentElim DEF ViewsSound
    <3>2. Cardinality(0..(m - 1)) = m
      BY CountInterval
    <3>. QED BY <2>1, <3>1, <3>2
  <2>. QED BY <2>1
<1>9. n <= m
  <2>1. CASE ~Listening(Host)
    BY <1>7, <2>1
  <2>2. CASE Listening(Host)
    <3>1. 0..(n - 1) \subseteq 0..(m - 1)
      BY <1>3, <1>7, <1>8, <2>2
    <3>2. n > 0 => n - 1 \in 0..(m - 1)
      BY <3>1
    <3>. QED BY <3>2
  <2>. QED BY <2>1, <2>2
<1>. DEFINE new == [k \in 1..(m - n) |-> View(Host)'[n + k - 1]]
<1>10. new \in Seq(Entry) /\ Raised(Host) = new
  <2>1. CASE ~Listening(Host)'
    <3>1. m = 0 /\ n = 0
      BY <1>8, <1>9, <2>1
    <3>2. new = << >>
      BY <3>1
    <3>3. Raised(Host) = << >>
      BY <2>1 DEF Raised
    <3>. QED BY <3>2, <3>3
  <2>2. CASE Listening(Host)'
    <3>1. /\ DOMAIN View(Host)' = 0..(m - 1)
          /\ \A i \in DOMAIN View(Host)' : View(Host)'[i] \in Entry
      BY <1>2, <1>8, <2>2 DEF ViewsSound, IsQueue
    <3>. DEFINE q == View(Host)'
    <3>2. /\ Children(q, DOMAIN q \ (0..(n - 1))) = [k \in 1..(m - n) |-> q[n + k - 1]]
          /\ [k \in 1..(m - n) |-> q[n + k - 1]] \in Seq(Entry)
      <4>. HIDE DEF q
      <4>1. DOMAIN q = 0..(m - 1) /\ \A i \in DOMAIN q : q[i] \in Entry
        BY <3>1 DEF q
      <4>. QED BY <1>9, <4>1, ChildrenOfInterval
    <3>. HIDE DEF q
    <3>3. new \in Seq(Entry) /\ Children(q, DOMAIN q \ (0..(n - 1))) = new
      BY <3>2 DEF q
    <3>. HIDE DEF new
    <3>4. CASE ~Listening(Host)
      <4>1. observers'[Host] > observers[Host]
        BY <1>4, <2>2, <3>4 DEF Listening
      <4>2. DOMAIN q \ (0..(n - 1)) = DOMAIN q
        <5>1. 0..(n - 1) = {}
          BY <1>7, <3>4
        <5>. QED BY <5>1
      <4>3. Raised(Host) = Children(q, DOMAIN q)
        BY <1>5, <2>2, <4>1 DEF Raised, q
      <4>. QED BY <3>3, <4>2, <4>3
    <3>5. CASE Listening(Host)
      <4>1. ~(observers'[Host] > observers[Host]) /\ observers[Host] = 1
        BY <1>4, <3>5
      <4>2. Raised(Host) = Repeated(Children(q, DOMAIN q \ DOMAIN View(Host)), 1)
        BY <1>5, <2>2, <4>1 DEF Raised, q
      <4>3. Raised(Host) = Repeated(new, 1)
        BY <1>7, <3>3, <3>5, <4>2
      <4>. QED BY <3>3, <4>3, RepeatedOnce
    <3>. QED BY <3>3, <3>4, <3>5
  <2>. QED BY <2>1, <2>2
<1>. HIDE DEF new
<1>11. \A e \in Devices : events'[e] = events[e] \o Raised(e)
  BY DEF RaiseEvents
<1>12. events[Host] \o new \in Seq(Entry)
  BY <1>10, ConcatProperties DEF EventsTyped
<1>13. \A e \in Devices \ {Host} : events'[e] \in Seq(Queues)
  <2>. SUFFICES ASSUME NEW e \in Devices \ {Host}
                PROVE  events'[e] \in Seq(Queues)
    OBVIOUS
  <2>1. events[e] \in Seq(Queues) /\ Raised(e) \in Seq(Queues)
    BY <1>6 DEF EventsTyped
  <2>2. events[e] \o Raised(e) \in Seq(Queues)
    BY <2>1, ConcatProperties
  <2>. QED BY <1>11, <2>2
<1>14. EventsTyped'
  <2>1. events'[Host] \in Seq(Entry)
    BY <1>10, <1>11, <1>12
  <2>2. \A e \in Devices : events'[e] \in Seq(Entry \cup Queues)
    <3>. SUFFICES ASSUME NEW e \in Devices PROVE events'[e] \in Seq(Entry \cup Queues)
      OBVIOUS
    <3>1. CASE e = Host
      BY <2>1, <3>1, SeqMonotonic
    <3>2. CASE e # Host
      BY <1>13, <3>2, SeqMonotonic
    <3>. QED BY <3>1, <3>2
  <2>3. events' = [e \in Devices |-> events'[e]]
    BY DEF RaiseEvents
  <2>4. events' \in [Devices -> Seq(Entry \cup Queues)]
    BY <2>2, <2>3
  <2>. QED BY <1>13, <2>1, <2>4 DEF EventsTyped
<1>15. HostHears(n, m)
  BY <1>7, <1>8, <1>9, <1>10, <1>11 DEF HostHears, new
<1>. QED BY <1>14, <1>15

-----------------------------------------------------------------------------
(***************************************************************************)
(* What the host shows, and its player.                                    *)
(***************************************************************************)
ViewsTyped ==
    /\ joined \in [Devices -> BOOLEAN] /\ closed \in [Devices -> BOOLEAN]
    /\ currentSong \in [Devices -> MaybeSongs]
    /\ songQueue \in [Devices -> Seq(Songs)]
    /\ songsPlayed \in [Devices -> Nat]

PlayInv == ViewsTyped /\ PlayerTypeOK /\ PlayerFollows

ShownOf(cur, next) == (IF cur = NoSong THEN << >> ELSE <<cur>>) \o next

\* The song shown as playing is the first of those shown, and the others are next.
LEMMA ShownParts ==
  ASSUME NEW cur \in MaybeSongs, NEW next \in Seq(Songs)
  PROVE  /\ ShownOf(cur, next) \in Seq(Songs)
         /\ cur = NoSong => ShownOf(cur, next) = next
         /\ cur # NoSong => /\ ShownOf(cur, next) # << >>
                            /\ Head(ShownOf(cur, next)) = cur
                            /\ Tail(ShownOf(cur, next)) = next
<1>1. CASE cur = NoSong
  <2>1. ShownOf(cur, next) = << >> \o next
    BY <1>1 DEF ShownOf
  <2>. QED BY <1>1, <2>1, ConcatEmptySeq
<1>2. CASE cur # NoSong
  <2>1. cur \in Songs /\ << cur >> \in Seq(Songs)
    BY <1>2 DEF MaybeSongs
  <2>2. ShownOf(cur, next) = << cur >> \o next
    BY <1>2 DEF ShownOf
  <2>3. << cur >> \o next \in Seq(Songs)
    BY <2>1, ConcatProperties
  <2>4. /\ << cur >> \o next # << >> /\ Head(<< cur >> \o next) = cur
        /\ Tail(<< cur >> \o next) = next
    BY <2>1, TailOfCons
  <2>. QED BY <1>2, <2>2, <2>3, <2>4
<1>. QED BY <1>1, <1>2

\* A song that is added is shown after the others.
LEMMA ShownAdded ==
  ASSUME NEW cur \in MaybeSongs, NEW next \in Seq(Songs), NEW s \in Songs,
         cur = NoSong => next = << >>
  PROVE  Append(ShownOf(cur, next), s)
           = IF cur = NoSong THEN ShownOf(s, next) ELSE ShownOf(cur, Append(next, s))
<1>1. s # NoSong /\ << s >> \in Seq(Songs) /\ Append(next, s) \in Seq(Songs)
  BY TypesAssumption
<1>2. CASE cur = NoSong
  <2>1. ShownOf(cur, next) = << >>
    BY <1>2, ShownParts
  <2>2. ShownOf(s, next) = << s >> \o << >> /\ << s >> \o << >> = << s >>
    BY <1>1, <1>2, ConcatEmptySeq DEF ShownOf
  <2>3. Append(<< >>, s) = << s >>
    OBVIOUS
  <2>. QED BY <1>2, <2>1, <2>2, <2>3
<1>3. CASE cur # NoSong
  <2>1. << cur >> \in Seq(Songs)
    BY <1>3 DEF MaybeSongs
  <2>2. /\ ShownOf(cur, next) = << cur >> \o next
        /\ ShownOf(cur, Append(next, s)) = << cur >> \o Append(next, s)
    BY <1>3 DEF ShownOf
  <2>3. << cur >> \o next \in Seq(Songs)
    BY <2>1, ConcatProperties
  <2>4. /\ Append(<< cur >> \o next, s) = (<< cur >> \o next) \o << s >>
        /\ Append(next, s) = next \o << s >>
        /\ (<< cur >> \o next) \o << s >> = << cur >> \o (next \o << s >>)
    BY <1>1, <2>1, <2>3, AppendIsConcat, ConcatAssociative
  <2>5. Append(ShownOf(cur, next), s) = ShownOf(cur, Append(next, s))
    BY <2>2, <2>4, Zenon
  <2>. QED BY <1>3, <2>5
<1>. QED BY <1>2, <1>3

\* The next song is shown as playing: the others are shown as before.
LEMMA ShownNext ==
  ASSUME NEW next \in Seq(Songs)
  PROVE  IF next = << >> THEN ShownOf(NoSong, next) = next
                         ELSE ShownOf(Head(next), Tail(next)) = next
<1>1. CASE next = << >>
  BY <1>1, ShownParts DEF MaybeSongs
<1>2. CASE next # << >>
  <2>1. Head(next) \in Songs /\ next = << Head(next) >> \o Tail(next)
    BY <1>2, HeadThenTail
  <2>2. Head(next) # NoSong
    BY <2>1, TypesAssumption
  <2>. QED BY <1>2, <2>1, <2>2 DEF ShownOf
<1>. QED BY <1>1, <1>2

\* What the host shows and its player has.
LEMMA HostShows ==
  ASSUME PlayInv
  PROVE  /\ Shown(Host) = ShownOf(currentSong[Host], songQueue[Host])
         /\ currentSong[Host] \in MaybeSongs /\ songQueue[Host] \in Seq(Songs)
         /\ Shown(Host) \in Seq(Songs) /\ items[Host] \in Seq(Songs)
         /\ IsSuffix(items[Host], Shown(Host))
         /\ currentSong[Host] = NoSong => Shown(Host) = << >>
         /\ currentSong[Host] # NoSong => /\ Shown(Host) # << >>
                                          /\ Head(Shown(Host)) = currentSong[Host]
                                          /\ Tail(Shown(Host)) = songQueue[Host]
<1>1. /\ currentSong[Host] \in MaybeSongs /\ songQueue[Host] \in Seq(Songs)
      /\ items[Host] \in Seq(Songs) /\ IsSuffix(items[Host], Shown(Host))
      /\ currentSong[Host] = NoSong => songQueue[Host] = << >>
  BY PartyAssumption DEF PlayInv, ViewsTyped, PlayerFollows, PlayerIsShown
<1>2. Shown(Host) = ShownOf(currentSong[Host], songQueue[Host])
  BY DEF Shown, ShownOf
<1>. QED BY <1>1, <1>2, ShownParts

\* When the item that plays is not the one shown, one is shown as playing and has
\* left the player.
LEMMA FinishedIsGone ==
  ASSUME PlayInv, notes[Host] > 0, IsOtherItem(Host)
  PROVE  currentSong[Host] # NoSong /\ Len(items[Host]) < Len(Shown(Host))
<1>1. /\ Shown(Host) \in Seq(Songs) /\ items[Host] \in Seq(Songs)
      /\ IsSuffix(items[Host], Shown(Host))
      /\ currentSong[Host] = NoSong => Shown(Host) = << >>
      /\ currentSong[Host] # NoSong => Head(Shown(Host)) = currentSong[Host]
  BY HostShows
<1>2. /\ Len(items[Host]) \in Nat /\ Len(Shown(Host)) \in Nat
      /\ Len(items[Host]) <= Len(Shown(Host))
      /\ Len(items[Host]) = Len(Shown(Host)) => items[Host] = Shown(Host)
  BY <1>1, SuffixLength
<1>3. /\ loaded[Host] \/ Len(items[Host]) < Len(Shown(Host))
      /\ loaded[Host] => items[Host] # << >>
  BY PartyAssumption DEF PlayInv, PlayerFollows, PlayerTypeOK
<1>4. currentSong[Host] # NoSong
  <2>. SUFFICES ASSUME currentSong[Host] = NoSong PROVE FALSE
    OBVIOUS
  <2>1. Shown(Host) = << >> /\ Len(Shown(Host)) = 0
    BY <1>1
  <2>2. Len(items[Host]) = Len(Shown(Host))
    BY <1>2, <2>1
  <2>3. ~loaded[Host]
    BY <1>2, <1>3, <2>1, <2>2
  <2>4. NowPlaying(Host) = NoSong
    BY <2>3 DEF NowPlaying
  <2>. QED BY <2>4 DEF IsOtherItem
<1>5. CASE loaded[Host]
  <2>1. NowPlaying(Host) = Head(items[Host])
    BY <1>5 DEF NowPlaying
  <2>2. items[Host] # Shown(Host)
    BY <1>1, <1>4, <2>1 DEF IsOtherItem
  <2>. QED BY <1>2, <1>4, <2>2
<1>. QED BY <1>3, <1>4, <1>5

-----------------------------------------------------------------------------
(***************************************************************************)
(* The player follows, action by action.                                   *)
(***************************************************************************)

\* The variables PlayInv is about, with their types.
LEMMA PlayTypes ==
  ASSUME PlayInv
  PROVE  /\ Host \in Devices
         /\ currentSong \in [Devices -> MaybeSongs] /\ songQueue \in [Devices -> Seq(Songs)]
         /\ songsPlayed \in [Devices -> Nat]
         /\ joined \in [Devices -> BOOLEAN] /\ closed \in [Devices -> BOOLEAN]
         /\ hasSetInitialQueue \in [Devices -> BOOLEAN]
         /\ items \in [Devices -> Seq(Items)]
         /\ loaded \in [Devices -> BOOLEAN] /\ playing \in [Devices -> BOOLEAN]
         /\ preparing \in [Devices -> Nat]
         /\ notes \in [Devices -> 0..MaxNotes] /\ MaxNotes \in Nat \ {0}
         /\ \A d \in Devices : (playing[d] => loaded[d]) /\ (loaded[d] => items[d] # << >>)
         /\ \A d \in Devices \ {Host} :
               ~playing[d] /\ ~loaded[d] /\ preparing[d] = 0 /\ notes[d] = 0
         /\ hasSetInitialQueue[Host] \/ items[Host] = << >>
         /\ currentSong[Host] = NoSong => songQueue[Host] = << >>
         /\ notes[Host] > 0 => /\ ~closed[Host]
                               /\ loaded[Host] \/ Len(items[Host]) < Len(Shown(Host))
BY PartyAssumption, PlayerAssumption DEF PlayInv, ViewsTyped, PlayerTypeOK, PlayerFollows

\* Nothing of it changes but who has joined.
LEMMA PlayStays ==
  ASSUME PlayInv, UNCHANGED <<playerVars, viewVars, closed>>, joined' \in [Devices -> BOOLEAN]
  PROVE  PlayInv'
BY DEF PlayInv, ViewsTyped, PlayerTypeOK, PlayerFollows, PlayerIsShown, Shown,
       playerVars, viewVars

\* What the player of the host has and what the host shows stay as they are.
LEMMA ItemsStay ==
  ASSUME PlayInv, items' = items, hasSetInitialQueue' = hasSetInitialQueue,
         UNCHANGED <<viewVars, joined>>, closed' \in [Devices -> BOOLEAN],
         loaded' \in [Devices -> BOOLEAN], playing' \in [Devices -> BOOLEAN],
         preparing' \in [Devices -> Nat], notes' \in [Devices -> 0..MaxNotes],
         \A d \in Devices : (playing'[d] => loaded'[d]) /\ (loaded'[d] => items[d] # << >>),
         \A d \in Devices \ {Host} :
            ~playing'[d] /\ ~loaded'[d] /\ preparing'[d] = 0 /\ notes'[d] = 0,
         notes'[Host] > 0 => /\ ~closed'[Host]
                             /\ loaded'[Host] \/ Len(items[Host]) < Len(Shown(Host))
  PROVE  PlayInv'
<1>1. Shown(Host)' = Shown(Host)
  BY DEF Shown, viewVars
<1>2. IsSuffix(items'[Host], Shown(Host)')
  BY <1>1 DEF PlayInv, PlayerFollows, PlayerIsShown
<1>. QED BY <1>1, <1>2
         DEF PlayInv, ViewsTyped, PlayerTypeOK, PlayerFollows, PlayerIsShown, viewVars

LEMMA PlayPausePlays ==
  ASSUME PlayInv, TapPlayPause
  PROVE  PlayInv'
<1>. USE PlayTypes
<1>1. UNCHANGED <<viewVars, joined, closed>>
  BY DEF TapPlayPause
<1>2. CASE Play(Host)
  <2>1. /\ items' = items /\ hasSetInitialQueue' = hasSetInitialQueue
        /\ preparing' = [preparing EXCEPT ![Host] = preparing[Host] + 1]
        /\ playing' = playing /\ loaded' = loaded /\ notes' = notes
    BY <1>2 DEF Play, Prepare
  <2>. QED BY <1>1, <2>1, ItemsStay
<1>3. CASE Pause(Host)
  <2>1. /\ items' = items /\ hasSetInitialQueue' = hasSetInitialQueue
        /\ playing' = [playing EXCEPT ![Host] = FALSE]
        /\ loaded' = loaded /\ preparing' = preparing /\ notes' = notes
    BY <1>3 DEF Pause
  <2>. QED BY <1>1, <2>1, ItemsStay
<1>. QED BY <1>2, <1>3 DEF TapPlayPause

\* Only the player of the host prepares to play.
LEMMA PreparedPlays ==
  ASSUME PlayInv, NEW d \in Devices, PlayerIsPrepared(d)
  PROVE  PlayInv' /\ d = Host
<1>. USE PlayTypes
<1>1. /\ UNCHANGED <<viewVars, joined, closed>>
      /\ items' = items /\ hasSetInitialQueue' = hasSetInitialQueue
      /\ preparing[d] > 0 /\ preparing' = [preparing EXCEPT ![d] = preparing[d] - 1]
      /\ PlayItem(d, InParty(d)) \/ UNCHANGED <<loaded, playing, notes>>
  BY DEF PlayerIsPrepared, Prepared
<1>2. d = Host
  BY <1>1
<1>3. /\ preparing' \in [Devices -> Nat]
      /\ \A e \in Devices \ {Host} : preparing'[e] = 0
  BY <1>1, <1>2
<1>4. CASE PlayItem(d, InParty(d))
  <2>1. /\ items[Host] # << >>
        /\ playing' = [playing EXCEPT ![Host] = TRUE]
        /\ loaded' = [loaded EXCEPT ![Host] = TRUE]
    BY <1>2, <1>4 DEF PlayItem
  <2>2. notes' = [notes EXCEPT ![Host] =
                    IF InParty(Host) /\ ~loaded[Host] /\ notes[Host] < MaxNotes
                    THEN notes[Host] + 1 ELSE notes[Host]]
    BY <1>2, <1>4 DEF PlayItem, Notify
  <2>3. /\ notes' \in [Devices -> 0..MaxNotes]
        /\ \A e \in Devices \ {Host} : notes'[e] = 0
        /\ notes'[Host] > 0 => notes[Host] > 0 \/ InParty(Host)
    BY <2>2
  <2>4. notes'[Host] > 0 => ~closed'[Host]
    BY <1>1, <2>3 DEF InParty
  <2>. QED BY <1>1, <1>2, <1>3, <2>1, <2>3, <2>4, ItemsStay
<1>5. CASE UNCHANGED <<loaded, playing, notes>>
  BY <1>1, <1>2, <1>3, <1>5, ItemsStay
<1>. QED BY <1>1, <1>2, <1>4, <1>5

LEMMA ClosePlays ==
  ASSUME PlayInv, NEW d \in Devices, TapClose(d)
  PROVE  PlayInv'
<1>. USE PlayTypes
<1>1. /\ UNCHANGED <<viewVars, joined>> /\ closed' = [closed EXCEPT ![d] = TRUE]
      /\ items' = items /\ hasSetInitialQueue' = hasSetInitialQueue
      /\ playing' = [playing EXCEPT ![d] = FALSE]
      /\ loaded' = [loaded EXCEPT ![d] = FALSE]
      /\ preparing' = preparing /\ notes' = [notes EXCEPT ![d] = 0]
  BY DEF TapClose, Stop
<1>. QED BY <1>1, ItemsStay

\* The player of the host leaves its first song.
LEMMA AdvancePlays ==
  ASSUME PlayInv, NEW obs \in BOOLEAN, obs => ~closed[Host], loaded[Host],
         Advance(Host, obs), UNCHANGED <<viewVars, joined, closed>>
  PROVE  PlayInv'
<1>. USE PlayTypes
<1>1. /\ hasSetInitialQueue' = hasSetInitialQueue /\ preparing' = preparing
      /\ items' = [items EXCEPT ![Host] = Tail(items[Host])]
      /\ loaded' = [loaded EXCEPT ![Host] = Len(items[Host]) > 1]
      /\ playing' = [playing EXCEPT ![Host] = playing[Host] /\ Len(items[Host]) > 1]
      /\ notes' = [notes EXCEPT ![Host] = IF obs /\ notes[Host] < MaxNotes
                                          THEN notes[Host] + 1 ELSE notes[Host]]
  BY DEF Advance, Notify
<1>2. /\ items[Host] \in Seq(Songs) /\ items[Host] # << >> /\ Shown(Host) \in Seq(Songs)
      /\ IsSuffix(items[Host], Shown(Host))
  BY HostShows
<1>. DEFINE rest == Tail(items[Host])
<1>3. /\ rest \in Seq(Songs) /\ Len(rest) = Len(items[Host]) - 1 /\ Len(items[Host]) \in Nat
      /\ Len(items[Host]) > 1 => rest # << >>
  <2>. DEFINE it == items[Host]
  <2>1. it \in Seq(Songs) /\ it # << >>
    BY <1>2
  <2>. HIDE DEF it
  <2>2. Tail(it) \in Seq(Songs) /\ Len(Tail(it)) = Len(it) - 1 /\ Len(it) \in Nat
    BY <2>1, HeadTailProperties
  <2>3. Len(it) > 1 => Tail(it) # << >>
    <3>1. \A s : s = << >> => Len(s) = 0
      OBVIOUS
    <3>2. Tail(it) = << >> => Len(Tail(it)) = 0
      BY <3>1
    <3>. DEFINE tl == Tail(it)
    <3>. HIDE DEF tl
    <3>3. (tl = << >> => Len(tl) = 0) /\ Len(tl) = Len(it) - 1 /\ Len(it) \in Nat
      BY <2>2, <3>2 DEF tl
    <3>4. Len(it) > 1 => tl # << >>
      BY <3>3
    <3>. QED BY <3>4 DEF tl
  <2>. QED BY <2>2, <2>3 DEF it
<1>4. IsSuffix(rest, Shown(Host)) /\ Len(rest) < Len(Shown(Host))
  BY <1>2, SuffixTail
<1>5. rest \in Seq(Items)
  BY <1>3, SeqMonotonic DEF Items
<1>. HIDE DEF rest
<1>6. Shown(Host)' = Shown(Host)
  BY DEF Shown, viewVars
<1>7. items'[Host] = rest /\ \A d \in Devices \ {Host} : items'[d] = items[d]
  BY <1>1 DEF rest
<1>8. items' \in [Devices -> Seq(Items)]
  BY <1>1, <1>5 DEF rest
<1>9. notes' \in [Devices -> 0..MaxNotes] /\ (notes'[Host] > 0 => notes[Host] > 0 \/ obs)
  BY <1>1
<1>10. PlayerTypeOK'
  <2>1. /\ loaded' \in [Devices -> BOOLEAN] /\ playing' \in [Devices -> BOOLEAN]
        /\ loaded'[Host] = (Len(items[Host]) > 1)
        /\ playing'[Host] => Len(items[Host]) > 1
        /\ \A d \in Devices \ {Host} : loaded'[d] = loaded[d] /\ playing'[d] = playing[d]
    BY <1>1
  <2>2. /\ playing'[Host] => loaded'[Host]
        /\ loaded'[Host] => items'[Host] # << >>
    BY <1>3, <1>7, <2>1
  <2>3. \A d \in Devices : (playing'[d] => loaded'[d]) /\ (loaded'[d] => items'[d] # << >>)
    BY <1>7, <2>1, <2>2
  <2>. QED BY <1>1, <1>8, <1>9, <2>1, <2>3 DEF PlayerTypeOK
<1>11. PlayerFollows'
  BY <1>1, <1>2, <1>3, <1>4, <1>6, <1>7, <1>9 DEF PlayerFollows, PlayerIsShown, viewVars
<1>. QED BY <1>10, <1>11 DEF PlayInv, ViewsTyped, viewVars

LEMMA AppendIsLonger ==
  ASSUME NEW S, NEW t \in Seq(S), NEW x \in S
  PROVE  /\ Append(t, x) \in Seq(S) /\ Append(t, x) # << >>
         /\ Len(Append(t, x)) = Len(t) + 1 /\ Len(t) \in Nat
<1>1. Append(t, x) \in Seq(S) /\ Append(t, x) # << >> /\ Len(Append(t, x)) = Len(t) + 1
  BY AppendProperties
<1>. QED BY <1>1

\* A song that is added is shown last, and the last of the player.
LEMMA AddPlays ==
  ASSUME PlayInv, NEW s \in Songs, ShowAdded(Host, s), Enqueue(Host, s, ~closed[Host]),
         UNCHANGED <<songsPlayed, joined, closed>>
  PROVE  PlayInv' /\ Shown(Host)' = Append(Shown(Host), s)
<1>. USE PlayTypes
<1>. DEFINE cur == currentSong[Host]
            next == songQueue[Host]
<1>1. /\ Shown(Host) = ShownOf(cur, next)
      /\ cur \in MaybeSongs /\ next \in Seq(Songs)
      /\ Shown(Host) \in Seq(Songs) /\ items[Host] \in Seq(Songs)
      /\ IsSuffix(items[Host], Shown(Host))
  BY HostShows
<1>2. s \in MaybeSongs /\ s # NoSong /\ Append(next, s) \in Seq(Songs)
  BY TypesAssumption, <1>1 DEF MaybeSongs
<1>3. IF cur = NoSong
      THEN currentSong' = [currentSong EXCEPT ![Host] = s] /\ songQueue' = songQueue
      ELSE songQueue' = [songQueue EXCEPT ![Host] = Append(next, s)] /\ currentSong' = currentSong
  BY DEF ShowAdded
<1>4. /\ currentSong' \in [Devices -> MaybeSongs] /\ songQueue' \in [Devices -> Seq(Songs)]
      /\ currentSong'[Host] # NoSong
  BY <1>1, <1>2, <1>3
<1>5. Shown(Host)' = Append(Shown(Host), s)
  <2>1. Shown(Host)' = ShownOf(currentSong'[Host], songQueue'[Host])
    BY DEF Shown, ShownOf
  <2>2. /\ currentSong'[Host] = IF cur = NoSong THEN s ELSE cur
        /\ songQueue'[Host] = IF cur = NoSong THEN next ELSE Append(next, s)
    BY <1>3
  <2>3. Append(ShownOf(cur, next), s)
          = IF cur = NoSong THEN ShownOf(s, next) ELSE ShownOf(cur, Append(next, s))
    BY <1>1, ShownAdded
  <2>. HIDE DEF cur, next
  <2>. QED BY <1>1, <2>1, <2>2, <2>3
<1>. HIDE DEF cur, next
<1>6. PlayerTypeOK' /\ PlayerFollows'
  <2>1. CASE hasSetInitialQueue[Host]
    <3>1. /\ items' = [items EXCEPT ![Host] = Append(items[Host], s)]
          /\ UNCHANGED <<hasSetInitialQueue, loaded, playing, preparing, notes>>
      BY <2>1 DEF Enqueue
    <3>. DEFINE it == items[Host]
                sh == Shown(Host)
    <3>2. /\ Append(it, s) \in Seq(Songs) /\ Append(it, s) # << >>
          /\ Len(Append(it, s)) = Len(it) + 1 /\ Len(Append(sh, s)) = Len(sh) + 1
          /\ Len(it) \in Nat /\ Len(sh) \in Nat
      <4>1. it \in Seq(Songs) /\ sh \in Seq(Songs)
        BY <1>1
      <4>. HIDE DEF it, sh
      <4>. QED BY <4>1, AppendIsLonger
    <3>3. IsSuffix(Append(it, s), Append(sh, s))
      BY <1>1, SuffixAppend
    <3>4. Append(it, s) \in Seq(Items)
      BY <3>2, SeqMonotonic DEF Items
    <3>5. /\ items'[Host] = Append(it, s)
          /\ \A d \in Devices \ {Host} : items'[d] = items[d]
          /\ items' \in [Devices -> Seq(Items)]
      BY <3>1, <3>4
    <3>6. notes[Host] > 0 => ~closed[Host] /\ (loaded[Host] \/ Len(it) < Len(sh))
      OBVIOUS
    <3>. HIDE DEF it, sh
    <3>7. PlayerTypeOK'
      BY <3>1, <3>2, <3>5 DEF PlayerTypeOK
    <3>8. Shown(Host)' = Append(sh, s)
      BY <1>5 DEF sh
    <3>. DEFINE it2 == Append(it, s)
                sh2 == Append(sh, s)
    <3>. HIDE DEF it2, sh2
    <3>9. /\ it2 \in Seq(Songs) /\ Len(it2) = Len(it) + 1 /\ Len(sh2) = Len(sh) + 1
          /\ items'[Host] = it2 /\ Shown(Host)' = sh2 /\ IsSuffix(it2, sh2)
      BY <3>2, <3>3, <3>5, <3>8 DEF it2, sh2
    <3>10. Len(items'[Host]) < Len(Shown(Host)') <=> Len(it) < Len(sh)
      BY <3>2, <3>9
    <3>11. IsSuffix(items'[Host], Shown(Host)') /\ items'[Host] \in Seq(Songs)
      BY <3>9
    <3>12. notes'[Host] > 0 => ~closed'[Host] /\ (loaded'[Host] \/ Len(items'[Host]) < Len(Shown(Host)'))
      BY <3>1, <3>6, <3>10
    <3>13. PlayerFollows'
      <4>. HIDE PlayTypes
      <4>1. /\ hasSetInitialQueue'[Host] /\ (currentSong'[Host] = NoSong => songQueue'[Host] = << >>)
        BY <1>4, <2>1, <3>1
      <4>2. \A d \in Devices \ {Host} :
              ~playing'[d] /\ ~loaded'[d] /\ preparing'[d] = 0 /\ notes'[d] = 0
        BY <3>1, PlayTypes
      <4>. QED BY <3>11, <3>12, <4>1, <4>2 DEF PlayerFollows, PlayerIsShown
    <3>. QED BY <3>7, <3>13
  <2>2. CASE ~hasSetInitialQueue[Host]
    <3>1. << s >> # << >> /\ << s >> \in Seq(Songs) /\ << s >> \in Seq(Items)
      BY DEF Items
    <3>2. items[Host] = << >> /\ ~loaded[Host] /\ ~playing[Host]
      BY <2>2
    <3>3. /\ hasSetInitialQueue' = [hasSetInitialQueue EXCEPT ![Host] = TRUE]
          /\ items' = [items EXCEPT ![Host] = << s >>]
          /\ preparing' = [preparing EXCEPT ![Host] = preparing[Host] + 1]
          /\ loaded' = loaded /\ playing' = playing /\ notes' = notes
      BY <2>2, <3>2 DEF Enqueue, Notify, Prepare
    <3>4. IsSuffix(<< s >>, Shown(Host)')
      BY <1>1, <1>5, SuffixAppend
    <3>5. notes[Host] > 0 => ~closed[Host] /\ Len(<< s >>) < Len(Shown(Host)')
      <4>. DEFINE sh == Shown(Host)
                  sh2 == Append(sh, s)
      <4>1. sh \in Seq(Songs) /\ Shown(Host)' = sh2
        BY <1>1, <1>5
      <4>2. notes[Host] > 0 => ~closed[Host] /\ 0 < Len(sh)
        BY <3>2
      <4>. HIDE DEF sh
      <4>3. Len(sh2) = Len(sh) + 1 /\ Len(sh) \in Nat
        BY <4>1, AppendIsLonger
      <4>. HIDE DEF sh2
      <4>. QED BY <4>1, <4>2, <4>3
    <3>6. PlayerTypeOK'
      BY <3>1, <3>2, <3>3 DEF PlayerTypeOK
    <3>7. PlayerFollows'
      <4>1. items'[Host] = << s >> /\ hasSetInitialQueue'[Host]
        BY <3>3
      <4>2. \A d \in Devices \ {Host} :
              ~playing'[d] /\ ~loaded'[d] /\ preparing'[d] = 0 /\ notes'[d] = 0
        BY <3>3
      <4>3. notes'[Host] > 0 =>
              ~closed'[Host] /\ (loaded'[Host] \/ Len(items'[Host]) < Len(Shown(Host)'))
        BY <3>3, <3>5, <4>1
      <4>. QED BY <1>4, <3>1, <3>4, <4>1, <4>2, <4>3 DEF PlayerFollows, PlayerIsShown
    <3>. QED BY <3>6, <3>7
  <2>. QED BY <2>1, <2>2
<1>. QED BY <1>4, <1>5, <1>6 DEF PlayInv, ViewsTyped

\* An attendee shows the queue of a snapshot.
LEMMA UnplayedType ==
  ASSUME NEW q \in Queues, \A i \in DOMAIN q : q[i].song # NoSong
  PROVE  Unplayed(q) \in Seq(Songs)
<1>. DEFINE slots == {i \in DOMAIN q : ~q[i].played}
<1>1. IsQueue(q) /\ IsFiniteSet(DOMAIN q)
  BY TypedIsQueue
<1>2. DOMAIN q \subseteq Nat /\ \A i \in DOMAIN q : q[i] \in Entry
  BY <1>1 DEF IsQueue
<1>3. \A i \in DOMAIN q : q[i].song \in Songs
  BY <1>2 DEF Entry, MaybeSongs
<1>4. slots \subseteq DOMAIN q
  OBVIOUS
<1>5. slots \subseteq Nat /\ IsFiniteSet(slots)
  <2>1. IsFiniteSet(slots)
    BY <1>1, <1>4, FS_Subset
  <2>. QED BY <1>2, <1>4, <2>1
<1>6. Unplayed(q) = [k \in 1..Cardinality(slots) |-> q[NthSlot(slots, k)].song]
  BY DEF Unplayed
<1>. HIDE DEF slots
<1>7. Cardinality(slots) \in Nat
  BY <1>5, FS_CardinalityType
<1>8. \A k \in 1..Cardinality(slots) : q[NthSlot(slots, k)].song \in Songs
  BY <1>3, <1>4, <1>5, NthIsSlot
<1>. QED BY <1>6, <1>7, <1>8

LEMMA ChangePlays ==
  ASSUME PlayInv, EventsTyped, NEW d \in Devices, QueueDidChange(d)
  PROVE  PlayInv'
<1>. USE PlayTypes
<1>. DEFINE q == Head(events[d])
            toPlay == Unplayed(q)
<1>1. /\ d # Host /\ events[d] # << >>
      /\ UNCHANGED <<playerVars, songsPlayed, joined, closed>>
      /\ \/ UNCHANGED <<currentSong, songQueue>>
         \/ /\ Decodable(q)
            /\ currentSong' = [currentSong EXCEPT ![d] =
                                 IF toPlay = << >> THEN NoSong ELSE Head(toPlay)]
            /\ songQueue' = [songQueue EXCEPT ![d] =
                               IF toPlay = << >> THEN << >> ELSE Tail(toPlay)]
  BY DEF QueueDidChange
<1>2. q \in Queues
  <2>1. events[d] \in Seq(Queues)
    BY <1>1 DEF EventsTyped
  <2>. QED BY <1>1, <2>1, HeadTailProperties
<1>. HIDE DEF q
<1>3. Decodable(q) => toPlay \in Seq(Songs)
  BY <1>2, UnplayedType DEF Decodable
<1>. HIDE DEF toPlay
<1>4. CASE UNCHANGED <<currentSong, songQueue>>
  BY <1>1, <1>4, PlayStays DEF viewVars
<1>5. CASE /\ Decodable(q)
           /\ currentSong' = [currentSong EXCEPT ![d] =
                                IF toPlay = << >> THEN NoSong ELSE Head(toPlay)]
           /\ songQueue' = [songQueue EXCEPT ![d] =
                              IF toPlay = << >> THEN << >> ELSE Tail(toPlay)]
  <2>1. /\ (IF toPlay = << >> THEN NoSong ELSE Head(toPlay)) \in MaybeSongs
        /\ (IF toPlay = << >> THEN << >> ELSE Tail(toPlay)) \in Seq(Songs)
    <3>1. toPlay # << >> => Head(toPlay) \in Songs /\ Tail(toPlay) \in Seq(Songs)
      BY <1>3, <1>5, HeadTailProperties
    <3>. QED BY <3>1 DEF MaybeSongs
  <2>2. /\ currentSong' \in [Devices -> MaybeSongs] /\ songQueue' \in [Devices -> Seq(Songs)]
        /\ currentSong'[Host] = currentSong[Host] /\ songQueue'[Host] = songQueue[Host]
    BY <1>1, <1>5, <2>1
  <2>3. Shown(Host)' = Shown(Host)
    BY <2>2 DEF Shown
  <2>. QED BY <1>1, <2>2, <2>3
           DEF PlayInv, ViewsTyped, PlayerTypeOK, PlayerFollows, PlayerIsShown, playerVars
<1>. QED BY <1>1, <1>4, <1>5

\* The host leaves the song that has finished, and its player keeps what it has.
LEMMA NextPlays ==
  ASSUME PlayInv, MaxNotes = 1, NEW d \in Devices, NowPlayingChanged(d)
  PROVE  /\ PlayInv' /\ d = Host
         /\ IF IsOtherItem(Host)
            THEN Shown(Host) # << >> /\ Shown(Host)' = Tail(Shown(Host))
            ELSE Shown(Host)' = Shown(Host)
         /\ (IsOtherItem(Host) /\ ~hasSetInitialQueue'[Host]) => items[Host] = << >>
<1>. USE PlayTypes
<1>1. d = Host /\ notes[Host] > 0 /\ notes' = [notes EXCEPT ![Host] = notes[Host] - 1]
  <2>1. notes[d] > 0 /\ notes' = [notes EXCEPT ![d] = notes[d] - 1]
    BY DEF NowPlayingChanged, TakeNote
  <2>2. d = Host
    BY <2>1
  <2>. QED BY <2>1, <2>2
<1>2. notes' \in [Devices -> 0..MaxNotes] /\ \A e \in Devices : notes'[e] = 0
  BY <1>1
<1>3. UNCHANGED <<joined, closed>>
  BY DEF NowPlayingChanged
<1>4. CASE ~IsOtherItem(Host)
  <2>1. UNCHANGED <<hasSetInitialQueue, items, loaded, playing, preparing, viewVars>>
    BY <1>1, <1>4 DEF NowPlayingChanged
  <2>2. PlayInv'
    BY <1>2, <1>3, <2>1, ItemsStay
  <2>. QED BY <1>1, <1>4, <2>1, <2>2 DEF Shown, viewVars
<1>5. CASE IsOtherItem(Host)
  <2>. DEFINE cur == currentSong[Host]
              next == songQueue[Host]
              sh == Shown(Host)
  <2>1. /\ cur # NoSong /\ Len(items[Host]) < Len(sh)
        /\ sh \in Seq(Songs) /\ items[Host] \in Seq(Songs) /\ IsSuffix(items[Host], sh)
        /\ sh # << >> /\ Tail(sh) = next /\ next \in Seq(Songs)
    BY <1>1, <1>5, FinishedIsGone, HostShows
  <2>2. IsSuffix(items[Host], next)
    <3>. HIDE DEF next, sh
    <3>1. IsSuffix(items[Host], Tail(sh))
      BY <2>1, SuffixOfTail
    <3>. QED BY <2>1, <3>1
  <2>3. /\ currentSong' = [currentSong EXCEPT ![Host] = IF next = << >> THEN NoSong ELSE Head(next)]
        /\ songQueue' = [songQueue EXCEPT ![Host] = IF next = << >> THEN next ELSE Tail(next)]
        /\ songsPlayed' = [songsPlayed EXCEPT ![Host] = songsPlayed[Host] + 1]
        /\ IF next = << >>
           THEN /\ hasSetInitialQueue' = [hasSetInitialQueue EXCEPT ![Host] = FALSE]
                /\ UNCHANGED <<items, loaded, playing, preparing>>
           ELSE UNCHANGED <<hasSetInitialQueue, items, loaded, playing, preparing>>
    BY <1>1, <1>5 DEF NowPlayingChanged, ShowNext, FinishAndCount, ClearAfterLast, ClearQueue
  <2>. HIDE DEF sh
  <2>4. /\ currentSong' \in [Devices -> MaybeSongs] /\ songQueue' \in [Devices -> Seq(Songs)]
        /\ songsPlayed' \in [Devices -> Nat]
        /\ currentSong'[Host] = NoSong => songQueue'[Host] = << >>
    <3>1. next # << >> => Head(next) \in Songs /\ Tail(next) \in Seq(Songs)
      BY <2>1, HeadTailProperties
    <3>. HIDE DEF next
    <3>. QED BY <2>1, <2>3, <3>1, TypesAssumption DEF MaybeSongs
  <2>5. Shown(Host)' = next
    <3>1. Shown(Host)' = ShownOf(currentSong'[Host], songQueue'[Host])
      BY DEF Shown, ShownOf
    <3>2. /\ currentSong'[Host] = IF next = << >> THEN NoSong ELSE Head(next)
          /\ songQueue'[Host] = IF next = << >> THEN next ELSE Tail(next)
      BY <2>3
    <3>3. IF next = << >> THEN ShownOf(NoSong, next) = next
                          ELSE ShownOf(Head(next), Tail(next)) = next
      BY <2>1, ShownNext
    <3>. HIDE DEF next
    <3>. QED BY <3>1, <3>2, <3>3
  <2>6. next = << >> => items[Host] = << >>
    <3>1. Len(items[Host]) <= Len(next) /\ Len(items[Host]) \in Nat
      BY <2>1, <2>2, SuffixLength
    <3>. QED BY <2>1, <3>1
  <2>. HIDE DEF cur, next
  <2>7. /\ PlayerTypeOK' /\ items' = items /\ loaded' = loaded /\ playing' = playing
        /\ preparing' = preparing
    BY <1>2, <2>3 DEF PlayerTypeOK
  <2>8. hasSetInitialQueue'[Host] \/ items[Host] = << >>
    BY <2>3, <2>6
  <2>9. PlayerFollows'
    BY <1>2, <2>1, <2>2, <2>4, <2>5, <2>7, <2>8 DEF PlayerFollows, PlayerIsShown
  <2>. QED BY <1>1, <1>3, <1>5, <2>1, <2>4, <2>5, <2>7, <2>8, <2>9 DEF PlayInv, ViewsTyped, sh
<1>. QED BY <1>4, <1>5

\* Another device than the host resumes.
LEMMA ResumePlays ==
  ASSUME PlayInv, TypeOK, CastsSucceed, Host \notin MayRestart, NEW d \in Devices, ResumeSession(d)
  PROVE  PlayInv' /\ d # Host /\ Restart(d) /\ Shown(Host)' = Shown(Host)
<1>. USE PlayTypes
<1>1. /\ Restart(d) \/ TrapOnCast(d)
      /\ ~TrapOnCast(d) => d \in MayRestart
      /\ joined' = [joined EXCEPT ![d] = FALSE] /\ closed' = closed
      /\ currentSong' = [currentSong EXCEPT ![d] = NoSong]
      /\ songQueue' = [songQueue EXCEPT ![d] = << >>]
      /\ songsPlayed' = [songsPlayed EXCEPT ![d] = 0]
      /\ hasSetInitialQueue' = [hasSetInitialQueue EXCEPT ![d] = FALSE]
      /\ preparing' = [preparing EXCEPT ![d] = 0] /\ notes' = [notes EXCEPT ![d] = 0]
      /\ UNCHANGED <<items, loaded, playing>>
  BY DEF ResumeSession, PlayerForgets
<1>2. ~TrapOnCast(d)
  <2>. SUFFICES ASSUME TrapOnCast(d) PROVE FALSE
    OBVIOUS
  <2>1. adding[d] # << >> /\ CastFails(Head(adding[d]))
    BY DEF TrapOnCast
  <2>2. Head(adding[d]) = adding[d][1] /\ 1 \in DOMAIN adding[d]
    BY <2>1 DEF TypeOK
  <2>. QED BY <2>1, <2>2 DEF CastsSucceed
<1>3. d # Host /\ Restart(d)
  BY <1>1, <1>2
<1>4. << >> \in Seq(Songs) /\ NoSong \in MaybeSongs
  BY DEF MaybeSongs
<1>5. /\ currentSong' \in [Devices -> MaybeSongs] /\ songQueue' \in [Devices -> Seq(Songs)]
      /\ songsPlayed' \in [Devices -> Nat] /\ joined' \in [Devices -> BOOLEAN]
      /\ currentSong'[Host] = currentSong[Host] /\ songQueue'[Host] = songQueue[Host]
      /\ hasSetInitialQueue'[Host] = hasSetInitialQueue[Host]
      /\ notes' \in [Devices -> 0..MaxNotes] /\ notes'[Host] = notes[Host]
      /\ preparing' \in [Devices -> Nat]
      /\ \A e \in Devices \ {Host} : preparing'[e] = 0 /\ notes'[e] = 0
  BY <1>1, <1>3, <1>4
<1>6. Shown(Host)' = Shown(Host)
  BY <1>5 DEF Shown
<1>7. PlayerTypeOK' /\ PlayerFollows'
  BY <1>1, <1>5, <1>6 DEF PlayInv, PlayerTypeOK, PlayerFollows, PlayerIsShown
<1>. QED BY <1>1, <1>3, <1>5, <1>6, <1>7 DEF PlayInv, ViewsTyped

-----------------------------------------------------------------------------
(***************************************************************************)
(* The host hears of each slot once.                                       *)
(***************************************************************************)
Inv == DataInv /\ PlayInv /\ EventsTyped /\ HeardOnce /\ MarksAreOld

\* The count of songs played is the slot of the song shown as playing.
LEMMA CountIsSeen ==
  ASSUME Inv, Shown(Host) # << >>
  PROVE  /\ Listening(Host)
         /\ songsPlayed[Host] \in Nat /\ songsPlayed[Host] \in DOMAIN View(Host)
<1>. USE PartyAssumption
<1>1. Listening(Host)
  BY DEF Inv, HeardOnce
<1>2. PICK n \in Nat : DOMAIN View(Host) = 0..(n - 1)
  BY <1>1, ViewsAreSound, SegmentElim DEF Inv, ViewsSound
<1>3. Cardinality(DOMAIN View(Host)) = n
  BY <1>2, CountInterval
<1>4. songsPlayed[Host] + Len(Shown(Host)) + Len(events[Host]) = n
  BY <1>1, <1>3 DEF Inv, HeardOnce
<1>5. songsPlayed[Host] \in Nat /\ Len(events[Host]) \in Nat /\ Len(Shown(Host)) \in Nat \ {0}
  <2>1. Shown(Host) \in Seq(Songs)
    BY HostShows DEF Inv
  <2>2. events[Host] \in Seq(Entry)
    BY DEF Inv, EventsTyped
  <2>. QED BY <2>1, <2>2, PlayTypes DEF Inv
<1>. QED BY <1>1, <1>2, <1>4, <1>5

\* Nothing the host has heard of changes.
LEMMA HeardStays ==
  ASSUME Inv, Shown(Host)' = Shown(Host), songsPlayed'[Host] = songsPlayed[Host],
         events'[Host] = events[Host], cache'[Host] = cache[Host],
         outbox'[Host] = outbox[Host], unacked'[Host] = unacked[Host],
         observers'[Host] = observers[Host]
  PROVE  HeardOnce'
<1>1. View(Host)' = View(Host) /\ Listening(Host)' = Listening(Host)
  BY DEF View, Pending, Listening
<1>2. HeardOnce
  BY DEF Inv
<1>. QED BY <1>1, <1>2 DEF HeardOnce

\* A device writes, sends, receives or listens, and the host hears of what is new.
LEMMA HearsMore ==
  ASSUME MaxObservers = 1, Inv, DataInv', MarksAreOld',
         NEW d \in Devices, DataMove(d), RaiseEvents,
         NEW c \in {0, 1}, songsPlayed'[Host] = songsPlayed[Host] + c,
         Shown(Host)' \in Seq(Songs), Len(Shown(Host)') + c = Len(Shown(Host))
  PROVE  EventsTyped' /\ HeardOnce'
<1>. USE PartyAssumption
<1>1. /\ DataInv /\ EventsTyped /\ TypeOK /\ NoHolesInv /\ MarksUpTo(songsPlayed[Host])
      /\ observers[Host] \in Nat /\ observers[Host] <= 1
  BY DEF Inv, HeardOnce, DataInv, TypeOK, DBTypeOK, MarksAreOld
<1>2. EventsTyped' /\ \E n, m \in Nat : HostHears(n, m)
  BY <1>1, RaiseStep
<1>3. PICK n, m \in Nat : HostHears(n, m)
  BY <1>2
<1>. DEFINE new == [k \in 1..(m - n) |-> View(Host)'[n + k - 1]]
<1>4. /\ n <= m /\ new \in Seq(Entry) /\ events'[Host] = events[Host] \o new
      /\ Listening(Host) => Cardinality(DOMAIN View(Host)) = n
      /\ ~Listening(Host) => n = 0
      /\ Listening(Host)' => DOMAIN View(Host)' = 0..(m - 1) /\ Cardinality(DOMAIN View(Host)') = m
      /\ ~Listening(Host)' => m = 0
  BY <1>3 DEF HostHears
<1>5. Listening(Host) => Listening(Host)'
  BY <1>1, ViewGrows
<1>6. /\ songsPlayed[Host] \in Nat /\ events[Host] \in Seq(Entry)
      /\ Shown(Host) \in Seq(Songs)
  BY PlayTypes, HostShows DEF Inv, EventsTyped
<1>7. /\ Len(events[Host]) \in Nat /\ Len(Shown(Host)) \in Nat /\ Len(Shown(Host)') \in Nat
      /\ Len(new) = m - n /\ DOMAIN new = 1..(m - n)
      /\ Len(events'[Host]) = Len(events[Host]) + (m - n)
  <2>1. Len(new) = m - n /\ DOMAIN new = 1..(m - n)
    BY <1>4
  <2>2. Len(events[Host] \o new) = Len(events[Host]) + Len(new)
    BY <1>4, <1>6, ConcatProperties
  <2>. HIDE DEF new
  <2>. QED BY <1>4, <1>6, <2>1, <2>2
<1>8. /\ Listening(Host) => songsPlayed[Host] + Len(Shown(Host)) + Len(events[Host]) = n
      /\ ~Listening(Host) => /\ songsPlayed[Host] = 0 /\ Shown(Host) = << >>
                             /\ events[Host] = << >>
  BY <1>4 DEF Inv, HeardOnce
<1>9. /\ ~Listening(Host) => /\ c = 0 /\ Len(Shown(Host)') = 0 /\ Shown(Host)' = << >>
                             /\ Len(events[Host]) = 0
      /\ songsPlayed'[Host] <= n
  <2>1. CASE Listening(Host)
    BY <1>6, <1>7, <1>8, <2>1
  <2>2. CASE ~Listening(Host)
    <3>1. Len(Shown(Host)) = 0 /\ Len(events[Host]) = 0
      BY <1>8, <2>2
    <3>2. c = 0 /\ Len(Shown(Host)') = 0
      BY <1>7, <3>1
    <3>. QED BY <1>4, <1>8, <2>2, <3>1, <3>2
  <2>. QED BY <2>1, <2>2
<1>10. observers'[Host] <= MaxObservers
  <2>1. CASE observers' = observers
    BY <1>1, <2>1
  <2>2. CASE ~Listening(d) /\ observers' = [observers EXCEPT ![d] = @ + 1]
    BY <1>1, <2>2 DEF TypeOK, DBTypeOK, Listening
  <2>3. \/ observers' = observers
        \/ ~Listening(d) /\ observers' = [observers EXCEPT ![d] = @ + 1]
    BY DEF DataMove, SharedMove, SubscribeToUpdates, Observe, RefuseDuplicate, StoreSong,
           SetValue, Transmit, ServerApply, Receive, Deliver, LoseConnection, Reconnect,
           DidFinish, dbVars
  <2>. QED BY <2>1, <2>2, <2>3
<1>11. \A k \in DOMAIN new : new[k].song # NoSong /\ ~new[k].played
  <2>. SUFFICES ASSUME NEW k \in 1..(m - n)
                PROVE  View(Host)'[n + k - 1].song # NoSong /\ ~View(Host)'[n + k - 1].played
    BY <1>7
  <2>1. Listening(Host)' /\ n + k - 1 \in 0..(m - 1)
    BY <1>4
  <2>2. ViewsSound'
    BY ViewsAreSound, PTL
  <2>3. View(Host)'[n + k - 1].song # NoSong
    BY <1>4, <2>1, <2>2 DEF ViewsSound, AllSongs
  <2>4. PlayedBefore(View(Host)', songsPlayed'[Host])
    <3>1. /\ PlayedBefore(cache'[Host], songsPlayed'[Host])
          /\ MarksBefore(outbox'[Host], songsPlayed'[Host])
          /\ MarksBefore(unacked'[Host], songsPlayed'[Host])
      BY DEF MarksAreOld, MarksUpTo
    <3>2. /\ outbox'[Host] \in Seq(Write) /\ unacked'[Host] \in Seq(Write)
          /\ songsPlayed'[Host] \in Nat
      BY <1>6 DEF DataInv, TypeOK, DBTypeOK
    <3>3. MarksBefore(Pending(Host)', songsPlayed'[Host])
      BY <3>1, <3>2, MarksBeforeSeq DEF Pending
    <3>4. PlayedBefore(Overlay(cache'[Host], Pending(Host)'), songsPlayed'[Host])
      BY <3>1, <3>3, OverlayPlayed
    <3>. QED BY <3>4 DEF View
  <2>5. ~View(Host)'[n + k - 1].played
    <3>1. ~(n + k - 1 < songsPlayed'[Host])
      BY <1>6, <1>9
    <3>. QED BY <1>4, <2>1, <2>4, <3>1 DEF PlayedBefore
  <2>. QED BY <2>3, <2>5
<1>. HIDE DEF new
<1>12. \A k \in DOMAIN events'[Host] :
          events'[Host][k].song # NoSong /\ ~events'[Host][k].played
  <2>. DEFINE old == events[Host]
              both == events'[Host]
  <2>1. /\ DOMAIN both = 1..(Len(old) + Len(new)) /\ DOMAIN old = 1..Len(old)
        /\ \A k \in 1..(Len(old) + Len(new)) :
              both[k] = IF k <= Len(old) THEN old[k] ELSE new[k - Len(old)]
    <3>1. both = old \o new /\ old \in Seq(Entry) /\ new \in Seq(Entry)
      BY <1>4, <1>6
    <3>. HIDE DEF both, old
    <3>2. old \o new \in Seq(Entry) /\ Len(old \o new) = Len(old) + Len(new)
      BY <3>1, ConcatProperties
    <3>3. DOMAIN (old \o new) = 1..(Len(old) + Len(new))
      BY <3>2
    <3>. QED BY <3>1, <3>3, ConcatProperties
  <2>2. \A k \in DOMAIN old : old[k].song # NoSong /\ ~old[k].played
    BY DEF Inv, HeardOnce
  <2>. SUFFICES ASSUME NEW k \in DOMAIN both
                PROVE  both[k].song # NoSong /\ ~both[k].played
    OBVIOUS
  <2>. HIDE DEF both, old
  <2>3. \/ k \in DOMAIN old /\ both[k] = old[k]
        \/ k - Len(old) \in DOMAIN new /\ both[k] = new[k - Len(old)]
    <3>1. Len(old) \in Nat /\ Len(new) \in Nat /\ DOMAIN new = 1..Len(new)
      BY <1>4, <1>7 DEF old
    <3>2. k \in 1..(Len(old) + Len(new))
      BY <2>1
    <3>. QED BY <2>1, <3>1, <3>2
  <2>. QED BY <1>11, <2>2, <2>3
<1>13. IF Listening(Host)'
       THEN songsPlayed'[Host] + Len(Shown(Host)') + Len(events'[Host])
              = Cardinality(DOMAIN View(Host)')
       ELSE songsPlayed'[Host] = 0 /\ Shown(Host)' = << >> /\ events'[Host] = << >>
  <2>. DEFINE p == songsPlayed[Host]
              s == Len(Shown(Host))
              s2 == Len(Shown(Host)')
              e == Len(events[Host])
              e2 == Len(events'[Host])
  <2>0. /\ p \in Nat /\ s \in Nat /\ s2 \in Nat /\ e \in Nat
        /\ e2 = e + (m - n) /\ s2 + c = s /\ songsPlayed'[Host] = p + c
        /\ Listening(Host) => p + s + e = n
        /\ ~Listening(Host) => p = 0 /\ c = 0 /\ s2 = 0 /\ e = 0 /\ n = 0
    BY <1>4, <1>6, <1>7, <1>8, <1>9
  <2>. HIDE DEF p, s, s2, e, e2
  <2>1. CASE Listening(Host)
    <3>1. (p + c) + s2 + e2 = m
      BY <2>0, <2>1
    <3>. QED BY <1>4, <1>5, <2>0, <2>1, <3>1 DEF s2, e2
  <2>2. CASE ~Listening(Host) /\ Listening(Host)'
    <3>1. (p + c) + s2 + e2 = m
      BY <2>0, <2>2
    <3>. QED BY <1>4, <2>0, <2>2, <3>1 DEF s2, e2
  <2>3. CASE ~Listening(Host) /\ ~Listening(Host)'
    <3>1. m = 0 /\ n = 0 /\ songsPlayed'[Host] = 0 /\ Shown(Host)' = << >>
      BY <1>4, <1>8, <1>9, <2>3
    <3>2. Len(events'[Host]) = 0
      BY <1>7, <1>9, <2>3, <3>1
    <3>3. events'[Host] \in Seq(Entry)
      BY <1>2 DEF EventsTyped
    <3>. QED BY <2>3, <3>1, <3>2, <3>3
  <2>. QED BY <1>5, <2>1, <2>2, <2>3
<1>. QED BY <1>2, <1>10, <1>12, <1>13 DEF HeardOnce

\* The host handles the oldest snapshot.
LEMMA HandlesOne ==
  ASSUME Inv, events[Host] # << >>, events' = [events EXCEPT ![Host] = Tail(@)],
         UNCHANGED <<dbVars, songsPlayed>>, Shown(Host)' \in Seq(Songs),
         Len(Shown(Host)') = Len(Shown(Host)) + 1
  PROVE  HeardOnce'
<1>. USE PartyAssumption
<1>. DEFINE evs == events[Host]
            rest == Tail(evs)
<1>1. evs \in Seq(Entry) /\ evs # << >>
  BY DEF Inv, EventsTyped
<1>2. events'[Host] = rest
  BY DEF Inv, EventsTyped
<1>3. /\ Len(rest) = Len(evs) - 1 /\ Len(evs) \in Nat
      /\ DOMAIN rest = 1..(Len(evs) - 1) /\ DOMAIN evs = 1..Len(evs)
      /\ \A k \in 1..(Len(evs) - 1) : rest[k] = evs[k + 1]
  <2>. HIDE DEF evs
  <2>. QED BY <1>1, HeadTailProperties
<1>4. \A k \in DOMAIN evs : evs[k].song # NoSong /\ ~evs[k].played
  BY DEF Inv, HeardOnce
<1>5. View(Host)' = View(Host) /\ Listening(Host)' = Listening(Host) /\ observers' = observers
  BY DEF View, Pending, Listening, dbVars
<1>. DEFINE old == Len(Shown(Host))
<1>6. Listening(Host) /\ songsPlayed[Host] + old + Len(evs) = Cardinality(DOMAIN View(Host))
  BY <1>1 DEF Inv, HeardOnce
<1>7. songsPlayed[Host] \in Nat /\ old \in Nat
  BY PlayTypes, HostShows DEF Inv
<1>8. Len(Shown(Host)') = old + 1
  OBVIOUS
<1>. HIDE DEF evs, rest, old
<1>9. songsPlayed'[Host] + Len(Shown(Host)') + Len(events'[Host]) = Cardinality(DOMAIN View(Host)')
  <2>. DEFINE p == songsPlayed[Host]
              c == Cardinality(DOMAIN View(Host))
              l == Len(evs)
              l2 == Len(rest)
  <2>1. p + old + l = c /\ l2 = l - 1 /\ p \in Nat /\ old \in Nat /\ l \in Nat
    BY <1>3, <1>6, <1>7
  <2>. HIDE DEF p, c, l, l2
  <2>2. p + (old + 1) + l2 = c
    BY <2>1
  <2>. QED BY <1>2, <1>5, <1>8, <2>2 DEF p, c, l2
<1>10. \A k \in DOMAIN rest : rest[k].song # NoSong /\ ~rest[k].played
  <2>1. \A k \in DOMAIN rest : k + 1 \in DOMAIN evs /\ rest[k] = evs[k + 1]
    BY <1>3
  <2>. QED BY <1>4, <2>1
<1>11. observers[Host] <= MaxObservers
  BY DEF Inv, HeardOnce
<1>. QED BY <1>2, <1>5, <1>6, <1>9, <1>10, <1>11 DEF HeardOnce

\* A device handles its oldest snapshot, or forgets all.
LEMMA EventsLeave ==
  ASSUME EventsTyped, NEW d \in Devices,
         \/ events' = events
         \/ events[d] # << >> /\ events' = [events EXCEPT ![d] = Tail(@)]
         \/ events' = [events EXCEPT ![d] = << >>]
  PROVE  EventsTyped'
<1>. USE PartyAssumption
<1>. DEFINE left == IF events' = events THEN events[d]
                    ELSE IF events' = [events EXCEPT ![d] = << >>] THEN << >> ELSE Tail(events[d])
<1>1. events' = [events EXCEPT ![d] = left]
  BY DEF EventsTyped
<1>2. ASSUME NEW S, events[d] \in Seq(S) PROVE left \in Seq(S)
  <2>1. << >> \in Seq(S)
    OBVIOUS
  <2>2. events[d] # << >> => Tail(events[d]) \in Seq(S)
    BY <1>2, HeadTailProperties
  <2>. QED BY <1>2, <2>1, <2>2
<1>. HIDE DEF left
<1>. QED BY <1>1, <1>2 DEF EventsTyped

-----------------------------------------------------------------------------
(***************************************************************************)
(* The steps of the party.                                                 *)
(***************************************************************************)

\* The first subscription of a device is the only one.
LEMMA SubscribesOnce ==
  ASSUME Undisturbed, TypeOK, NEW d \in Devices, HasValidSession(d)
  PROVE  ~Listening(d) /\ SubscribeToUpdates(d)
BY DEF Undisturbed, HasValidSession, Listening, TypeOK, DBTypeOK

\* The view controllers use the Datastore as it expects.
LEMMA PartyMoves ==
  ASSUME Undisturbed, Inv, [PartyNext]_partyVars
  PROVE  [Next]_vars
<1>. USE PartyAssumption
<1>1. TypeOK /\ CastsSucceed /\ PlayInv
  BY DEF Inv, DataInv, CastsInv
<1>2. CASE UNCHANGED partyVars
  BY <1>2 DEF partyVars
<1>3. CASE TapPlayPause \/ TapNext
  BY <1>3 DEF TapPlayPause, TapNext
<1>4. ASSUME NEW d \in Devices, HasValidSession(d) PROVE Next
  BY <1>1, <1>4, SubscribesOnce DEF Next
<1>5. ASSUME NEW d \in Devices,
             JoinParty(d) \/ DidAddSong(d) \/ QueueDidChange(d) \/ TapClose(d) \/ SongFinishes(d)
                \/ PlayerIsPrepared(d) \/ OwnerPlays(d)
      PROVE  UNCHANGED vars
  BY <1>5 DEF JoinParty, DidAddSong, QueueDidChange, TapClose, SongFinishes,
              PlayerIsPrepared, OwnerPlays
<1>6. ASSUME NEW d \in Devices, NEW s \in Songs, TapSong(d, s) PROVE Next
  BY <1>6 DEF TapSong, Next
<1>7. ASSUME NEW d \in Devices, AddSongCallback(d) PROVE Next
  BY <1>7 DEF AddSongCallback, Next
<1>8. ASSUME NEW d \in Devices, Network(d) PROVE Next
  BY <1>8 DEF Network, Next
<1>9. ASSUME NEW d \in Devices, NowPlayingChanged(d) PROVE Next \/ UNCHANGED vars
  <2>1. d = Host /\ (IsOtherItem(Host) => Shown(Host) # << >>)
    BY <1>1, <1>9, NextPlays DEF Undisturbed
  <2>2. CASE IsOtherItem(Host)
    <3>1. /\ DidFinish(Host, songsPlayed[Host]) /\ Listening(Host)
          /\ songsPlayed[Host] \in DOMAIN View(Host)
      BY <1>9, <2>1, <2>2, CountIsSeen DEF NowPlayingChanged, FinishAndCount
    <3>. QED BY <3>1 DEF Next
  <2>3. CASE ~IsOtherItem(Host)
    BY <1>9, <2>1, <2>3 DEF NowPlayingChanged
  <2>. QED BY <2>2, <2>3
<1>10. ASSUME NEW d \in Devices, ResumeSession(d) PROVE Next
  <2>1. Restart(d)
    BY <1>1, <1>10, ResumePlays DEF Undisturbed
  <2>. QED BY <2>1 DEF Next
<1>. QED BY <1>2, <1>3, <1>4, <1>5, <1>6, <1>7, <1>8, <1>9, <1>10 DEF PartyNext

\* So what holds of the Datastore goes on to hold.
LEMMA DataStays ==
  ASSUME Undisturbed, Inv, [PartyNext]_partyVars
  PROVE  DataInv'
<1>1. [Next]_vars
  BY PartyMoves
<1>. QED BY <1>1, TypeStep, NoHolesStep, CastsStep DEF Inv, DataInv

\* Nothing of the database changes, nor what the host counts.
LEMMA MarksRest ==
  ASSUME Inv, UNCHANGED dbVars, songsPlayed'[Host] = songsPlayed[Host]
  PROVE  MarksAreOld'
BY DEF Inv, MarksAreOld, MarksUpTo, dbVars

\* A step that only moves the player or shows another queue on an attendee.
LEMMA RestKeeps ==
  ASSUME Undisturbed, Inv, [PartyNext]_partyVars, PlayInv', EventsTyped', UNCHANGED vars,
         Shown(Host)' = Shown(Host), songsPlayed'[Host] = songsPlayed[Host],
         events'[Host] = events[Host]
  PROVE  Inv'
<1>1. DataInv'
  BY DataStays
<1>2. UNCHANGED dbVars
  BY DEF vars
<1>3. MarksAreOld'
  BY <1>2, MarksRest
<1>4. HeardOnce'
  BY <1>2, HeardStays DEF dbVars
<1>. QED BY <1>1, <1>3, <1>4 DEF Inv

\* A step of the Datastore that marks no song.
LEMMA MoveKeeps ==
  ASSUME Undisturbed, Inv, [PartyNext]_partyVars, NEW d \in Devices, SharedMove(d),
         RaiseEvents, UNCHANGED <<playerVars, viewVars, joined, closed>>
  PROVE  Inv'
<1>. USE PartyAssumption
<1>1. DataInv' /\ PlayInv /\ TypeOK
  BY DataStays DEF Inv, DataInv
<1>2. PlayInv' /\ Shown(Host)' = Shown(Host) /\ songsPlayed' = songsPlayed
  BY <1>1, PlayStays, PlayTypes DEF Shown, viewVars
<1>3. MarksAreOld'
  <2>1. PICK n \in Nat : n = songsPlayed[Host]
    BY <1>1, PlayTypes
  <2>2. MarksUpTo(n)
    BY <2>1 DEF Inv, MarksAreOld
  <2>3. MarksUpTo(n)'
    BY <1>1, <2>2, MarksStay
  <2>. QED BY <1>2, <2>1, <2>3 DEF MarksAreOld
<1>4. EventsTyped' /\ HeardOnce'
  <2>1. Shown(Host) \in Seq(Songs) /\ songsPlayed[Host] \in Nat
    BY <1>1, HostShows, PlayTypes
  <2>2. /\ Shown(Host)' \in Seq(Songs) /\ Len(Shown(Host)') + 0 = Len(Shown(Host))
        /\ songsPlayed'[Host] = songsPlayed[Host] + 0
    BY <1>2, <2>1
  <2>3. DataMove(d) /\ MaxObservers = 1 /\ 0 \in {0, 1}
    BY DEF DataMove, Undisturbed
  <2>. QED BY <1>1, <1>3, <2>2, <2>3, HearsMore
<1>. QED BY <1>1, <1>2, <1>3, <1>4 DEF Inv

LEMMA DidAddKeeps ==
  ASSUME Undisturbed, Inv, [PartyNext]_partyVars, NEW d \in Devices, DidAddSong(d)
  PROVE  Inv'
<1>. USE PartyAssumption
<1>. DEFINE entry == Head(events[Host])
<1>1. /\ d = Host /\ events[Host] # << >> /\ events' = [events EXCEPT ![Host] = Tail(events[Host])]
      /\ UNCHANGED <<vars, joined, closed>>
  BY DEF DidAddSong
<1>2. entry \in Entry /\ entry.song # NoSong /\ ~entry.played
  <2>1. events[Host] \in Seq(Entry)
    BY DEF Inv, EventsTyped
  <2>2. entry = events[Host][1] /\ 1 \in DOMAIN events[Host] /\ entry \in Entry
    BY <1>1, <2>1
  <2>. QED BY <2>2 DEF Inv, HeardOnce
<1>3. entry.song \in Songs
  BY <1>2 DEF Entry, MaybeSongs
<1>4. /\ ShowAdded(Host, entry.song) /\ Enqueue(Host, entry.song, ~closed[Host])
      /\ UNCHANGED songsPlayed
  BY <1>1, <1>2 DEF DidAddSong
<1>. HIDE DEF entry
<1>5. PlayInv /\ Shown(Host) \in Seq(Songs)
  BY HostShows DEF Inv
<1>6. PlayInv' /\ Shown(Host)' = Append(Shown(Host), entry.song)
  BY <1>1, <1>3, <1>4, <1>5, AddPlays
<1>7. Shown(Host)' \in Seq(Songs) /\ Len(Shown(Host)') = Len(Shown(Host)) + 1
  BY <1>3, <1>5, <1>6, AppendIsLonger
<1>8. UNCHANGED dbVars
  BY <1>1 DEF vars
<1>9. HeardOnce'
  BY <1>1, <1>4, <1>7, <1>8, HandlesOne
<1>10. EventsTyped'
  BY <1>1, EventsLeave DEF Inv
<1>11. MarksAreOld'
  BY <1>4, <1>8, MarksRest
<1>. QED BY <1>6, <1>9, <1>10, <1>11, DataStays DEF Inv

LEMMA NowPlayingKeeps ==
  ASSUME Undisturbed, Inv, [PartyNext]_partyVars, NEW d \in Devices, NowPlayingChanged(d)
  PROVE  Inv'
<1>. USE PartyAssumption
<1>1. PlayInv /\ MaxNotes = 1 /\ TypeOK
  BY DEF Inv, DataInv, Undisturbed
<1>2. /\ PlayInv' /\ d = Host
      /\ IsOtherItem(Host) => Shown(Host) # << >> /\ Shown(Host)' = Tail(Shown(Host))
      /\ ~IsOtherItem(Host) => Shown(Host)' = Shown(Host)
  BY <1>1, NextPlays
<1>3. CASE ~IsOtherItem(Host)
  <2>1. UNCHANGED <<vars, viewVars, events>>
    BY <1>2, <1>3 DEF NowPlayingChanged
  <2>2. EventsTyped'
    BY <1>2, <2>1, EventsLeave DEF Inv
  <2>. QED BY <1>2, <1>3, <2>1, <2>2, RestKeeps DEF viewVars
<1>4. CASE IsOtherItem(Host)
  <2>1. /\ DidFinish(Host, songsPlayed[Host]) /\ RaiseEvents
        /\ songsPlayed' = [songsPlayed EXCEPT ![Host] = songsPlayed[Host] + 1]
    BY <1>2, <1>4 DEF NowPlayingChanged, FinishAndCount
  <2>2. PICK n \in Nat : n = songsPlayed[Host]
    BY <1>1, PlayTypes
  <2>3. songsPlayed'[Host] = n + 1
    BY <1>1, <2>1, <2>2, PlayTypes
  <2>4. MarksAreOld'
    <3>1. MarksUpTo(n + 1)
      BY <1>1, <2>2, MarksUpToMore DEF Inv, MarksAreOld
    <3>2. \E i \in Nat : i < n + 1 /\ DidFinish(Host, i)
      BY <2>1, <2>2
    <3>3. PICK m \in Nat : m = n + 1
      BY <2>2
    <3>4. MarksUpTo(m)'
      BY <1>1, <3>1, <3>2, <3>3, MarksStay
    <3>. QED BY <2>3, <3>3, <3>4 DEF MarksAreOld
  <2>5. Shown(Host)' \in Seq(Songs) /\ Len(Shown(Host)') + 1 = Len(Shown(Host))
    <3>. DEFINE sh == Shown(Host)
    <3>1. sh \in Seq(Songs) /\ sh # << >> /\ Shown(Host)' = Tail(sh)
      BY <1>1, <1>2, <1>4, HostShows
    <3>. HIDE DEF sh
    <3>2. Tail(sh) \in Seq(Songs) /\ Len(Tail(sh)) = Len(sh) - 1 /\ Len(sh) \in Nat
      BY <3>1, HeadTailProperties
    <3>. QED BY <3>1, <3>2 DEF sh
  <2>6. DataMove(Host) /\ 1 \in {0, 1} /\ MaxObservers = 1
    BY <2>1, <2>2 DEF DataMove, Undisturbed
  <2>7. EventsTyped' /\ HeardOnce'
    BY <2>1, <2>2, <2>3, <2>4, <2>5, <2>6, HearsMore, DataStays
  <2>. QED BY <1>2, <2>4, <2>7, DataStays DEF Inv
<1>. QED BY <1>3, <1>4

LEMMA ResumeKeeps ==
  ASSUME Undisturbed, Inv, [PartyNext]_partyVars, NEW d \in Devices, ResumeSession(d)
  PROVE  Inv'
<1>. USE PartyAssumption
<1>1. PlayInv /\ TypeOK /\ CastsSucceed
  BY DEF Inv, DataInv, CastsInv
<1>2. PlayInv' /\ d # Host /\ Restart(d) /\ Shown(Host)' = Shown(Host)
  BY <1>1, ResumePlays DEF Undisturbed
<1>3. /\ events' = [events EXCEPT ![d] = << >>]
      /\ songsPlayed' = [songsPlayed EXCEPT ![d] = 0]
  BY DEF ResumeSession
<1>4. events'[Host] = events[Host] /\ songsPlayed'[Host] = songsPlayed[Host]
  BY <1>1, <1>2, <1>3, PlayTypes DEF Inv, EventsTyped
<1>5. EventsTyped'
  BY <1>3, EventsLeave DEF Inv
<1>6. MarksAreOld'
  <2>1. PICK n \in Nat : n = songsPlayed[Host]
    BY <1>1, PlayTypes
  <2>2. MarksUpTo(n)'
    BY <1>1, <1>2, <2>1, MarksStay DEF Inv, MarksAreOld
  <2>. QED BY <1>4, <2>1, <2>2 DEF MarksAreOld
<1>7. HeardOnce'
  <2>1. /\ cache'[Host] = cache[Host] /\ outbox'[Host] = outbox[Host]
        /\ unacked'[Host] = unacked[Host] /\ observers'[Host] = observers[Host]
    BY <1>1, <1>2 DEF Restart, AppDies, Forget, TypeOK, DBTypeOK
  <2>. QED BY <1>2, <1>4, <2>1, HeardStays
<1>. QED BY <1>2, <1>5, <1>6, <1>7, DataStays DEF Inv

\* Every step of an undisturbed party keeps all of it.
LEMMA PartyStep ==
  ASSUME Undisturbed, Inv, [PartyNext]_partyVars
  PROVE  Inv'
<1>. USE PartyAssumption
<1>1. PlayInv /\ EventsTyped /\ TypeOK
  BY DEF Inv, DataInv
<1>2. CASE UNCHANGED partyVars
  <2>1. UNCHANGED <<vars, playerVars, viewVars, joined, closed, events>>
    BY <1>2 DEF partyVars
  <2>2. PlayInv' /\ EventsTyped'
    BY <1>1, <2>1, PlayStays, EventsLeave, PlayTypes
  <2>. QED BY <2>1, <2>2, RestKeeps DEF Shown, viewVars
<1>3. CASE TapPlayPause
  <2>1. UNCHANGED <<vars, viewVars, events>>
    BY <1>3 DEF TapPlayPause
  <2>2. PlayInv' /\ EventsTyped'
    BY <1>1, <1>3, <2>1, PlayPausePlays, EventsLeave
  <2>. QED BY <2>1, <2>2, RestKeeps DEF Shown, viewVars
<1>4. ASSUME NEW obs \in BOOLEAN, obs => ~closed[Host], loaded[Host], Advance(Host, obs),
             UNCHANGED <<vars, viewVars, joined, closed, events>>
      PROVE  Inv'
  <2>1. PlayInv' /\ EventsTyped'
    BY <1>1, <1>4, AdvancePlays, EventsLeave
  <2>. QED BY <1>4, <2>1, RestKeeps DEF Shown, viewVars
<1>5. CASE TapNext
  BY <1>4, <1>5 DEF TapNext, SkipToNext, InParty
<1>6. ASSUME NEW d \in Devices, SongFinishes(d) PROVE Inv'
  <2>1. /\ playing[d] /\ Advance(d, InParty(d))
        /\ UNCHANGED <<vars, viewVars, joined, closed, events>>
    BY <1>6 DEF SongFinishes, SongEnds
  <2>2. d = Host /\ loaded[Host]
    BY <1>1, <2>1, PlayTypes
  <2>3. InParty(Host) \in BOOLEAN /\ (InParty(Host) => ~closed[Host])
    BY DEF InParty
  <2>. QED BY <1>4, <2>1, <2>2, <2>3
<1>7. ASSUME NEW d \in Devices, TapClose(d) PROVE Inv'
  <2>1. UNCHANGED <<vars, viewVars, events>>
    BY <1>7 DEF TapClose
  <2>2. PlayInv' /\ EventsTyped'
    BY <1>1, <1>7, <2>1, ClosePlays, EventsLeave
  <2>. QED BY <2>1, <2>2, RestKeeps DEF Shown, viewVars
<1>8. ASSUME NEW d \in Devices, JoinParty(d) PROVE Inv'
  <2>1. /\ UNCHANGED <<vars, playerVars, viewVars, closed, events>>
        /\ joined' \in [Devices -> BOOLEAN]
    BY <1>1, <1>8, PlayTypes DEF JoinParty
  <2>2. PlayInv' /\ EventsTyped'
    BY <1>1, <1>8, <2>1, PlayStays, EventsLeave
  <2>. QED BY <2>1, <2>2, RestKeeps DEF Shown, viewVars
<1>9. ASSUME NEW d \in Devices, NEW s \in Songs, TapSong(d, s) PROVE Inv'
  <2>1. /\ UNCHANGED <<dbVars, playerVars, viewVars, joined, closed, events>>
    BY <1>9 DEF TapSong, AddSong
  <2>2. PlayInv' /\ EventsTyped'
    BY <1>1, <2>1, PlayStays, EventsLeave, PlayTypes
  <2>3. /\ Shown(Host)' = Shown(Host) /\ songsPlayed'[Host] = songsPlayed[Host]
        /\ events'[Host] = events[Host]
    BY <2>1 DEF Shown, viewVars
  <2>4. HeardOnce' /\ MarksAreOld'
    BY <2>1, <2>3, HeardStays, MarksRest DEF dbVars
  <2>. QED BY <2>2, <2>4, DataStays DEF Inv
<1>10. ASSUME NEW d \in Devices, HasValidSession(d) \/ AddSongCallback(d) \/ Network(d) PROVE Inv'
  <2>1. SharedMove(d)
    BY <1>1, <1>10, SubscribesOnce DEF SharedMove, AddSongCallback, Network
  <2>2. RaiseEvents /\ UNCHANGED <<playerVars, viewVars, joined, closed>>
    BY <1>10 DEF HasValidSession, AddSongCallback, Network
  <2>. QED BY <2>1, <2>2, MoveKeeps
<1>11. ASSUME NEW d \in Devices, QueueDidChange(d) PROVE Inv'
  <2>1. /\ d # Host /\ events[d] # << >> /\ events' = [events EXCEPT ![d] = Tail(@)]
        /\ UNCHANGED <<vars, songsPlayed>>
    BY <1>11 DEF QueueDidChange
  <2>2. PlayInv' /\ EventsTyped'
    BY <1>1, <1>11, <2>1, ChangePlays, EventsLeave
  <2>3. currentSong'[Host] = currentSong[Host] /\ songQueue'[Host] = songQueue[Host]
    BY <1>1, <1>11, <2>1, PlayTypes DEF QueueDidChange
  <2>4. events'[Host] = events[Host]
    BY <1>1, <2>1 DEF EventsTyped
  <2>. QED BY <2>1, <2>2, <2>3, <2>4, RestKeeps DEF Shown
<1>12. ASSUME NEW d \in Devices, OwnerPlays(d) PROVE Inv'
  BY <1>12 DEF OwnerPlays, Undisturbed
<1>13. ASSUME NEW d \in Devices, PlayerIsPrepared(d) PROVE Inv'
  <2>1. UNCHANGED <<vars, viewVars, events>>
    BY <1>13 DEF PlayerIsPrepared
  <2>2. PlayInv' /\ EventsTyped'
    BY <1>1, <1>13, <2>1, PreparedPlays, EventsLeave
  <2>. QED BY <2>1, <2>2, RestKeeps DEF Shown, viewVars
<1>. QED BY <1>2, <1>3, <1>5, <1>6, <1>7, <1>8, <1>9, <1>10, <1>11, <1>12, <1>13,
            DidAddKeeps, NowPlayingKeeps, ResumeKeeps DEF PartyNext

\* A party starts with nothing.
LEMMA PartyStarts ==
  ASSUME Undisturbed, PartyInit
  PROVE  Inv
<1>. USE PartyAssumption, PlayerAssumption
<1>1. Init /\ PlayerInit
  BY DEF PartyInit
<1>2. DataInv
  BY <1>1, TypeInit, NoHolesInit, CastsInit DEF DataInv
<1>3. /\ currentSong[Host] = NoSong /\ songQueue[Host] = << >> /\ songsPlayed[Host] = 0
      /\ events[Host] = << >> /\ items[Host] = << >> /\ observers[Host] = 0
  BY <1>1 DEF PartyInit, PlayerInit, Init, DBInit
<1>4. ViewsTyped
  <2>1. << >> \in Seq(Songs) /\ NoSong \in MaybeSongs
    BY DEF MaybeSongs
  <2>. QED BY <2>1 DEF PartyInit, ViewsTyped
<1>5. PlayerTypeOK
  <2>1. << >> \in Seq(Items) /\ 0 \in 0..MaxNotes
    OBVIOUS
  <2>. QED BY <1>1, <2>1 DEF PlayerInit, PlayerTypeOK
<1>6. Shown(Host) = << >>
  BY <1>3, ShownParts DEF Shown, ShownOf, MaybeSongs
<1>7. PlayerFollows
  <2>1. << >> \in Seq(Songs)
    OBVIOUS
  <2>2. IsSuffix(<< >>, << >>)
    BY <2>1, SuffixEnds
  <2>. QED BY <1>1, <1>3, <1>6, <2>1, <2>2 DEF PlayerInit, PlayerFollows, PlayerIsShown
<1>8. EventsTyped
  <2>1. \A S : << >> \in Seq(S)
    OBVIOUS
  <2>. QED BY <2>1 DEF PartyInit, EventsTyped
<1>9. HeardOnce
  BY <1>3, <1>6 DEF HeardOnce, Listening
<1>10. MarksAreOld
  <2>1. /\ server = EmptyQueue
        /\ \A d \in Devices : /\ cache[d] = EmptyQueue /\ inbox[d] = << >>
                              /\ outbox[d] = << >> /\ unacked[d] = << >>
    BY <1>1 DEF Init, DBInit
  <2>2. PlayedBefore(EmptyQueue, 0) /\ MarksBefore(<< >>, 0) /\ Writes(<< >>) = << >>
    BY MarksBeforeEmpty DEF PlayedBefore, EmptyQueue
  <2>. QED BY <1>3, <2>1, <2>2 DEF MarksAreOld, MarksUpTo
<1>. QED BY <1>2, <1>4, <1>5, <1>7, <1>8, <1>9, <1>10 DEF Inv, PlayInv

-----------------------------------------------------------------------------
(***************************************************************************)
(* The theorems.                                                           *)
(***************************************************************************)

\* In an undisturbed party the host keeps in step with its player and with the
\* queue: it hears of every slot once, and no mark is for a slot it has not counted.
THEOREM PartyInvHolds ==
  ASSUME Undisturbed
  PROVE  PartySpec => [](Inv /\ PartyInv)
<1>1. PartyInit => Inv
  BY PartyStarts
<1>2. Inv /\ [PartyNext]_partyVars => Inv'
  BY PartyStep
<1>3. Inv => PartyInv
  BY DEF Inv, PlayInv, PartyInv
<1>. QED BY <1>1, <1>2, <1>3, PTL DEF PartySpec

\* Every variable of an undisturbed party holds values of its kind: what the host
\* hears of are entries, and what an attendee hears of are queues.
THEOREM PartyTypeCorrect ==
  ASSUME Undisturbed
  PROVE  PartySpec => []PartyTypeOK
<1>1. Inv => PartyTypeOK
  <2>. SUFFICES ASSUME Inv PROVE PartyTypeOK
    OBVIOUS
  <2>1. ASSUME NEW d \in Devices, NEW k \in DOMAIN events[d]
        PROVE  IF d = Host THEN events[d][k] \in Entry ELSE IsQueue(events[d][k])
    <3>1. CASE d = Host
      <4>1. events[Host] \in Seq(Entry)
        BY DEF Inv, EventsTyped
      <4>. QED BY <3>1, <4>1
    <3>2. CASE d # Host
      <4>1. events[d] \in Seq(Queues)
        BY <3>2 DEF Inv, EventsTyped
      <4>2. events[d][k] \in Queues
        BY <4>1
      <4>. QED BY <3>2, <4>2, TypedIsQueue
    <3>. QED BY <3>1, <3>2
  <2>. QED BY <2>1 DEF Inv, DataInv, PlayInv, ViewsTyped, PartyTypeOK
<1>. QED BY <1>1, PartyInvHolds, PTL

\* The host is never ahead of its player: what the player has left to play is the
\* end of what the host shows, in the same order.
THEOREM PlayerIsShownHolds ==
  ASSUME Undisturbed
  PROVE  PartySpec => []PlayerIsShown
<1>1. PartyInv => PlayerIsShown
  BY DEF PartyInv, PlayerFollows
<1>. QED BY <1>1, PartyInvHolds, PTL

\* The view controllers implement the callers that Datastore assumes: they mark as
\* played only slots in the view of their device, so all that is proved of
\* Datastore holds in the party.
THEOREM PartyUsesDatastore ==
  ASSUME Undisturbed
  PROVE  PartySpec => Spec
<1>1. PartyInit => Init
  BY DEF PartyInit
<1>2. Inv /\ [PartyNext]_partyVars => [Next]_vars
  BY PartyMoves
<1>. QED BY <1>1, <1>2, PartyInvHolds, PTL DEF PartySpec, Spec

\* "We know it's finished": when the host has nothing left to show and clears its
\* player, the player is done.
THEOREM ClearedWhenFinishedHolds ==
  ASSUME Undisturbed
  PROVE  PartySpec => ClearedWhenFinished
<1>. DEFINE Cleared == hasSetInitialQueue'[Host] = FALSE /\ songsPlayed'[Host] > songsPlayed[Host]
                         => items[Host] = << >>
<1>1. Inv /\ [PartyNext]_partyVars => [Cleared]_partyVars
  <2>. SUFFICES ASSUME Inv, PartyNext PROVE Cleared
    OBVIOUS
  <2>. USE PartyAssumption
  <2>1. PlayInv /\ TypeOK /\ CastsSucceed /\ songsPlayed[Host] \in Nat
    BY PlayTypes DEF Inv, DataInv, CastsInv
  <2>2. ASSUME songsPlayed'[Host] = songsPlayed[Host] PROVE Cleared
    BY <2>1, <2>2
  <2>3. ASSUME NEW d \in Devices, NowPlayingChanged(d) PROVE Cleared
    <3>1. /\ d = Host
          /\ IsOtherItem(Host) /\ ~hasSetInitialQueue'[Host] => items[Host] = << >>
      BY <2>1, <2>3, NextPlays DEF Undisturbed
    <3>2. CASE IsOtherItem(Host)
      BY <3>1, <3>2
    <3>3. CASE ~IsOtherItem(Host)
      BY <2>2, <2>3, <3>1, <3>3 DEF NowPlayingChanged, viewVars
    <3>. QED BY <3>2, <3>3
  <2>4. ASSUME NEW d \in Devices, ResumeSession(d) PROVE Cleared
    <3>1. d # Host /\ songsPlayed' = [songsPlayed EXCEPT ![d] = 0]
      BY <2>1, <2>4, ResumePlays DEF Undisturbed, ResumeSession
    <3>. QED BY <2>1, <2>2, <3>1, PlayTypes
  <2>5. ASSUME NEW d \in Devices,
               \/ JoinParty(d) \/ HasValidSession(d) \/ (\E s \in Songs : TapSong(d, s))
               \/ AddSongCallback(d) \/ Network(d) \/ QueueDidChange(d)
               \/ TapClose(d) \/ PlayerIsPrepared(d) \/ SongFinishes(d) \/ OwnerPlays(d)
        PROVE  Cleared
    <3>1. songsPlayed' = songsPlayed
      BY <2>5 DEF JoinParty, HasValidSession, TapSong, AddSongCallback, Network, QueueDidChange,
                  TapClose, PlayerIsPrepared, SongFinishes, OwnerPlays, viewVars
    <3>. QED BY <2>2, <3>1
  <2>6. ASSUME NEW d \in Devices, DidAddSong(d) PROVE Cleared
    <3>1. songsPlayed' = songsPlayed
      BY <2>6 DEF DidAddSong, viewVars
    <3>. QED BY <2>2, <3>1
  <2>7. ASSUME TapPlayPause \/ TapNext PROVE Cleared
    <3>1. songsPlayed' = songsPlayed
      BY <2>7 DEF TapPlayPause, TapNext, viewVars
    <3>. QED BY <2>2, <3>1
  <2>. HIDE DEF Cleared
  <2>. QED BY <2>3, <2>4, <2>5, <2>6, <2>7 DEF PartyNext
<1>. QED BY <1>1, PartyInvHolds, PTL DEF PartySpec, ClearedWhenFinished

\* The player of the host is a jukebox: each song it is given is played after the
\* ones before it, and leaves from the front.
THEOREM HostIsJukeboxHolds ==
  ASSUME Undisturbed
  PROVE  PartySpec => HostIsJukebox
<1>. USE PartyAssumption
<1>. DEFINE Plays == Player!Next \/ UNCHANGED <<items[Host], playing[Host]>>
<1>1. PartyInit => Player!Init
  BY DEF PartyInit, PlayerInit, Player!Init
<1>2. Inv /\ [PartyNext]_partyVars => [Player!Next]_<<items[Host], playing[Host]>>
  <2>. SUFFICES ASSUME Inv, [PartyNext]_partyVars PROVE Plays
    OBVIOUS
  <2>1. PlayInv /\ TypeOK /\ CastsSucceed /\ EventsTyped
    BY DEF Inv, DataInv, CastsInv
  <2>2. /\ items \in [Devices -> Seq(Items)] /\ playing \in [Devices -> BOOLEAN]
        /\ playing[Host] => items[Host] # << >>
        /\ loaded[Host] => items[Host] # << >>
        /\ hasSetInitialQueue[Host] \/ items[Host] = << >>
    BY <2>1, PlayTypes
  <2>3. ASSUME UNCHANGED <<items, playing>> PROVE Plays
    BY <2>3
  <2>4. CASE TapPlayPause
    <3>1. CASE Play(Host)
      BY <2>3, <3>1 DEF Play
    <3>2. CASE Pause(Host)
      <4>1. items' = items /\ items[Host] # << >> /\ playing'[Host] = ~playing[Host]
        BY <2>2, <3>2 DEF Pause
      <4>. QED BY <4>1 DEF Player!Next, Player!PlayOrPause
    <3>. QED BY <2>4, <3>1, <3>2 DEF TapPlayPause
  <2>5. ASSUME NEW obs, loaded[Host], Advance(Host, obs) PROVE Plays
    <3>1. /\ items[Host] # << >> /\ items'[Host] = Tail(items[Host])
          /\ playing'[Host] = (playing[Host] /\ Len(items[Host]) > 1)
      BY <2>2, <2>5 DEF Advance
    <3>2. playing'[Host] \in {playing[Host], FALSE}
      BY <2>2, <3>1
    <3>3. playing'[Host] => items'[Host] # << >>
      <4>. DEFINE it == items[Host]
                  rest == Tail(it)
      <4>1. it \in Seq(Items) /\ it # << >>
        BY <2>2, <3>1
      <4>. HIDE DEF it
      <4>2. Len(rest) = Len(it) - 1 /\ Len(it) \in Nat
        BY <4>1, HeadTailProperties
      <4>. HIDE DEF rest
      <4>3. Len(it) > 1 => rest # << >>
        BY <4>2
      <4>. QED BY <3>1, <4>3 DEF it, rest
    <3>. QED BY <3>1, <3>2, <3>3 DEF Player!Next, Player!Finish
  <2>6. CASE TapNext
    BY <2>5, <2>6 DEF TapNext, SkipToNext
  <2>7. ASSUME NEW d \in Devices, SongFinishes(d) PROVE Plays
    <3>1. playing[d] /\ Advance(d, InParty(d))
      BY <2>7 DEF SongFinishes, SongEnds
    <3>2. d = Host /\ loaded[Host]
      BY <2>1, <3>1, PlayTypes
    <3>. QED BY <2>5, <3>1, <3>2
  <2>8. ASSUME NEW d \in Devices, TapClose(d) PROVE Plays
    <3>1. items' = items /\ playing' = [playing EXCEPT ![d] = FALSE]
      BY <2>8 DEF TapClose, Stop
    <3>2. CASE d = Host /\ playing[Host]
      <4>1. playing'[Host] = ~playing[Host]
        BY <2>2, <3>1, <3>2
      <4>. QED BY <2>2, <3>1, <3>2, <4>1 DEF Player!Next, Player!PlayOrPause
    <3>3. CASE ~(d = Host /\ playing[Host])
      BY <2>2, <3>1, <3>3
    <3>. QED BY <3>2, <3>3
  <2>9. ASSUME NEW d \in Devices, DidAddSong(d) PROVE Plays
    <3>. DEFINE s == Head(events[Host]).song
    <3>1. d = Host /\ events[Host] # << >>
      BY <2>9 DEF DidAddSong
    <3>2. CASE UNCHANGED <<items, playing>>
      BY <2>3, <3>2
    <3>3. CASE s # NoSong /\ Enqueue(Host, s, ~closed[Host])
      <4>1. s \in Songs
        <5>1. events[Host] \in Seq(Entry)
          BY <2>1 DEF EventsTyped
        <5>2. Head(events[Host]) \in Entry
          BY <3>1, <5>1
        <5>. QED BY <3>3, <5>2 DEF Entry, MaybeSongs
      <4>. HIDE DEF s
      <4>2. items'[Host] = Append(items[Host], s) /\ playing'[Host] = playing[Host]
        <5>1. CASE hasSetInitialQueue[Host]
          BY <2>2, <3>3, <5>1 DEF Enqueue
        <5>2. CASE ~hasSetInitialQueue[Host]
          <6>1. items' = [items EXCEPT ![Host] = << s >>] /\ playing' = playing
            BY <3>3, <5>2 DEF Enqueue
          <6>2. Append(<< >>, s) = << s >>
            OBVIOUS
          <6>. QED BY <2>2, <5>2, <6>1, <6>2
        <5>. QED BY <5>1, <5>2
      <4>. QED BY <4>1, <4>2 DEF Player!Next, Player!Give
    <3>. QED BY <2>9, <3>1, <3>2, <3>3 DEF DidAddSong, playerVars
  <2>10. ASSUME NEW d \in Devices, NowPlayingChanged(d) PROVE Plays
    <3>1. UNCHANGED <<items, playing>>
      BY <2>10 DEF NowPlayingChanged, ClearAfterLast, ClearQueue
    <3>. QED BY <2>3, <3>1
  <2>11. ASSUME NEW d \in Devices,
                \/ JoinParty(d) \/ HasValidSession(d) \/ (\E s \in Songs : TapSong(d, s))
                \/ AddSongCallback(d) \/ Network(d) \/ QueueDidChange(d) \/ ResumeSession(d)
         PROVE  Plays
    <3>1. UNCHANGED <<items, playing>>
      BY <2>11 DEF JoinParty, HasValidSession, TapSong, AddSongCallback, Network,
                   QueueDidChange, ResumeSession, PlayerForgets, playerVars
    <3>. QED BY <2>3, <3>1
  <2>12. ASSUME NEW d \in Devices, OwnerPlays(d) PROVE Plays
    BY <2>12 DEF OwnerPlays, Undisturbed
  <2>13. ASSUME NEW d \in Devices, PlayerIsPrepared(d) PROVE Plays
    <3>1. /\ d = Host /\ items' = items
          /\ PlayItem(d, InParty(d)) \/ UNCHANGED <<loaded, playing, notes>>
      BY <2>1, <2>13, PreparedPlays DEF PlayerIsPrepared, Prepared
    <3>2. CASE PlayItem(d, InParty(d)) /\ ~playing[Host]
      <4>1. items[Host] # << >> /\ playing'[Host] = ~playing[Host]
        BY <2>2, <3>1, <3>2 DEF PlayItem
      <4>. QED BY <3>1, <4>1 DEF Player!Next, Player!PlayOrPause
    <3>3. CASE PlayItem(d, InParty(d)) /\ playing[Host]
      BY <2>2, <3>1, <3>3 DEF PlayItem
    <3>. QED BY <3>1, <3>2, <3>3
  <2>14. CASE UNCHANGED partyVars
    BY <2>3, <2>14 DEF partyVars, playerVars
  <2>. HIDE DEF Plays
  <2>. QED BY <2>4, <2>6, <2>7, <2>8, <2>9, <2>10, <2>11, <2>12, <2>13, <2>14 DEF PartyNext
<1>. QED BY <1>1, <1>2, PartyInvHolds, PTL
         DEF PartySpec, HostIsJukebox, Player!Spec, Player!jukeboxVars

=============================================================================

------------------------ MODULE PlaylistImport_proofs ------------------------
(***************************************************************************)
(* Proofs about PlaylistImport: its variables hold values of their kind,   *)
(* and addSongs uses the Datastore as a user who taps songs does, so that  *)
(* what is proved of the queue holds while playlists are added to it.      *)
(* When one device adds, and none of its reads are under way together, the *)
(* songs of a playlist keep their order.                                   *)
(***************************************************************************)
EXTENDS PlaylistImport, DatastoreSole_proofs

-----------------------------------------------------------------------------
(***************************************************************************)
(* Ends of sequences, which the library compares backwards.                *)
(***************************************************************************)
LEMMA PrefixPoints ==
  ASSUME NEW S, NEW s \in Seq(S), NEW t \in Seq(S)
  PROVE  IsPrefix(s, t) <=> Len(s) <= Len(t) /\ \A i \in 1..Len(s) : s[i] = t[i]
<1>. DEFINE m == Len(s)
            n == Len(t)
<1>1. m \in Nat /\ n \in Nat /\ SubSeq(s, 1, m) = s
  BY SubSeqFull
<1>2. CASE m <= n
  <2>1. /\ SubSeq(t, 1, m) \in Seq(S) /\ Len(SubSeq(t, 1, m)) = m
        /\ \A i \in 1..m : SubSeq(t, 1, m)[i] = t[i]
    <3>1. \A i \in 1..m : t[i] \in S
      BY <1>1, <1>2
    <3>. HIDE DEF m
    <3>. QED BY <1>1, <3>1, SubSeqProperties
  <2>. DEFINE u == SubSeq(t, 1, m)
  <2>2. (\A i \in 1..m : s[i] = u[i]) <=> s = u
    <3>. HIDE DEF u
    <3>. QED BY <2>1 DEF u
  <2>. QED BY <1>1, <1>2, <2>1, <2>2 DEF IsPrefix
<1>3. CASE ~(m <= n)
  BY <1>3 DEF IsPrefix
<1>. QED BY <1>2, <1>3

LEMMA ReverseType ==
  ASSUME NEW S, NEW s \in Seq(S)
  PROVE  /\ Reverse(s) \in Seq(S) /\ Len(Reverse(s)) = Len(s)
         /\ \A i \in 1..Len(s) : Reverse(s)[i] = s[Len(s) - i + 1]
BY DEF Reverse

\* A sequence is an end of itself, and what follows the first element of an end is one.
LEMMA SuffixTail ==
  ASSUME NEW S, NEW s \in Seq(S), NEW t \in Seq(S)
  PROVE  /\ IsSuffix(s, s)
         /\ s # << >> /\ IsSuffix(s, t) => IsSuffix(Tail(s), t)
<1>1. IsSuffix(s, s)
  BY ReverseType, PrefixPoints DEF IsSuffix
<1>2. ASSUME s # << >>, IsSuffix(s, t) PROVE IsSuffix(Tail(s), t)
  <2>. DEFINE m == Len(s)
              r == Tail(s)
  <2>1. /\ r \in Seq(S) /\ Len(r) = m - 1 /\ m \in Nat /\ m > 0
        /\ \A i \in 1..(m - 1) : r[i] = s[i + 1]
    <3>1. r \in Seq(S) /\ Len(r) = m - 1 /\ \A i \in 1..Len(r) : r[i] = s[i + 1]
      BY <1>2, HeadTailProperties
    <3>. QED BY <1>2, <3>1
  <2>2. /\ Reverse(s) \in Seq(S) /\ Len(Reverse(s)) = m
        /\ \A i \in 1..m : Reverse(s)[i] = s[m - i + 1]
        /\ Reverse(t) \in Seq(S)
    BY ReverseType
  <2>3. m <= Len(Reverse(t)) /\ \A i \in 1..m : Reverse(s)[i] = Reverse(t)[i]
    BY <1>2, <2>2, PrefixPoints DEF IsSuffix
  <2>. HIDE DEF m, r
  <2>4. /\ Reverse(r) \in Seq(S) /\ Len(Reverse(r)) = m - 1
        /\ \A i \in 1..(m - 1) : Reverse(r)[i] = r[(m - 1) - i + 1]
    <3>1. /\ Reverse(r) \in Seq(S) /\ Len(Reverse(r)) = Len(r)
          /\ \A i \in 1..Len(r) : Reverse(r)[i] = r[Len(r) - i + 1]
      BY <2>1, ReverseType
    <3>. QED BY <2>1, <3>1
  <2>5. ASSUME NEW i \in 1..(m - 1) PROVE Reverse(r)[i] = Reverse(t)[i]
    <3>1. PICK j \in 1..(m - 1) : j = (m - 1) - i + 1
      BY <2>1
    <3>2. r[j] = s[j + 1] /\ j + 1 = m - i + 1 /\ i \in 1..m
      BY <2>1, <3>1
    <3>. QED BY <2>2, <2>3, <2>4, <3>1, <3>2
  <2>6. m - 1 <= Len(Reverse(t))
    BY <2>1, <2>2, <2>3
  <2>7. IsPrefix(Reverse(r), Reverse(t))
    BY <2>2, <2>4, <2>5, <2>6, PrefixPoints
  <2>. QED BY <2>7 DEF IsSuffix, r
<1>. QED BY <1>1, <1>2

\* The first element of an end of a sequence follows those before the end.
LEMMA SuffixHead ==
  ASSUME NEW S, NEW s \in Seq(S), NEW t \in Seq(S), IsSuffix(s, t)
  PROVE  /\ Len(s) <= Len(t)
         /\ s # << >> => t[(Len(t) - Len(s)) + 1] = Head(s)
<1>. DEFINE m == Len(s)
            n == Len(t)
<1>1. /\ Reverse(s) \in Seq(S) /\ Len(Reverse(s)) = m
      /\ \A i \in 1..m : Reverse(s)[i] = s[m - i + 1]
  BY ReverseType
<1>2. /\ Reverse(t) \in Seq(S) /\ Len(Reverse(t)) = n
      /\ \A i \in 1..n : Reverse(t)[i] = t[n - i + 1]
  BY ReverseType
<1>3. m <= n /\ \A i \in 1..m : Reverse(s)[i] = Reverse(t)[i]
  BY <1>1, <1>2, PrefixPoints DEF IsSuffix
<1>4. m \in Nat /\ n \in Nat /\ (s # << >> => m > 0 /\ Head(s) = s[1])
  OBVIOUS
<1>. HIDE DEF m, n
<1>5. ASSUME s # << >> PROVE t[(n - m) + 1] = Head(s)
  <2>1. m \in 1..m /\ m \in 1..n /\ m - m + 1 = 1 /\ n - m + 1 = (n - m) + 1
    BY <1>3, <1>4, <1>5
  <2>2. s[1] = Reverse(s)[m] /\ Reverse(t)[m] = t[(n - m) + 1]
    BY <1>1, <1>2, <2>1
  <2>. QED BY <1>3, <1>4, <1>5, <2>1, <2>2
<1>. QED BY <1>3, <1>5 DEF m, n

-----------------------------------------------------------------------------
(***************************************************************************)
(* What a fold over a sequence computes, place by place.  Induction is     *)
(* over numbers, and rests on the least element of a set of them.          *)
(***************************************************************************)
\* What holds of 0, and of n + 1 when it holds of n, holds of all.
LEMMA NumbersReached ==
  ASSUME NEW T, 0 \in T, \A n \in Nat : n \in T => n + 1 \in T
  PROVE  Nat \subseteq T
<1>1. SUFFICES ASSUME Nat \ T # {} PROVE FALSE
  OBVIOUS
<1>2. PICK n \in Nat \ T : \A m \in Nat \ T : n <= m
  BY <1>1, LeastElement
<1>3. n # 0
  OBVIOUS
<1>4. n - 1 \in Nat /\ n - 1 \in T
  BY <1>2, <1>3
<1>. QED BY <1>4

\* The two folds: an element is kept unless it repeats the last one kept, and it is
\* taken off the front of what is looked for.
KeepOrTake(keeps, x, y) ==
  IF keeps THEN IF x # << >> /\ Last(x) = y THEN x ELSE Append(x, y)
           ELSE IF x # << >> /\ Head(x) = y THEN Tail(x) ELSE x

\* What the library folds with: a function from sets of places, the last place first.
IsFold(iter, keeps, base, songs, P) ==
  iter = [s \in SUBSET P |->
             IF s = {} THEN base
             ELSE KeepOrTake(keeps, iter[s \ {Max(s)}], songs[Max(s)])]

Fold(keeps, base, songs) ==
  (CHOOSE iter : IsFold(iter, keeps, base, songs, DOMAIN songs))[DOMAIN songs]

\* The two definitions of PlaylistImport are folds of this kind.
LEMMA FoldsAre ==
  ASSUME NEW short, NEW songs
  PROVE  /\ WithoutRepeats(songs) = Fold(TRUE, << >>, songs)
         /\ IsWithin(short, songs) <=> Fold(FALSE, short, songs) = << >>
<1>1. WithoutRepeats(songs) = Fold(TRUE, << >>, songs)
  BY DEF WithoutRepeats, FoldLeft, MapThenFoldSet, Fold, IsFold, KeepOrTake
<1>2. IsWithin(short, songs) <=> Fold(FALSE, short, songs) = << >>
  BY DEF IsWithin, FoldLeft, MapThenFoldSet, Fold, IsFold, KeepOrTake
<1>. QED BY <1>1, <1>2

\* The last of some places.
LEMMA LastPlace ==
  ASSUME NEW n \in Nat, NEW s \in SUBSET (1..n), s # {}
  PROVE  /\ Max(s) \in s /\ s \ {Max(s)} \in SUBSET (1..n)
         /\ \A y \in s : y <= Max(s)
<1>1. s \subseteq Nat /\ \A y \in s : y <= n
  OBVIOUS
<1>. QED BY <1>1, MaxOfBounded

\* The function the library chooses exists.
LEMMA FoldExists ==
  ASSUME NEW keeps, NEW base, NEW songs, NEW n \in Nat
  PROVE  \E iter : IsFold(iter, keeps, base, songs, 1..n)
<1>. DEFINE T == {k \in Nat : \E iter : IsFold(iter, keeps, base, songs, 1..k)}
<1>1. 0 \in T
  <2>1. IsFold([s \in SUBSET (1..0) |-> base], keeps, base, songs, 1..0)
    <3>1. \A s \in SUBSET (1..0) : s = {}
      OBVIOUS
    <3>. QED BY <3>1 DEF IsFold
  <2>. QED BY <2>1
<1>2. ASSUME NEW k \in Nat, k \in T PROVE k + 1 \in T
  <2>1. PICK iter : IsFold(iter, keeps, base, songs, 1..k)
    BY <1>2
  <2>. DEFINE m == k + 1
              next == [s \in SUBSET (1..m) |->
                         IF m \in s THEN KeepOrTake(keeps, iter[s \ {m}], songs[m]) ELSE iter[s]]
  <2>2. m \in Nat /\ 1..m = 1..k \cup {m} /\ m \notin 1..k
    OBVIOUS
  <2>. HIDE DEF m
  <2>3. ASSUME NEW s \in SUBSET (1..m)
        PROVE  next[s] = IF s = {} THEN base
                         ELSE KeepOrTake(keeps, next[s \ {Max(s)}], songs[Max(s)])
    <3>1. CASE m \in s
      <4>1. Max(s) = m
        <5>1. Max(s) \in 1..m /\ m <= Max(s)
          BY <2>2, <3>1, LastPlace
        <5>. QED BY <2>2, <5>1
      <4>2. s \ {m} \in SUBSET (1..m) /\ m \notin s \ {m}
        OBVIOUS
      <4>3. next[s \ {m}] = iter[s \ {m}]
        BY <4>2
      <4>4. next[s] = KeepOrTake(keeps, iter[s \ {m}], songs[m])
        BY <3>1
      <4>. HIDE DEF next
      <4>. QED BY <3>1, <4>1, <4>3, <4>4
    <3>2. CASE m \notin s
      <4>1. s \in SUBSET (1..k)
        BY <2>2, <3>2
      <4>2. next[s] = iter[s]
        BY <3>2
      <4>3. iter[s] = IF s = {} THEN base
                      ELSE KeepOrTake(keeps, iter[s \ {Max(s)}], songs[Max(s)])
        BY <2>1, <4>1 DEF IsFold
      <4>4. next[s \ {Max(s)}] = iter[s \ {Max(s)}]
        BY <3>2
      <4>. HIDE DEF next
      <4>. QED BY <4>2, <4>3, <4>4
    <3>. QED BY <3>1, <3>2
  <2>4. next = [s \in SUBSET (1..m) |-> next[s]]
    OBVIOUS
  <2>. HIDE DEF next
  <2>5. IsFold(next, keeps, base, songs, 1..m)
    BY <2>3, <2>4, Zenon DEF IsFold
  <2>. QED BY <2>2, <2>5 DEF m
<1>3. n \in T
  <2>. HIDE DEF T
  <2>. QED BY <1>1, <1>2, NumbersReached
<1>. QED BY <1>3

\* One place after the other.
Folds(r, keeps, base, songs, n) ==
  /\ r[0] = base /\ r[n] = Fold(keeps, base, songs)
  /\ \A k \in 0..(n - 1) : r[k + 1] = KeepOrTake(keeps, r[k], songs[k + 1])

LEMMA FoldSteps ==
  ASSUME NEW keeps, NEW base, NEW songs, NEW n \in Nat, DOMAIN songs = 1..n
  PROVE  \E r : Folds(r, keeps, base, songs, n)
<1>. DEFINE iter == CHOOSE i : IsFold(i, keeps, base, songs, DOMAIN songs)
            r == [k \in 0..n |-> iter[1..k]]
<1>1. IsFold(iter, keeps, base, songs, 1..n)
  BY FoldExists
<1>2. Fold(keeps, base, songs) = iter[1..n]
  BY DEF Fold
<1>. HIDE DEF iter
<1>3. iter[{}] = base /\ 1..0 = {}
  BY <1>1 DEF IsFold
<1>4. ASSUME NEW k \in 0..(n - 1)
      PROVE  iter[1..(k + 1)] = KeepOrTake(keeps, iter[1..k], songs[k + 1])
  <2>. DEFINE s == 1..(k + 1)
  <2>1. s \in SUBSET (1..n) /\ s # {} /\ k + 1 \in s /\ s \ {k + 1} = 1..k
    OBVIOUS
  <2>2. \A y \in s : y <= k + 1
    OBVIOUS
  <2>. HIDE DEF s
  <2>3. Max(s) \in s /\ k + 1 <= Max(s)
    BY <2>1, LastPlace
  <2>4. Max(s) = k + 1
    <3>1. Max(s) \in 1..n /\ k + 1 \in 1..n
      BY <2>1, <2>3
    <3>. QED BY <2>2, <2>3, <3>1
  <2>5. iter[s] = KeepOrTake(keeps, iter[s \ {k + 1}], songs[k + 1])
    BY <1>1, <2>1, <2>4 DEF IsFold
  <2>. QED BY <2>1, <2>5 DEF s
<1>5. /\ r[0] = base /\ r[n] = Fold(keeps, base, songs)
      /\ \A k \in 0..(n - 1) : r[k + 1] = KeepOrTake(keeps, r[k], songs[k + 1])
  BY <1>2, <1>3, <1>4
<1>. HIDE DEF r
<1>. QED BY <1>5 DEF Folds

-----------------------------------------------------------------------------
(***************************************************************************)
(* Songs that have places in a sequence, one after the other, are within   *)
(* it once repeats are left out.                                           *)
(***************************************************************************)
\* The elements of a sequence have places g in another one, in order.
Embeds(g, short, long, m) ==
  /\ g \in [1..Len(short) -> 1..m]
  /\ \A j \in 1..Len(short) : long[g[j]] = short[j] /\ \A i \in 1..(j - 1) : g[i] < g[j]

EmbedsTo(g, short, long, m, c) ==
  Embeds(g, short, long, m) /\ \A j \in 1..Len(short) : g[j] <= c

\* One more song: it has the place of the last one kept, or a later one.
LEMMA KeepsPlaced ==
  ASSUME NEW S, NEW kept \in Seq(S), NEW x \in S, NEW long, NEW m \in Nat,
         NEW c \in 1..m, long[c] = x,
         NEW g, EmbedsTo(g, kept, long, m, c)
  PROVE  /\ KeepOrTake(TRUE, kept, x) \in Seq(S)
         /\ \E h : EmbedsTo(h, KeepOrTake(TRUE, kept, x), long, m, c)
<1>1. CASE kept # << >> /\ Last(kept) = x
  <2>1. KeepOrTake(TRUE, kept, x) = kept
    BY <1>1 DEF KeepOrTake
  <2>. QED BY <2>1
<1>2. CASE ~(kept # << >> /\ Last(kept) = x)
  <2>. DEFINE p == Len(kept)
              next == Append(kept, x)
              h == [j \in 1..(p + 1) |-> IF j = p + 1 THEN c ELSE g[j]]
  <2>1. KeepOrTake(TRUE, kept, x) = next
    BY <1>2 DEF KeepOrTake
  <2>2. /\ next \in Seq(S) /\ Len(next) = p + 1 /\ p \in Nat
        /\ next[p + 1] = x /\ \A j \in 1..p : next[j] = kept[j]
    OBVIOUS
  <2>3. /\ g \in [1..p -> 1..m]
        /\ \A j \in 1..p : long[g[j]] = kept[j] /\ \A i \in 1..(j - 1) : g[i] < g[j]
        /\ \A j \in 1..p : g[j] <= c
    BY DEF Embeds, EmbedsTo
  <2>4. p > 0 => long[g[p]] # x
    <3>1. p > 0 => kept # << >> /\ Last(kept) = kept[p]
      BY DEF Last
    <3>. QED BY <1>2, <2>2, <2>3, <3>1
  <2>. HIDE DEF p, next
  <2>5. ASSUME NEW j \in 1..p PROVE g[j] < c
    <3>1. p > 0 /\ p \in 1..p /\ j \in 1..p
      BY <2>2
    <3>2. g[p] \in 1..m /\ g[j] \in 1..m /\ g[p] <= c /\ g[p] # c
      BY <2>3, <2>4, <3>1
    <3>3. j = p \/ g[j] < g[p]
      BY <2>2, <2>3, <3>1
    <3>. QED BY <3>2, <3>3
  <2>6. h \in [1..(p + 1) -> 1..m]
    BY <2>2, <2>3
  <2>7. /\ h[p + 1] = c
        /\ \A j \in 1..p : h[j] = g[j]
    BY <2>2
  <2>. HIDE DEF h
  <2>8. ASSUME NEW j \in 1..(p + 1)
        PROVE  /\ long[h[j]] = next[j] /\ h[j] <= c
               /\ \A i \in 1..(j - 1) : h[i] < h[j]
    <3>1. CASE j = p + 1
      <4>1. h[j] = c /\ next[j] = x /\ long[c] = x
        BY <2>2, <2>7, <3>1
      <4>2. \A i \in 1..(j - 1) : i \in 1..p
        BY <2>2, <3>1
      <4>3. \A i \in 1..(j - 1) : h[i] < c
        BY <2>5, <2>7, <4>2
      <4>. QED BY <4>1, <4>3
    <3>2. CASE j \in 1..p
      <4>1. \A i \in 1..(j - 1) : i \in 1..p
        BY <2>2, <3>2
      <4>2. g[j] <= c
        BY <2>3, <3>2
      <4>. QED BY <2>2, <2>3, <2>7, <3>2, <4>1, <4>2
    <3>. QED BY <2>2, <3>1, <3>2
  <2>9. EmbedsTo(h, next, long, m, c)
    BY <2>2, <2>6, <2>8 DEF Embeds, EmbedsTo
  <2>. QED BY <2>1, <2>2, <2>9
<1>. QED BY <1>1, <1>2

\* Songs that have places one after the other, without repeats, have them in order.
LEMMA KeptArePlaced ==
  ASSUME NEW S, NEW songs \in Seq(S), NEW long, NEW m \in Nat,
         NEW f \in [1..Len(songs) -> 1..m],
         \A k \in 1..Len(songs) : long[f[k]] = songs[k] /\ \A j \in 1..k : f[j] <= f[k]
  PROVE  /\ WithoutRepeats(songs) \in Seq(S)
         /\ \E g : Embeds(g, WithoutRepeats(songs), long, m)
<1>. DEFINE n == Len(songs)
<1>1. n \in Nat /\ DOMAIN songs = 1..n /\ \A k \in 1..n : songs[k] \in S
  OBVIOUS
<1>2. PICK r : /\ r[0] = << >> /\ r[n] = WithoutRepeats(songs)
               /\ \A k \in 0..(n - 1) : r[k + 1] = KeepOrTake(TRUE, r[k], songs[k + 1])
  <2>. HIDE DEF n
  <2>. DEFINE yes == TRUE
  <2>1. WithoutRepeats(songs) = Fold(yes, << >>, songs)
    BY FoldsAre
  <2>2. PICK r : Folds(r, yes, << >>, songs, n)
    <3>. HIDE DEF yes
    <3>. QED BY <1>1, FoldSteps
  <2>. QED BY <2>1, <2>2 DEF Folds
<1>. DEFINE Good(k) == /\ r[k] \in Seq(S)
                       /\ \E g : EmbedsTo(g, r[k], long, m, IF k = 0 THEN 0 ELSE f[k])
            T == {k \in Nat : k <= n => Good(k)}
<1>3. \A k \in 1..n : f[k] \in 1..m /\ long[f[k]] = songs[k] /\ \A j \in 1..k : f[j] <= f[k]
  OBVIOUS
<1>. HIDE DEF n
<1>4. 0 \in T
  <2>1. << >> \in Seq(S) /\ Len(<< >>) = 0 /\ 1..0 = {}
    OBVIOUS
  <2>2. Embeds([j \in 1..0 |-> 1], << >>, long, m)
    BY <2>1 DEF Embeds
  <2>3. EmbedsTo([j \in 1..0 |-> 1], << >>, long, m, 0)
    BY <2>1, <2>2 DEF EmbedsTo
  <2>4. Good(0)
    BY <1>2, <2>1, <2>3
  <2>. QED BY <2>4
<1>5. ASSUME NEW k \in Nat, k \in T PROVE k + 1 \in T
  <2>. SUFFICES ASSUME k + 1 <= n PROVE Good(k + 1)
    OBVIOUS
  <2>. DEFINE c == f[k + 1]
              x == songs[k + 1]
  <2>1. k + 1 \in 1..n /\ k \in 0..(n - 1) /\ k <= n
    BY <1>1
  <2>2. c \in 1..m /\ long[c] = x /\ x \in S
    BY <1>1, <1>3, <2>1
  <2>3. r[k] \in Seq(S)
    BY <1>5, <2>1
  <2>4. PICK g : EmbedsTo(g, r[k], long, m, IF k = 0 THEN 0 ELSE f[k])
    BY <1>5, <2>1
  <2>5. EmbedsTo(g, r[k], long, m, c)
    <3>1. CASE k = 0
      <4>1. Len(r[k]) = 0
        BY <1>2, <3>1
      <4>. QED BY <2>4, <4>1 DEF EmbedsTo
    <3>2. CASE k > 0
      <4>1. k \in 1..n /\ k \in 1..(k + 1) /\ f[k] <= c /\ f[k] \in 1..m
        BY <1>1, <1>3, <2>1, <3>2
      <4>2. \A j \in 1..Len(r[k]) : g[j] \in 1..m
        BY <2>4 DEF Embeds, EmbedsTo
      <4>3. Embeds(g, r[k], long, m) /\ \A j \in 1..Len(r[k]) : g[j] <= f[k]
        BY <2>4, <3>2 DEF EmbedsTo
      <4>4. \A j \in 1..Len(r[k]) : g[j] <= c
        <5>. HIDE DEF c
        <5>. QED BY <2>2, <4>1, <4>2, <4>3
      <4>. QED BY <4>3, <4>4 DEF EmbedsTo
    <3>. QED BY <3>1, <3>2
  <2>6. r[k + 1] = KeepOrTake(TRUE, r[k], x)
    BY <1>2, <2>1
  <2>. HIDE DEF x
  <2>7. /\ r[k + 1] \in Seq(S)
        /\ \E h : EmbedsTo(h, r[k + 1], long, m, c)
    <3>. DEFINE before == r[k]
    <3>1. before \in Seq(S) /\ EmbedsTo(g, before, long, m, c)
      BY <2>3, <2>5
    <3>2. r[k + 1] = KeepOrTake(TRUE, before, x)
      BY <2>6
    <3>. HIDE DEF c, before
    <3>3. /\ KeepOrTake(TRUE, before, x) \in Seq(S)
          /\ \E h : EmbedsTo(h, KeepOrTake(TRUE, before, x), long, m, c)
      BY <2>2, <3>1, KeepsPlaced
    <3>. QED BY <3>2, <3>3
  <2>. QED BY <2>7
<1>6. n \in T
  <2>. HIDE DEF T
  <2>. QED BY <1>1, <1>4, <1>5, NumbersReached
<1>7. Good(n)
  BY <1>1, <1>6
<1>. QED BY <1>2, <1>7 DEF EmbedsTo

\* What is left of a sequence when its first i elements are taken.
LEMMA RestOf ==
  ASSUME NEW S, NEW s \in Seq(S), NEW i \in 0..Len(s)
  PROVE  /\ i = Len(s) => SubSeq(s, i + 1, Len(s)) = << >>
         /\ i < Len(s) => /\ SubSeq(s, i + 1, Len(s)) # << >>
                          /\ Head(SubSeq(s, i + 1, Len(s))) = s[i + 1]
                          /\ Tail(SubSeq(s, i + 1, Len(s))) = SubSeq(s, i + 2, Len(s))
<1>. DEFINE p == Len(s)
            u == SubSeq(s, i + 1, p)
            v == SubSeq(s, i + 2, p)
<1>1. p \in Nat /\ i \in Nat /\ i <= p
  OBVIOUS
<1>2. i = p => u = << >>
  OBVIOUS
<1>3. ASSUME i < p PROVE u # << >> /\ Head(u) = s[i + 1] /\ Tail(u) = v
  <2>1. /\ u \in Seq(S) /\ Len(u) = p - i
        /\ \A k \in 1..(p - i) : u[k] = s[i + k]
    BY <1>3
  <2>2. /\ v \in Seq(S) /\ Len(v) = p - i - 1
        /\ \A k \in 1..(p - i - 1) : v[k] = s[i + 1 + k]
    BY <1>3
  <2>. HIDE DEF p, u, v
  <2>3. p - i \in Nat /\ p - i > 0
    BY <1>1, <1>3
  <2>4. u # << >> /\ Head(u) = u[1] /\ u[1] = s[i + 1]
    BY <2>1, <2>3
  <2>5. /\ Tail(u) \in Seq(S) /\ Len(Tail(u)) = p - i - 1
        /\ \A k \in 1..(p - i - 1) : Tail(u)[k] = u[k + 1]
    BY <2>1, <2>3
  <2>6. \A k \in 1..(p - i - 1) : Tail(u)[k] = v[k]
    <3>. SUFFICES ASSUME NEW k \in 1..(p - i - 1) PROVE Tail(u)[k] = v[k]
      OBVIOUS
    <3>1. k + 1 \in 1..(p - i) /\ i + (k + 1) = i + 1 + k
      BY <1>1
    <3>. QED BY <2>1, <2>2, <2>5, <3>1
  <2>7. Tail(u) = v
    BY <2>2, <2>5, <2>6
  <2>. QED BY <2>4, <2>7
<1>. QED BY <1>2, <1>3

\* A sequence whose elements have places in order is within.
LEMMA PlacedIsWithin ==
  ASSUME NEW S, NEW short \in Seq(S), NEW long, NEW m \in Nat, DOMAIN long = 1..m,
         NEW g, Embeds(g, short, long, m)
  PROVE  IsWithin(short, long)
<1>. DEFINE p == Len(short)
            Rest(i) == SubSeq(short, i + 1, p)
<1>1. p \in Nat
  OBVIOUS
<1>2. PICK r : /\ r[0] = short /\ (IsWithin(short, long) <=> r[m] = << >>)
               /\ \A k \in 0..(m - 1) : r[k + 1] = KeepOrTake(FALSE, r[k], long[k + 1])
  <2>. DEFINE no == FALSE
  <2>1. IsWithin(short, long) <=> Fold(no, short, long) = << >>
    BY FoldsAre
  <2>2. PICK r : Folds(r, no, short, long, m)
    <3>. HIDE DEF no
    <3>. QED BY FoldSteps
  <2>. QED BY <2>1, <2>2 DEF Folds
<1>3. /\ g \in [1..p -> 1..m]
      /\ \A j \in 1..p : long[g[j]] = short[j] /\ \A i \in 1..(j - 1) : g[i] < g[j]
  BY DEF Embeds
<1>4. \A i \in 0..p : /\ i = p => Rest(i) = << >>
                      /\ i < p => /\ Rest(i) # << >> /\ Head(Rest(i)) = short[i + 1]
                                  /\ Tail(Rest(i)) = Rest(i + 1)
  <2>. SUFFICES ASSUME NEW i \in 0..p
                PROVE  /\ i = p => Rest(i) = << >>
                       /\ i < p => /\ Rest(i) # << >> /\ Head(Rest(i)) = short[i + 1]
                                   /\ Tail(Rest(i)) = Rest(i + 1)
    OBVIOUS
  <2>1. (i + 1) + 1 = i + 2
    OBVIOUS
  <2>. QED BY <2>1, RestOf
<1>5. Rest(0) = short
  BY SubSeqFull
<1>. HIDE DEF p, Rest
<1>. DEFINE Taken(k, i) == r[k] = Rest(i) /\ \A j \in 1..p : g[j] <= k => j <= i
            T == {k \in Nat : k <= m => \E i \in 0..p : Taken(k, i)}
<1>6. 0 \in T
  <2>1. \A j \in 1..p : g[j] \in 1..m
    BY <1>3
  <2>2. \A j \in 1..p : ~(g[j] <= 0)
    BY <2>1
  <2>3. \A j \in 1..p : g[j] <= 0 => j <= 0
    BY <2>2
  <2>4. r[0] = Rest(0)
    BY <1>2, <1>5
  <2>5. Taken(0, 0)
    BY <2>3, <2>4
  <2>6. 0 \in 0..p
    BY <1>1
  <2>. QED BY <2>5, <2>6
<1>7. ASSUME NEW k \in Nat, k \in T PROVE k + 1 \in T
  <2>. SUFFICES ASSUME k + 1 <= m PROVE \E i \in 0..p : Taken(k + 1, i)
    OBVIOUS
  <2>1. k \in 0..(m - 1) /\ k <= m
    OBVIOUS
  <2>2. PICK i \in 0..p : r[k] = Rest(i) /\ \A j \in 1..p : g[j] <= k => j <= i
    BY <1>7, <2>1
  <2>3. r[k + 1] = KeepOrTake(FALSE, r[k], long[k + 1])
    BY <1>2, <2>1
  <2>4. ASSUME NEW j \in 1..p, g[j] <= k + 1 PROVE j <= i \/ (j = i + 1 /\ g[j] = k + 1)
    <3>1. CASE g[j] <= k
      BY <2>2, <3>1
    <3>2. CASE g[j] = k + 1
      <4>1. CASE j = 1
        BY <1>1, <3>2, <4>1
      <4>2. CASE j > 1
        <5>1. j - 1 \in 1..p /\ j - 1 \in 1..(j - 1)
          BY <1>1, <4>2
        <5>2. g[j - 1] < g[j] /\ g[j - 1] \in 1..m
          BY <1>3, <5>1
        <5>3. j - 1 <= i
          BY <2>2, <3>2, <5>1, <5>2
        <5>. QED BY <1>1, <3>2, <5>3
      <4>. QED BY <4>1, <4>2
    <3>3. g[j] \in 1..m
      BY <1>3
    <3>. QED BY <2>4, <3>1, <3>2, <3>3
  <2>5. CASE i < p /\ short[i + 1] = long[k + 1]
    <3>1. Rest(i) # << >> /\ Head(Rest(i)) = short[i + 1] /\ Tail(Rest(i)) = Rest(i + 1)
      BY <1>4, <2>5
    <3>2. r[k + 1] = Rest(i + 1)
      BY <2>2, <2>3, <2>5, <3>1 DEF KeepOrTake
    <3>3. i + 1 \in 0..p /\ \A j \in 1..p : g[j] <= k + 1 => j <= i + 1
      BY <1>1, <2>4, <2>5
    <3>. QED BY <3>2, <3>3
  <2>6. CASE ~(i < p /\ short[i + 1] = long[k + 1])
    <3>1. r[k + 1] = Rest(i)
      <4>1. CASE i = p
        <5>1. Rest(i) = << >>
          BY <1>4, <4>1
        <5>. QED BY <2>2, <2>3, <5>1 DEF KeepOrTake
      <4>2. CASE i < p
        <5>1. Head(Rest(i)) # long[k + 1]
          BY <1>4, <2>6, <4>2
        <5>. QED BY <2>2, <2>3, <5>1 DEF KeepOrTake
      <4>. QED BY <1>1, <4>1, <4>2
    <3>2. ASSUME NEW j \in 1..p, g[j] <= k + 1 PROVE j <= i
      <4>1. ~(j = i + 1 /\ g[j] = k + 1)
        <5>1. long[g[j]] = short[j]
          BY <1>3
        <5>. QED BY <1>1, <2>6, <5>1
      <4>. QED BY <2>4, <3>2, <4>1
    <3>. QED BY <3>1, <3>2
  <2>. QED BY <2>5, <2>6
<1>8. m \in T
  <2>. HIDE DEF T
  <2>. QED BY <1>6, <1>7, NumbersReached
<1>9. PICK i \in 0..p : r[m] = Rest(i) /\ \A j \in 1..p : g[j] <= m => j <= i
  BY <1>8
<1>10. i = p
  <2>1. CASE p = 0
    BY <2>1
  <2>2. CASE p > 0
    <3>1. p \in 1..p /\ g[p] \in 1..m
      BY <1>1, <1>3, <2>2
    <3>2. p <= i
      BY <1>9, <3>1
    <3>. QED BY <1>1, <3>2
  <2>. QED BY <1>1, <2>1, <2>2
<1>. QED BY <1>1, <1>2, <1>4, <1>9, <1>10

-----------------------------------------------------------------------------
(***************************************************************************)
(* The import, device by device.                                           *)
(***************************************************************************)

\* The songs of the selected rows are songs, as many as there are rows.
LEMMA SelectedSongs ==
  ASSUME NEW indices \in SUBSET DOMAIN Playlist, NEW songs \in SongsToQueue(indices)
  PROVE  songs \in Seq(Songs)
<1>1. Playlist \in Seq(Songs)
  BY PlaylistAssumption
<1>2. PICK p \in SetToSeqs(indices) : songs = [k \in DOMAIN p |-> Playlist[p[k]]]
  BY DEF SongsToQueue
<1>3. /\ IsFiniteSet(DOMAIN Playlist) /\ indices \subseteq DOMAIN Playlist
  BY <1>1, FS_Interval
<1>4. Cardinality(indices) \in Nat
  BY <1>3, FS_Subset, FS_CardinalityType
<1>5. p \in [1..Cardinality(indices) -> indices]
  BY <1>2 DEF SetToSeqs
<1>6. \A k \in DOMAIN p : Playlist[p[k]] \in Songs
  BY <1>1, <1>3, <1>5
<1>7. [k \in DOMAIN p |-> Playlist[p[k]]] \in [1..Cardinality(indices) -> Songs]
  BY <1>5, <1>6
<1>. QED BY <1>2, <1>4, <1>7

\* What an import is, and is to remain.
ImportOK(songs, all, place, waiting) ==
    /\ songs \in Seq(Songs) /\ all \in Seq(Songs) /\ IsSuffix(songs, all)
    /\ place \in 0..waiting /\ (place > 0 => songs # << >>)

ImportInv ==
    /\ DOMAIN importing = Devices /\ DOMAIN selected = Devices /\ DOMAIN due = Devices
    /\ importing = [d \in Devices |-> importing[d]]
    /\ selected = [d \in Devices |-> selected[d]]
    /\ due = [d \in Devices |-> due[d]]
    /\ crossed \in [Devices -> BOOLEAN]
    /\ \A d \in Devices : ImportOK(importing[d], selected[d], due[d], Len(adding[d]))

\* The import of one device goes on.
LEMMA ImportGoesOn ==
  ASSUME ImportInv, NEW d \in Devices, NEW songs, NEW all, NEW place,
         importing' = [importing EXCEPT ![d] = songs],
         selected' = [selected EXCEPT ![d] = all],
         due' = [due EXCEPT ![d] = place],
         crossed' \in [Devices -> BOOLEAN],
         \A e \in Devices : e # d => adding'[e] = adding[e],
         ImportOK(songs, all, place, Len(adding'[d]))
  PROVE  ImportInv'
<1>1. ASSUME NEW e \in Devices
      PROVE  ImportOK(importing'[e], selected'[e], due'[e], Len(adding'[e]))
  BY DEF ImportInv
<1>2. /\ importing' = [e \in Devices |-> importing'[e]]
      /\ selected' = [e \in Devices |-> selected'[e]]
      /\ due' = [e \in Devices |-> due'[e]]
  BY DEF ImportInv
<1>. QED BY <1>1, <1>2 DEF ImportInv

\* Nothing is added meanwhile, and the import waits.
LEMMA ImportWaits ==
  ASSUME ImportInv, UNCHANGED <<importing, due, selected>>,
         crossed' \in [Devices -> BOOLEAN],
         \A e \in Devices : Len(adding'[e]) \in Nat /\ Len(adding'[e]) >= Len(adding[e]),
         \A e \in Devices : Len(adding[e]) \in Nat
  PROVE  ImportInv'
<1>1. ASSUME NEW e \in Devices
      PROVE  ImportOK(importing'[e], selected'[e], due'[e], Len(adding'[e]))
  <2>1. importing'[e] = importing[e] /\ selected'[e] = selected[e] /\ due'[e] = due[e]
    OBVIOUS
  <2>2. ImportOK(importing[e], selected[e], due[e], Len(adding[e]))
    BY DEF ImportInv
  <2>. DEFINE m == Len(adding[e])
              n == Len(adding'[e])
  <2>3. m \in Nat /\ n \in Nat /\ n >= m
    OBVIOUS
  <2>. HIDE DEF m, n
  <2>4. due[e] \in 0..m => due[e] \in 0..n
    BY <2>3
  <2>. QED BY <2>1, <2>2, <2>4 DEF ImportOK, m, n
<1>2. UNCHANGED <<importing, due, selected>> /\ crossed' \in [Devices -> BOOLEAN]
  OBVIOUS
<1>. QED BY <1>1, <1>2, Zenon DEF ImportInv

\* The user selects songs.
LEMMA TapStartsImport ==
  ASSUME TypeOK, ImportInv, NEW d \in Devices, NEW indices \in SUBSET DOMAIN Playlist,
         DidTapAddToPlaylist(d, indices)
  PROVE  ImportInv' /\ UNCHANGED vars
<1>1. PICK songs \in SongsToQueue(indices) :
        /\ importing' = [importing EXCEPT ![d] = songs]
        /\ selected' = [selected EXCEPT ![d] = songs]
  BY DEF DidTapAddToPlaylist
<1>2. UNCHANGED <<vars, due>> /\ importing[d] = << >> /\ adding' = adding
  BY DEF DidTapAddToPlaylist, vars
<1>3. songs \in Seq(Songs) /\ IsSuffix(songs, songs)
  BY SelectedSongs, SuffixTail
<1>4. due[d] \in 0..Len(adding[d]) /\ ~(due[d] > 0) /\ due' = [due EXCEPT ![d] = due[d]]
  BY <1>2 DEF ImportInv, ImportOK
<1>5. ImportOK(songs, songs, due[d], Len(adding'[d]))
  BY <1>2, <1>3, <1>4 DEF ImportOK
<1>6. crossed' \in [Devices -> BOOLEAN]
  BY DEF DidTapAddToPlaylist, ImportInv
<1>7. ImportInv'
  BY <1>1, <1>2, <1>4, <1>5, <1>6, ImportGoesOn
<1>. QED BY <1>2, <1>7

\* The timer fires: the first song is added as any other is.
LEMMA AddSongsAdds ==
  ASSUME TypeOK, ImportInv, NEW d \in Devices, AddSongs(d)
  PROVE  ImportInv' /\ \E s \in Songs : AddSong(d, s)
<1>1. importing[d] \in Seq(Songs) /\ selected[d] \in Seq(Songs)
  BY DEF ImportInv, ImportOK
<1>2. Head(importing[d]) \in Songs /\ AddSong(d, Head(importing[d]))
  BY <1>1 DEF AddSongs
<1>3. PICK add : adding' = [adding EXCEPT ![d] = Append(adding[d], add)]
  BY <1>2 DEF AddSong
<1>4. adding[d] \in Seq(Add) /\ DOMAIN adding = Devices
  BY DEF TypeOK
<1>5. /\ Len(adding'[d]) = Len(adding[d]) + 1 /\ Len(adding[d]) \in Nat
      /\ \A e \in Devices : e # d => adding'[e] = adding[e]
  BY <1>3, <1>4
<1>6. /\ importing' = [importing EXCEPT ![d] = importing[d]]
      /\ selected' = [selected EXCEPT ![d] = selected[d]]
      /\ due' = [due EXCEPT ![d] = Len(adding[d]) + 1]
      /\ importing[d] # << >>
  BY DEF AddSongs, ImportInv
<1>7. ImportOK(importing[d], selected[d], Len(adding[d]) + 1, Len(adding'[d]))
  BY <1>5, <1>6 DEF ImportInv, ImportOK
<1>8. crossed' \in [Devices -> BOOLEAN]
  BY DEF AddSongs, ImportInv
<1>9. ImportInv'
  BY <1>5, <1>6, <1>7, <1>8, ImportGoesOn
<1>. QED BY <1>2, <1>9

\* A callback of addSong: when it is that of the import, the song is done.
LEMMA CallbackCompletes ==
  ASSUME TypeOK, ImportInv, NEW d \in Devices, AddSongCallback(d)
  PROVE  ImportInv'
<1>. DEFINE songs == IF due[d] = 1 THEN Tail(importing[d]) ELSE importing[d]
            place == Max({0, due[d] - 1})
            n == Len(adding[d])
<1>1. /\ adding[d] # << >> /\ adding' = [adding EXCEPT ![d] = Tail(adding[d])]
      /\ importing' = [importing EXCEPT ![d] = songs]
      /\ due' = [due EXCEPT ![d] = place]
      /\ selected' = selected /\ crossed' = crossed
  BY DEF AddSongCallback, RefuseDuplicate, StoreSong, Complete, history
<1>2. adding[d] \in Seq(Add) /\ DOMAIN adding = Devices
  BY DEF TypeOK
<1>3. /\ n \in Nat /\ n > 0 /\ Len(adding'[d]) = n - 1
      /\ \A e \in Devices : e # d => adding'[e] = adding[e]
  <2>1. Len(Tail(adding[d])) = n - 1 /\ n \in Nat /\ n > 0
    BY <1>1, <1>2
  <2>. QED BY <1>1, <1>2, <2>1
<1>4. ImportOK(importing[d], selected[d], due[d], n)
  BY DEF ImportInv
<1>5. due[d] \in 0..n
  BY <1>4 DEF ImportOK
<1>6. place = IF due[d] = 0 THEN 0 ELSE due[d] - 1
  <2>1. PICK k \in 0..n : k = due[d]
    BY <1>5
  <2>2. Max({0, k - 1}) = IF k = 0 THEN 0 ELSE k - 1
    BY <1>3 DEF Max
  <2>. QED BY <2>1, <2>2
<1>7. selected' = [selected EXCEPT ![d] = selected[d]]
  BY <1>1 DEF ImportInv
<1>8. ImportOK(songs, selected[d], place, Len(adding'[d]))
  <2>1. /\ importing[d] \in Seq(Songs) /\ selected[d] \in Seq(Songs)
        /\ IsSuffix(importing[d], selected[d]) /\ (due[d] > 0 => importing[d] # << >>)
    BY <1>4 DEF ImportOK
  <2>2. songs \in Seq(Songs) /\ IsSuffix(songs, selected[d])
    BY <1>5, <2>1, SuffixTail
  <2>3. place \in 0..(n - 1) /\ (place > 0 => songs # << >>)
    BY <1>3, <1>5, <1>6, <2>1
  <2>. HIDE DEF songs, place
  <2>. QED BY <1>3, <2>1, <2>2, <2>3 DEF ImportOK
<1>9. crossed' \in [Devices -> BOOLEAN]
  BY <1>1 DEF ImportInv
<1>. HIDE DEF songs, place
<1>. QED BY <1>1, <1>3, <1>7, <1>8, <1>9, ImportGoesOn

\* The app dies, and its import with it.
LEMMA RestartForgets ==
  ASSUME TypeOK, ImportInv, NEW d \in Devices, RestartApp(d)
  PROVE  ImportInv'
<1>1. /\ adding' = [adding EXCEPT ![d] = << >>]
      /\ importing' = [importing EXCEPT ![d] = << >>]
      /\ selected' = [selected EXCEPT ![d] = << >>]
      /\ due' = [due EXCEPT ![d] = 0]
  BY DEF RestartApp, Restart, AppDies
<1>2. adding'[d] = << >> /\ \A e \in Devices : e # d => adding'[e] = adding[e]
  BY <1>1 DEF TypeOK
<1>3. << >> \in Seq(Songs) /\ IsSuffix(<< >>, << >>)
  <2>1. << >> \in Seq(Songs)
    OBVIOUS
  <2>. QED BY <2>1, SuffixTail
<1>4. ImportOK(<< >>, << >>, 0, Len(adding'[d]))
  BY <1>2, <1>3 DEF ImportOK
<1>5. crossed' \in [Devices -> BOOLEAN]
  BY DEF RestartApp, ImportInv
<1>. QED BY <1>1, <1>2, <1>4, <1>5, ImportGoesOn

\* What waits in addSong is a sequence, of which a step of the datastore that is not
\* a callback or the end of an app takes nothing.
LEMMA AddingGrows ==
  ASSUME TypeOK, NEW d \in Devices,
         \/ \E s : AddSong(d, s)
         \/ adding' = adding
  PROVE  \A e \in Devices :
            /\ Len(adding[e]) \in Nat /\ Len(adding'[e]) \in Nat
            /\ Len(adding'[e]) >= Len(adding[e])
<1>1. adding \in [Devices -> Seq(Add)]
  BY DEF TypeOK
<1>2. CASE adding' = adding
  BY <1>1, <1>2
<1>3. CASE \E s : AddSong(d, s)
  <2>1. PICK add : adding' = [adding EXCEPT ![d] = Append(adding[d], add)]
    BY <1>3 DEF AddSong
  <2>2. Len(adding'[d]) = Len(adding[d]) + 1 /\ Len(adding[d]) \in Nat
    BY <1>1, <2>1
  <2>3. \A e \in Devices : e # d => adding'[e] = adding[e]
    BY <1>1, <2>1
  <2>. QED BY <1>1, <2>2, <2>3
<1>. QED BY <1>2, <1>3

-----------------------------------------------------------------------------
(***************************************************************************)
(* The theorems.                                                           *)
(***************************************************************************)

\* No import is under way at first.
LEMMA ImportStarts == ImportInit => Init /\ ImportInv
<1>. SUFFICES ASSUME ImportInit PROVE Init /\ ImportInv
  OBVIOUS
<1>1. << >> \in Seq(Songs) /\ IsSuffix(<< >>, << >>)
  <2>1. << >> \in Seq(Songs)
    OBVIOUS
  <2>. QED BY <2>1, SuffixTail
<1>2. Len(<< >>) = 0
  OBVIOUS
<1>3. ImportOK(<< >>, << >>, 0, 0)
  BY <1>1 DEF ImportOK
<1>. QED BY <1>2, <1>3 DEF ImportInit, Init, ImportInv

\* Every step of the import keeps its invariant, and is one of the Datastore, or
\* changes nothing of it.
LEMMA ImportStep ==
  TypeOK /\ ImportInv /\ [ImportNext]_importVars => ImportInv' /\ [Next]_vars
<1>. SUFFICES ASSUME TypeOK, ImportInv, [ImportNext]_importVars
              PROVE  ImportInv' /\ [Next]_vars
  OBVIOUS
<1>1. CASE UNCHANGED importVars
  BY <1>1 DEF importVars, vars, ImportInv
<1>2. ASSUME NEW d \in Devices, NEW indices \in SUBSET DOMAIN Playlist,
             DidTapAddToPlaylist(d, indices)
      PROVE  ImportInv' /\ [Next]_vars
  BY <1>2, TapStartsImport
<1>3. ASSUME NEW d \in Devices, NEW song \in Songs, TapSong(d, song)
      PROVE  ImportInv' /\ [Next]_vars
  <2>1. /\ AddSong(d, song) /\ UNCHANGED <<importing, due, selected>>
        /\ crossed' \in [Devices -> BOOLEAN]
    BY <1>3 DEF TapSong, ImportInv
  <2>2. ImportInv'
    BY <2>1, AddingGrows, ImportWaits
  <2>. QED BY <2>1, <2>2 DEF Next
<1>4. ASSUME NEW d \in Devices, AddSongs(d)
      PROVE  ImportInv' /\ [Next]_vars
  BY <1>4, AddSongsAdds DEF Next
<1>5. ASSUME NEW d \in Devices, AddSongCallback(d)
      PROVE  ImportInv' /\ [Next]_vars
  BY <1>5, CallbackCompletes DEF AddSongCallback, Next
<1>6. ASSUME NEW d \in Devices, RestartApp(d)
      PROVE  ImportInv' /\ [Next]_vars
  BY <1>6, RestartForgets DEF RestartApp, Next
<1>7. ASSUME NEW d \in Devices, Network(d) \/ Others(d)
      PROVE  ImportInv' /\ [Next]_vars
  <2>1. /\ UNCHANGED <<importing, due, selected>> /\ adding' = adding
        /\ crossed' \in [Devices -> BOOLEAN]
    BY <1>7 DEF Network, Others, SubscribeToUpdates, DidFinish, Transmit, Receive,
                LoseConnection, history, ImportInv
  <2>2. ImportInv'
    BY <2>1, AddingGrows, ImportWaits
  <2>3. Next
    BY <1>7 DEF Network, Others, Next
  <2>. QED BY <2>2, <2>3
<1>. QED BY <1>1, <1>2, <1>3, <1>4, <1>5, <1>6, <1>7 DEF ImportNext

\* addSongs and the taps of its user use the Datastore as its specification says:
\* a song of a playlist is added as one from the search is.
THEOREM ImportUsesDatastore == ImportSpec => Spec
<1>1. ImportInit => Init /\ TypeOK /\ NoHolesInv /\ ImportInv
  BY ImportStarts, TypeInit, NoHolesInit
<1>2. TypeOK /\ NoHolesInv /\ ImportInv /\ [ImportNext]_importVars
        => (TypeOK /\ NoHolesInv /\ ImportInv)' /\ [Next]_vars
  BY ImportStep, TypeStep, NoHolesStep
<1>. QED BY <1>1, <1>2, PTL DEF ImportSpec, Spec

\* What an import still holds is always the end of what was selected, and the add it
\* waits for is one of those that wait for their read.
THEOREM ImportTypeCorrect == ImportSpec => []ImportTypeOK
<1>1. ImportInit => ImportInv
  BY ImportStarts
<1>2. TypeOK /\ ImportInv /\ [ImportNext]_importVars => ImportInv'
  BY ImportStep
<1>3. TypeOK /\ ImportInv => ImportTypeOK
  BY DEF ImportInv, ImportOK, ImportTypeOK
<1>. QED BY <1>1, <1>2, <1>3, ImportUsesDatastore, TypeCorrect, PTL DEF ImportSpec

\* When playlists are added by the only device that adds songs, and no two of its
\* reads are under way together, no song is lost or next to itself: addSongs waits for
\* no write, but the next read finds the song before it.  Taps between the songs of an
\* import are allowed, and while its timer runs.
THEOREM ImportKeepsQueue ==
  ASSUME OneAdder
  PROVE  ImportSpec /\ []OneRead => []SoleAdderInv /\ []NoAdjacentDuplicates /\ AddedSongStays
<1>1. Spec /\ []OneRead => []SoleAdderInv
  BY SoleAdderInvStays
<1>2. TypeOK /\ SoleAdderInv => NoAdjacentDuplicates
  BY NoAdjacentFromInv
<1>3. Spec /\ []SoleAdderInv => AddedSongStays
  BY SongsStayWithInv
<1>. QED BY <1>1, <1>2, <1>3, ImportUsesDatastore, TypeCorrect, PTL

-----------------------------------------------------------------------------
(***************************************************************************)
(* The songs an import has added have places, one after the other, among   *)
(* those the server has and those the adder has yet to send it.            *)
(***************************************************************************)
\* The songs placed at the server, or written by device d and not yet applied.
Lasting(d) == EntrySongs(server) \cup SongWrites(outbox[d])

\* The first n songs have places f in S; one that repeats the song before may share its place.
HavePlaces(f, n, songs, S) ==
    /\ f \in [1..n -> Nat]
    /\ \A k \in 1..n : SongAt(f[k], songs[k]) \in S /\ \A j \in 1..k : f[j] <= f[k]

\* How many songs of an import are done, and the invariant: the add that is under way is
\* for the first of the others, and those that are done have places.
Added(d) == Len(selected[d]) - Len(importing[d])

AddIsNext(d) == due[d] > 0 => adding[d][due[d]].song = Head(importing[d])
AddedInOrder(d) == \E f : HavePlaces(f, Added(d), selected[d], Lasting(d))
OrderInv == \A d \in Devices : AddIsNext(d) /\ AddedInOrder(d)

\* Before anything is added nothing needs a place.
LEMMA NonePlaced ==
  ASSUME NEW songs, NEW S
  PROVE  \E f : HavePlaces(f, 0, songs, S)
<1>1. 1..0 = {}
  OBVIOUS
<1>2. HavePlaces([k \in 1..0 |-> 0], 0, songs, S)
  BY <1>1 DEF HavePlaces
<1>. QED BY <1>2

\* Places stay when no song goes.
LEMMA PlacesStay ==
  ASSUME NEW f, NEW n, NEW songs, NEW S, NEW T, S \subseteq T, HavePlaces(f, n, songs, S)
  PROVE  HavePlaces(f, n, songs, T)
BY DEF HavePlaces

\* One more song has a place that is not before the others.
LEMMA PlaceNext ==
  ASSUME NEW n \in Nat, NEW f, NEW songs, NEW S, NEW T, S \subseteq T,
         HavePlaces(f, n, songs, S),
         NEW c \in Nat, \A p \in S : p.slot <= c, SongAt(c, songs[n + 1]) \in T
  PROVE  \E h : HavePlaces(h, n + 1, songs, T)
<1>. DEFINE m == n + 1
            h == [k \in 1..m |-> IF k = m THEN c ELSE f[k]]
<1>1. /\ f \in [1..n -> Nat]
      /\ \A k \in 1..n : SongAt(f[k], songs[k]) \in S /\ \A j \in 1..k : f[j] <= f[k]
  BY DEF HavePlaces
<1>2. m \in Nat /\ 1..m = 1..n \cup {m} /\ m \notin 1..n
  OBVIOUS
<1>3. h[m] = c /\ \A k \in 1..n : h[k] = f[k]
  BY <1>2
<1>4. h \in [1..m -> Nat]
  BY <1>1, <1>2
<1>5. \A k \in 1..n : f[k] <= c
  BY <1>1 DEF SongAt
<1>. HIDE DEF m, h
<1>6. ASSUME NEW k \in 1..m
      PROVE  SongAt(h[k], songs[k]) \in T /\ \A j \in 1..k : h[j] <= h[k]
  <2>1. CASE k = m
    <3>1. SongAt(h[k], songs[k]) \in T
      BY <1>3, <2>1 DEF m
    <3>2. ASSUME NEW j \in 1..k PROVE h[j] <= h[k]
      BY <1>2, <1>3, <1>5, <2>1, <3>2
    <3>. QED BY <3>1, <3>2
  <2>2. CASE k \in 1..n
    <3>1. \A j \in 1..k : j \in 1..n
      BY <2>2
    <3>. QED BY <1>1, <1>3, <2>2, <3>1
  <2>. QED BY <1>2, <2>1, <2>2
<1>7. HavePlaces(h, m, songs, T)
  BY <1>4, <1>6 DEF HavePlaces
<1>. QED BY <1>7 DEF m

-----------------------------------------------------------------------------
(***************************************************************************)
(* Songs that last: the server keeps those it has, and a device sends what *)
(* it has written, again if need be.                                       *)
(***************************************************************************)
\* They are among all songs placed.
LEMMA LastingArePlaced ==
  ASSUME TypeOK, NEW d \in Devices
  PROVE  Lasting(d) \subseteq Placed
BY PlacedCases DEF Lasting

\* In each slot that is used or written to there is a song that lasts.
LEMMA UsedIsLasting ==
  ASSUME TypeOK, CastsInv, NEW d \in Devices,
         NEW i \in DOMAIN server \cup Slots(outbox[d])
  PROVE  \E p \in Lasting(d) : p.slot = i
<1>1. AllSongs(server) /\ MarksFollowSongs(DOMAIN server, outbox[d])
  BY DEF CastsInv, SongsSent
<1>2. CASE i \in DOMAIN server
  <2>1. SongAt(i, server[i].song) \in EntrySongs(server)
    BY <1>1, <1>2 DEF AllSongs, EntrySongs
  <2>. QED BY <2>1 DEF Lasting, SongAt
<1>3. CASE \E j \in DOMAIN outbox[d] : outbox[d][j].slot = i /\ outbox[d][j].song # NoSong
  <2>1. PICK j \in DOMAIN outbox[d] : outbox[d][j].slot = i /\ outbox[d][j].song # NoSong
    BY <1>3
  <2>2. outbox[d][j] \in SongWrites(outbox[d])
    BY <2>1 DEF SongWrites
  <2>. QED BY <2>1, <2>2 DEF Lasting
<1>4. outbox[d] \in Seq(Write)
  BY PartTypes
<1>. QED BY <1>1, <1>2, <1>3, <1>4, MarkedSlot

\* The server keeps its songs.
LEMMA ServerSongsLast ==
  ASSUME TypeOK, CastsInv, SoleAdderInv, [Next]_vars
  PROVE  EntrySongs(server) \subseteq EntrySongs(server')
<1>. SUFFICES ASSUME NEW i \in DOMAIN server, server[i].song # NoSong
              PROVE  SongAt(i, server[i].song) \in EntrySongs(server')
  BY DEF EntrySongs
<1>1. i \in DOMAIN server' /\ server'[i].song = server[i].song
  BY NoSongLost
<1>. QED BY <1>1 DEF EntrySongs

\* What a device writes waits in its outbox or is at the server, while its app lives.
Keeps(d) ==
    \/ outbox' = outbox
    \/ \E w \in Write : SetValue(d, w)
    \/ Transmit(d) \/ LoseConnection(d)

LEMMA WritesLast ==
  ASSUME TypeOK, NEW d \in Devices, Keeps(d), NEW e \in Devices
  PROVE  SongWrites(outbox[e]) \subseteq EntrySongs(server') \cup SongWrites(outbox'[e])
<1>1. outbox[e] \in Seq(Write) /\ DOMAIN outbox = Devices
  BY DEF TypeOK, DBTypeOK
<1>2. CASE outbox'[e] = outbox[e]
  BY <1>2
<1>3. ASSUME NEW w \in Write, SetValue(d, w)
      PROVE  SongWrites(outbox[e]) \subseteq SongWrites(outbox'[e])
  <2>1. outbox' = [outbox EXCEPT ![d] = Append(outbox[d], w)]
    BY <1>3 DEF SetValue
  <2>2. SongWrites(Append(outbox[d], w)) = SongWrites(outbox[d]) \cup Gives(w)
    BY PartTypes, SongsAppend
  <2>3. outbox'[e] = IF e = d THEN Append(outbox[d], w) ELSE outbox[e]
    BY <1>1, <2>1
  <2>. QED BY <2>2, <2>3
<1>4. CASE Transmit(d)
  <2>. DEFINE w == Head(outbox[d])
  <2>1. /\ outbox[d] # << >> /\ server' = Put(server, w)
        /\ outbox' = [outbox EXCEPT ![d] = Tail(outbox[d])]
    BY <1>4 DEF Transmit, ServerApply
  <2>2. w \in Write /\ SongWrites(outbox[d]) = Gives(w) \cup SongWrites(Tail(outbox[d]))
    BY <2>1, PartTypes, SongsHead
  <2>3. outbox'[e] = IF e = d THEN Tail(outbox[d]) ELSE outbox[e]
    BY <1>1, <2>1
  <2>. HIDE DEF w
  <2>4. Gives(w) \subseteq EntrySongs(server')
    <3>. SUFFICES ASSUME w.song # NoSong PROVE w \in EntrySongs(server')
      BY DEF Gives
    <3>1. w.slot \in DOMAIN server' /\ server'[w.slot] = Fresh(w.song)
      BY <2>1, Zenon DEF Put
    <3>2. SongAt(w.slot, w.song) = w
      BY <2>2 DEF SongAt, Write
    <3>. QED BY <3>1, <3>2 DEF EntrySongs, Fresh
  <2>. QED BY <2>2, <2>3, <2>4
<1>5. CASE LoseConnection(d)
  <2>1. outbox' = [outbox EXCEPT ![d] = Pending(d)]
    BY <1>5 DEF LoseConnection, Reconnect
  <2>2. SongWrites(Pending(d)) = SongWrites(unacked[d]) \cup SongWrites(outbox[d])
    BY PartTypes, SongsConcat DEF Pending
  <2>3. outbox'[e] = IF e = d THEN Pending(d) ELSE outbox[e]
    BY <1>1, <2>1
  <2>. QED BY <2>2, <2>3
<1>. QED BY <1>2, <1>3, <1>4, <1>5 DEF Keeps

\* So no song is lost that a device added, while its app lives.
LEMMA LastingGrows ==
  ASSUME TypeOK, CastsInv, SoleAdderInv, [Next]_vars, NEW d \in Devices, Keeps(d),
         NEW e \in Devices
  PROVE  Lasting(e) \subseteq Lasting(e)'
BY ServerSongsLast, WritesLast DEF Lasting

-----------------------------------------------------------------------------
(***************************************************************************)
(* The order is kept, whatever the user adds between two songs.            *)
(***************************************************************************)

\* An import that rests, or is overtaken by another add, keeps its places.
LEMMA OrderRests ==
  ASSUME NEW e \in Devices, AddIsNext(e), AddedInOrder(e),
         Lasting(e) \subseteq Lasting(e)',
         UNCHANGED <<importing[e], selected[e], due[e]>>,
         due[e] > 0 => adding'[e][due[e]] = adding[e][due[e]]
  PROVE  AddIsNext(e)' /\ AddedInOrder(e)'
<1>1. AddIsNext(e)'
  BY DEF AddIsNext
<1>2. PICK f : HavePlaces(f, Added(e), selected[e], Lasting(e))
  BY DEF AddedInOrder
<1>3. HavePlaces(f, Added(e), selected[e], Lasting(e)')
  <2>. DEFINE n == Added(e)
              S == Lasting(e)
              T == Lasting(e)'
              songs == selected[e]
  <2>1. S \subseteq T /\ HavePlaces(f, n, songs, S)
    BY <1>2
  <2>. HIDE DEF n, S, T, songs
  <2>2. HavePlaces(f, n, songs, T)
    BY <2>1, PlacesStay
  <2>. QED BY <2>2 DEF n, T, songs
<1>4. Added(e)' = Added(e) /\ selected'[e] = selected[e]
  BY DEF Added
<1>5. HavePlaces(f, Added(e)', selected'[e], Lasting(e)')
  BY <1>3, <1>4
<1>. QED BY <1>1, <1>5 DEF AddedInOrder

\* An import that has added nothing has none to keep.
LEMMA OrderOfNone ==
  ASSUME NEW e \in Devices, importing'[e] = selected'[e], selected'[e] \in Seq(Songs),
         due'[e] = 0
  PROVE  AddIsNext(e)' /\ AddedInOrder(e)'
<1>1. AddIsNext(e)'
  BY DEF AddIsNext
<1>2. Added(e)' = 0
  <2>1. Len(selected'[e]) \in Nat
    BY Zenon, LenProperties
  <2>. QED BY <2>1 DEF Added
<1>3. \E f : HavePlaces(f, 0, selected'[e], Lasting(e)')
  <2>. DEFINE songs == selected'[e]
              S == Lasting(e)'
  <2>. HIDE DEF songs, S
  <2>1. \E f : HavePlaces(f, 0, songs, S)
    BY NonePlaced
  <2>. QED BY <2>1 DEF songs, S
<1>. QED BY <1>1, <1>2, <1>3 DEF AddedInOrder

\* The user selects songs.
LEMMA TapOrder ==
  ASSUME TypeOK, ImportInv, OrderInv, NEW d \in Devices,
         NEW indices \in SUBSET DOMAIN Playlist, DidTapAddToPlaylist(d, indices)
  PROVE  OrderInv'
<1>1. PICK songs \in SongsToQueue(indices) :
        /\ importing' = [importing EXCEPT ![d] = songs]
        /\ selected' = [selected EXCEPT ![d] = songs]
  BY DEF DidTapAddToPlaylist
<1>2. UNCHANGED <<vars, due>> /\ importing[d] = << >>
  BY DEF DidTapAddToPlaylist
<1>3. songs \in Seq(Songs)
  BY SelectedSongs
<1>4. due[d] = 0
  BY <1>2 DEF ImportInv, ImportOK
<1>5. ASSUME NEW e \in Devices PROVE AddIsNext(e)' /\ AddedInOrder(e)'
  <2>1. CASE e = d
    <3>1. importing'[e] = songs /\ selected'[e] = songs /\ due'[e] = 0
      BY <1>1, <1>2, <1>4, <2>1 DEF ImportInv
    <3>. QED BY <1>3, <3>1, OrderOfNone
  <2>2. CASE e # d
    <3>1. UNCHANGED <<importing[e], selected[e], due[e], adding[e]>>
      BY <1>1, <1>2, <2>2 DEF ImportInv, vars
    <3>2. Lasting(e) = Lasting(e)'
      BY <1>2 DEF Lasting, vars, dbVars
    <3>. QED BY <3>1, <3>2, OrderRests DEF OrderInv
  <2>. QED BY <2>1, <2>2
<1>. QED BY <1>5 DEF OrderInv

\* One add at a time: the read of an add starts when no other is under way.
LEMMA NoAddWaits ==
  ASSUME OneRead', TypeOK, ImportInv, NEW d \in Devices, NEW s \in Songs, AddSong(d, s)
  PROVE  /\ Len(adding[d]) = 0 /\ due[d] = 0 /\ d \in Adders
         /\ adding'[d] = << [song |-> s, size |-> ArrayCount(ReadQueue(d)),
                             last |-> LastURL(ReadQueue(d))] >>
         /\ \A e \in Devices : e # d => adding'[e] = adding[e]
         /\ UNCHANGED dbVars
<1>. DEFINE add == [song |-> s, size |-> ArrayCount(ReadQueue(d)),
                    last |-> LastURL(ReadQueue(d))]
<1>1. /\ adding' = [adding EXCEPT ![d] = Append(adding[d], add)]
      /\ d \in Adders /\ UNCHANGED dbVars
  BY DEF AddSong
<1>2. adding[d] \in Seq(Add)
  BY PartTypes
<1>3. adding[d] = << >> /\ Len(adding[d]) = 0
  <2>. HIDE DEF add
  <2>1. adding'[d] = Append(adding[d], add)
    BY <1>1 DEF TypeOK
  <2>2. Len(Append(adding[d], add)) = Len(adding[d]) + 1
    BY <1>2
  <2>3. Len(adding'[d]) <= 1
    BY DEF OneRead
  <2>. QED BY <1>2, <2>1, <2>2, <2>3
<1>4. Append(<< >>, add) = << add >>
  OBVIOUS
<1>5. due[d] \in 0..Len(adding[d])
  BY DEF ImportInv, ImportOK
<1>. HIDE DEF add
<1>6. /\ adding'[d] = << add >>
      /\ \A e \in Devices : e # d => adding'[e] = adding[e]
  BY <1>1, <1>3, <1>4 DEF TypeOK
<1>. QED BY <1>1, <1>3, <1>5, <1>6 DEF add

\* The timer of addSongs fires, or the user adds a song from the search.
LEMMA AddSongsOrder ==
  ASSUME OneRead', TypeOK, ImportInv, OrderInv, NEW d \in Devices, AddSongs(d)
  PROVE  OrderInv'
<1>1. /\ importing[d] \in Seq(Songs) /\ importing[d] # << >>
      /\ AddSong(d, Head(importing[d]))
      /\ due' = [due EXCEPT ![d] = Len(adding[d]) + 1]
      /\ UNCHANGED <<importing, selected>>
  BY DEF AddSongs, ImportInv, ImportOK
<1>. DEFINE s == Head(importing[d])
<1>2. s \in Songs /\ AddSong(d, s)
  BY <1>1
<1>. HIDE DEF s
<1>3. /\ Len(adding[d]) = 0 /\ due[d] = 0
      /\ adding'[d] = << [song |-> s, size |-> ArrayCount(ReadQueue(d)),
                          last |-> LastURL(ReadQueue(d))] >>
      /\ \A e \in Devices : e # d => adding'[e] = adding[e]
      /\ UNCHANGED dbVars
  BY <1>2, NoAddWaits
<1>4. adding'[d][1].song = s
  BY <1>3
<1>5. due'[d] = 1 /\ \A e \in Devices : e # d => due'[e] = due[e]
  BY <1>1, <1>3 DEF ImportInv
<1>6. ASSUME NEW e \in Devices PROVE AddIsNext(e)' /\ AddedInOrder(e)'
  <2>1. Lasting(e) = Lasting(e)'
    BY <1>3 DEF Lasting, dbVars
  <2>2. CASE e = d
    <3>1. AddIsNext(e)'
      BY <1>1, <1>4, <1>5, <2>2 DEF AddIsNext, s
    <3>2. Added(e)' = Added(e) /\ selected' = selected
      BY <1>1 DEF Added
    <3>3. AddedInOrder(e)'
      <4>1. PICK f : HavePlaces(f, Added(e), selected[e], Lasting(e))
        BY DEF OrderInv, AddedInOrder
      <4>2. HavePlaces(f, Added(e)', selected'[e], Lasting(e)')
        BY <2>1, <3>2, <4>1
      <4>. QED BY <4>2 DEF AddedInOrder
    <3>. QED BY <3>1, <3>3
  <2>3. CASE e # d
    <3>1. UNCHANGED <<importing[e], selected[e], due[e], adding[e]>>
      BY <1>1, <1>3, <1>5, <2>3
    <3>. QED BY <2>1, <3>1, OrderRests DEF OrderInv
  <2>. QED BY <2>2, <2>3
<1>. QED BY <1>6 DEF OrderInv

LEMMA TapSongOrder ==
  ASSUME OneRead', TypeOK, ImportInv, OrderInv, NEW d \in Devices, NEW s \in Songs,
         TapSong(d, s)
  PROVE  OrderInv'
<1>1. AddSong(d, s) /\ UNCHANGED <<importing, due, selected>>
  BY DEF TapSong
<1>2. /\ due[d] = 0 /\ \A e \in Devices : e # d => adding'[e] = adding[e]
      /\ UNCHANGED dbVars
  BY <1>1, NoAddWaits
<1>3. ASSUME NEW e \in Devices PROVE AddIsNext(e)' /\ AddedInOrder(e)'
  <2>1. Lasting(e) = Lasting(e)'
    BY <1>2 DEF Lasting, dbVars
  <2>2. due[e] > 0 => adding'[e][due[e]] = adding[e][due[e]]
    BY <1>2
  <2>. QED BY <1>1, <2>1, <2>2, OrderRests DEF OrderInv
<1>. QED BY <1>3 DEF OrderInv

\* The callback of an add.  When it is that of the import, its song has a place at the
\* end of the queue: the slot it is written to, or that of the song it repeats.
LEMMA CallbackPlace ==
  ASSUME TypeOK, NoHolesInv, CastsInv, SoleAdderInv, NEW d \in Devices, AddSongCallback(d)
  PROVE  \E c \in Nat : /\ \A p \in Lasting(d) : p.slot <= c
                        /\ SongAt(c, Head(adding[d]).song) \in Lasting(d)'
<1>. DEFINE add == Head(adding[d])
            size == add.size
<1>. SUFFICES \E c \in Nat : /\ \A p \in Lasting(d) : p.slot <= c
                             /\ SongAt(c, add.song) \in Lasting(d)'
  OBVIOUS
<1>1. /\ adding[d] # << >>
      /\ \/ IsDuplicate(add) /\ UNCHANGED dbVars
         \/ SetValue(d, SongWrite(add))
  BY DEF AddSongCallback, RefuseDuplicate, StoreSong
<1>2. add = adding[d][1] /\ 1 \in DOMAIN adding[d] /\ add \in Add
  BY <1>1, OneAddTaken, PartTypes DEF SoleAdderInv
<1>3. \A p \in Placed : p.slot < size /\ (p.slot = size - 1 => p.song = add.last)
  BY <1>2 DEF SoleAdderInv, AddsAreFresh
<1>4. 0..(size - 1) \subseteq Seen(d)
  BY <1>2 DEF NoHolesInv, AddsAreSeen
<1>5. size \in Nat /\ add.song \in Songs
  <2>. HIDE DEF add
  <2>. QED BY <1>2 DEF Add
<1>6. Lasting(d) \subseteq Placed /\ \A p \in Placed : p.slot \in Nat
  BY LastingArePlaced, PlacedType DEF Write
<1>. HIDE DEF add
<1>7. CASE IsDuplicate(add) /\ UNCHANGED dbVars
  <2>1. size > 0 /\ add.last = add.song
    BY <1>7 DEF IsDuplicate
  <2>. HIDE DEF size
  <2>2. size - 1 \in Nat /\ size - 1 \in Seen(d)
    BY <1>4, <1>5, <2>1
  <2>3. size - 1 \in DOMAIN server \cup Slots(outbox[d])
    BY <2>2, SeenIsSegment DEF Seen
  <2>4. PICK p \in Lasting(d) : p.slot = size - 1
    BY <2>3, UsedIsLasting
  <2>5. p.song = add.song /\ p \in Write
    BY <1>3, <1>6, <2>1, <2>4, PlacedType
  <2>6. SongAt(size - 1, add.song) = p
    BY <2>4, <2>5 DEF SongAt, Write
  <2>7. Lasting(d)' = Lasting(d)
    BY <1>7 DEF Lasting, dbVars
  <2>8. \A r \in Lasting(d) : r.slot <= size - 1
    <3>1. \A r \in Lasting(d) : r.slot \in Nat /\ r.slot < size
      BY <1>3, <1>6
    <3>. QED BY <1>5, <3>1
  <2>9. SongAt(size - 1, add.song) \in Lasting(d)'
    BY <2>4, <2>6, <2>7
  <2>. QED BY <2>2, <2>8, <2>9
<1>8. CASE SetValue(d, SongWrite(add))
  <2>. DEFINE w == SongWrite(add)
  <2>. HIDE DEF size
  <2>1. w \in Write /\ w = SongAt(size, add.song) /\ w.song = add.song
    BY <1>5 DEF SongWrite, SongAt, Write, MaybeSongs, size
  <2>2. w.song # NoSong
    BY <1>5, <2>1, TypesAssumption
  <2>3. outbox' = [outbox EXCEPT ![d] = Append(outbox[d], w)]
    BY <1>8 DEF SetValue
  <2>. HIDE DEF w
  <2>4. SongWrites(Append(outbox[d], w)) = SongWrites(outbox[d]) \cup Gives(w)
    BY <2>1, PartTypes, SongsAppend
  <2>5. w \in SongWrites(outbox'[d])
    BY <2>2, <2>3, <2>4 DEF Gives, TypeOK, DBTypeOK
  <2>6. SongAt(size, add.song) \in Lasting(d)'
    BY <2>1, <2>5 DEF Lasting
  <2>7. \A r \in Lasting(d) : r.slot <= size
    <3>1. \A r \in Lasting(d) : r.slot \in Nat /\ r.slot < size
      BY <1>3, <1>6
    <3>. QED BY <1>5, <3>1
  <2>. QED BY <1>5, <2>6, <2>7
<1>. QED BY <1>1, <1>7, <1>8

\* With the callback the first song of the import is done, and the next has its turn.
LEMMA CallbackOrder ==
  ASSUME TypeOK, NoHolesInv, CastsInv, SoleAdderInv, ImportInv, OrderInv, [Next]_vars,
         NEW d \in Devices, AddSongCallback(d)
  PROVE  OrderInv'
<1>. DEFINE songs == IF due[d] = 1 THEN Tail(importing[d]) ELSE importing[d]
<1>1. /\ adding[d] # << >> /\ adding' = [adding EXCEPT ![d] = Tail(adding[d])]
      /\ importing' = [importing EXCEPT ![d] = songs]
      /\ due' = [due EXCEPT ![d] = Max({0, due[d] - 1})]
      /\ selected' = selected
      /\ UNCHANGED dbVars \/ SetValue(d, SongWrite(Head(adding[d])))
  BY DEF AddSongCallback, RefuseDuplicate, StoreSong, Complete, history
<1>2. /\ Head(adding[d]) = adding[d][1] /\ Head(adding[d]) \in Add /\ Len(adding[d]) <= 1
      /\ Len(adding[d]) \in Nat
  BY <1>1, OneAddTaken, PartTypes DEF SoleAdderInv, AddsAreFresh
<1>3. ImportOK(importing[d], selected[d], due[d], Len(adding[d]))
  BY DEF ImportInv
<1>4. due[d] = 0 \/ due[d] = 1
  BY <1>2, <1>3 DEF ImportOK
<1>5. due'[d] = 0
  <2>1. Max({0, 0 - 1}) = 0 /\ Max({0, 1 - 1}) = 0
    BY DEF Max
  <2>2. due'[d] = Max({0, due[d] - 1})
    BY <1>1 DEF ImportInv
  <2>. QED BY <1>4, <2>1, <2>2
<1>6. \A e \in Devices : Lasting(e) \subseteq Lasting(e)'
  <2>1. SongWrite(Head(adding[d])) \in Write
    <3>. DEFINE add == Head(adding[d])
    <3>. HIDE DEF add
    <3>1. add \in Add
      BY <1>2 DEF add
    <3>2. SongWrite(add) \in Write
      BY <3>1 DEF SongWrite, SongAt, Write, Add, MaybeSongs
    <3>. QED BY <3>2 DEF add
  <2>2. Keeps(d)
    BY <1>1, <2>1 DEF Keeps, dbVars
  <2>. QED BY <2>2, LastingGrows
<1>7. ASSUME NEW e \in Devices, e # d PROVE AddIsNext(e)' /\ AddedInOrder(e)'
  <2>1. UNCHANGED <<importing[e], selected[e], due[e], adding[e]>>
    BY <1>1, <1>7 DEF ImportInv, TypeOK
  <2>. QED BY <1>6, <2>1, OrderRests DEF OrderInv
<1>8. AddIsNext(d)'
  BY <1>5 DEF AddIsNext
<1>9. AddedInOrder(d)'
  <2>1. PICK f : HavePlaces(f, Added(d), selected[d], Lasting(d))
    BY DEF OrderInv, AddedInOrder
  <2>2. /\ importing[d] \in Seq(Songs) /\ selected[d] \in Seq(Songs)
        /\ IsSuffix(importing[d], selected[d]) /\ (due[d] > 0 => importing[d] # << >>)
    BY <1>3 DEF ImportOK
  <2>3. importing'[d] = songs /\ selected'[d] = selected[d]
    BY <1>1 DEF ImportInv
  <2>. DEFINE n == Added(d)
              all == selected[d]
              S == Lasting(d)
              T == Lasting(d)'
  <2>4. S \subseteq T /\ HavePlaces(f, n, all, S)
    BY <1>6, <2>1
  <2>5. CASE due[d] = 0
    <3>1. Added(d)' = n /\ selected'[d] = all
      BY <2>3, <2>5 DEF Added
    <3>2. HavePlaces(f, n, all, T)
      <4>. HIDE DEF n, all, S, T
      <4>. QED BY <2>4, PlacesStay
    <3>3. HavePlaces(f, Added(d)', selected'[d], Lasting(d)')
      BY <3>1, <3>2
    <3>. QED BY <3>3 DEF AddedInOrder
  <2>6. CASE due[d] = 1
    <3>1. importing[d] # << >>
      BY <2>2, <2>6
    <3>2. /\ Len(importing[d]) <= Len(all)
          /\ all[(Len(all) - Len(importing[d])) + 1] = Head(importing[d])
      BY <2>2, <3>1, SuffixHead
    <3>3. all[n + 1] = Head(importing[d])
      BY <3>2 DEF Added
    <3>4. /\ Len(all) \in Nat /\ Len(importing[d]) \in Nat /\ Len(importing[d]) > 0
          /\ Len(Tail(importing[d])) = Len(importing[d]) - 1
      BY <2>2, <3>1
    <3>5. n \in Nat /\ Added(d)' = n + 1 /\ selected'[d] = all
      <4>. DEFINE a == Len(all)
                  b == Len(importing[d])
      <4>1. a \in Nat /\ b \in Nat /\ b <= a /\ n = a - b
        BY <3>2, <3>4 DEF Added
      <4>2. Added(d)' = a - (b - 1) /\ selected'[d] = all
        BY <2>3, <2>6, <3>4 DEF Added
      <4>. HIDE DEF a, b, n, all
      <4>. QED BY <4>1, <4>2
    <3>6. Head(adding[d]).song = Head(importing[d])
      BY <1>2, <2>6 DEF OrderInv, AddIsNext
    <3>7. PICK c \in Nat : (\A p \in S : p.slot <= c) /\ SongAt(c, all[n + 1]) \in T
      BY <3>3, <3>6, CallbackPlace
    <3>8. \E h : HavePlaces(h, n + 1, all, T)
      <4>. HIDE DEF n, all, S, T
      <4>. QED BY <2>4, <3>5, <3>7, PlaceNext
    <3>9. \E h : HavePlaces(h, Added(d)', selected'[d], Lasting(d)')
      BY <3>5, <3>8
    <3>. QED BY <3>9 DEF AddedInOrder
  <2>. QED BY <1>4, <2>5, <2>6
<1>. QED BY <1>7, <1>8, <1>9 DEF OrderInv

\* The app dies: what others have to send stays, and it has nothing to keep.
LEMMA RestartOrder ==
  ASSUME TypeOK, ImportInv, OrderInv, NEW d \in Devices, RestartApp(d)
  PROVE  OrderInv'
<1>1. /\ adding' = [adding EXCEPT ![d] = << >>]
      /\ outbox' = [outbox EXCEPT ![d] = << >>] /\ server' = server
      /\ importing' = [importing EXCEPT ![d] = << >>]
      /\ selected' = [selected EXCEPT ![d] = << >>]
      /\ due' = [due EXCEPT ![d] = 0]
  BY DEF RestartApp, Restart, AppDies, Forget
<1>2. ASSUME NEW e \in Devices PROVE AddIsNext(e)' /\ AddedInOrder(e)'
  <2>1. CASE e = d
    <3>1. << >> \in Seq(Songs)
      OBVIOUS
    <3>2. importing'[e] = << >> /\ selected'[e] = << >> /\ due'[e] = 0
      BY <1>1, <2>1 DEF ImportInv
    <3>. QED BY <3>1, <3>2, OrderOfNone
  <2>2. CASE e # d
    <3>1. UNCHANGED <<importing[e], selected[e], due[e], adding[e], outbox[e]>>
      BY <1>1, <2>2 DEF ImportInv, TypeOK, DBTypeOK
    <3>2. Lasting(e) = Lasting(e)'
      BY <1>1, <3>1 DEF Lasting
    <3>. QED BY <3>1, <3>2, OrderRests DEF OrderInv
  <2>. QED BY <2>1, <2>2
<1>. QED BY <1>2 DEF OrderInv

\* The rest of the app and the network.
LEMMA OthersOrder ==
  ASSUME TypeOK, CastsInv, SoleAdderInv, OrderInv, [Next]_vars,
         NEW d \in Devices, Network(d) \/ Others(d)
  PROVE  OrderInv'
<1>1. UNCHANGED <<importing, due, selected, adding>>
  BY DEF Network, Others, SubscribeToUpdates, DidFinish, Transmit, Receive, LoseConnection,
         history
<1>2. Keeps(d)
  <2>1. ASSUME NEW i \in DOMAIN View(d), DidFinish(d, i) PROVE Keeps(d)
    <3>1. PlayedAt(i) \in Write
      BY ViewSlots DEF PlayedAt, Write, MaybeSongs, IsQueue
    <3>. QED BY <2>1, <3>1 DEF DidFinish, Keeps
  <2>. QED BY <2>1 DEF Network, Others, Keeps, SubscribeToUpdates, Observe, Receive, Deliver
<1>3. ASSUME NEW e \in Devices PROVE AddIsNext(e)' /\ AddedInOrder(e)'
  BY <1>1, <1>2, LastingGrows, OrderRests DEF OrderInv
<1>. QED BY <1>3 DEF OrderInv

\* Every step keeps the order.
LEMMA OrderStep ==
  OneRead' /\ TypeOK /\ NoHolesInv /\ CastsInv /\ SoleAdderInv /\ ImportInv /\ OrderInv
      /\ [ImportNext]_importVars
    => OrderInv'
<1>. SUFFICES ASSUME OneRead', TypeOK, NoHolesInv, CastsInv, SoleAdderInv, ImportInv,
                     OrderInv, [ImportNext]_importVars
              PROVE  OrderInv'
  OBVIOUS
<1>1. [Next]_vars
  BY ImportStep
<1>2. CASE UNCHANGED importVars
  BY <1>2 DEF importVars, vars, dbVars, OrderInv, AddIsNext, AddedInOrder, Added, Lasting
<1>3. CASE ImportNext
  <2>1. PICK d \in Devices :
          \/ \E indices \in SUBSET DOMAIN Playlist : DidTapAddToPlaylist(d, indices)
          \/ \E song \in Songs : TapSong(d, song)
          \/ AddSongs(d) \/ AddSongCallback(d) \/ RestartApp(d)
          \/ Network(d) \/ Others(d)
    BY <1>3 DEF ImportNext
  <2>. QED BY <1>1, <2>1, TapOrder, TapSongOrder, AddSongsOrder, CallbackOrder, RestartOrder,
          OthersOrder
<1>. QED BY <1>2, <1>3

LEMMA OrderInit == ImportInit => OrderInv
<1>. SUFFICES ASSUME ImportInit, NEW e \in Devices PROVE AddIsNext(e) /\ AddedInOrder(e)
  BY DEF OrderInv
<1>1. importing[e] = << >> /\ selected[e] = << >> /\ due[e] = 0 /\ Len(<< >>) = 0
  BY DEF ImportInit
<1>2. AddIsNext(e)
  BY <1>1 DEF AddIsNext
<1>3. Added(e) = 0
  BY <1>1 DEF Added
<1>4. \E f : HavePlaces(f, 0, selected[e], Lasting(e))
  BY NonePlaced
<1>. QED BY <1>2, <1>3, <1>4 DEF AddedInOrder

\* The places that songs which last have are those in the queue that their device
\* shows over the server's.
LEMMA OrderFromInv ==
  TypeOK /\ NoHolesInv /\ CastsInv /\ SoleAdderInv /\ ImportInv /\ OrderInv
    => ImportKeepsOrder
<1>. SUFFICES ASSUME TypeOK, NoHolesInv, CastsInv, SoleAdderInv, ImportInv, OrderInv,
                     NEW d \in Devices
              PROVE  IsWithin(WithoutRepeats(SubSeq(selected[d], 1, Added(d))),
                              SongsOf(Overlay(server, Pending(d))))
  BY DEF ImportKeepsOrder, Added
<1>. DEFINE q == Overlay(server, Pending(d))
            n == Added(d)
            all == selected[d]
            added == SubSeq(all, 1, n)
            long == SongsOf(q)
<1>1. /\ Pending(d) \in Seq(Write)
      /\ Slots(Pending(d)) = Slots(unacked[d]) \cup Slots(outbox[d])
      /\ SongWrites(Pending(d)) = SongWrites(unacked[d]) \cup SongWrites(outbox[d])
  BY PartTypes, SongsConcat, SlotsToConcat DEF Pending
<1>2. /\ IsQueue(q)
      /\ DOMAIN q = DOMAIN server \cup Slots(outbox[d])
  <2>1. Slots(unacked[d]) \subseteq DOMAIN server
    BY DEF NoHolesInv, WritesFillUp
  <2>. QED BY <1>1, <2>1, PartTypes, OverlayQueue
<1>3. PICK m \in Nat : DOMAIN q = 0..(m - 1)
  BY <1>2, SeenIsSegment, SegmentElim
<1>4. AllSongs(q)
  <2>1. AllSongs(server) /\ MarksFollowSongs(DOMAIN server, outbox[d])
    BY DEF CastsInv, SongsSent
  <2>2. Slots(unacked[d]) \subseteq DOMAIN server
    BY DEF NoHolesInv, WritesFillUp
  <2>3. MarksFollowSongs(DOMAIN server, Pending(d))
    BY <2>1, <2>2, PartTypes, MarksConcat DEF Pending
  <2>. QED BY <1>1, <2>1, <2>3, PartTypes, OverlaySongs
<1>5. EntrySongs(q) \subseteq Placed
  <2>1. EntrySongs(q) \subseteq EntrySongs(server) \cup SongWrites(Pending(d))
    BY <1>1, EntriesOverlay
  <2>. QED BY <1>1, <2>1, PlacedCases
<1>6. ASSUME NEW p \in Lasting(d) PROVE p.slot \in 0..(m - 1) /\ q[p.slot].song = p.song
  <2>1. p.slot \in DOMAIN q
    BY <1>2, PartTypes, EntriesHaveSlots, SongsHaveSlots DEF Lasting
  <2>2. SongAt(p.slot, q[p.slot].song) \in Placed
    BY <1>4, <1>5, <2>1 DEF AllSongs, EntrySongs
  <2>3. p \in Placed
    BY LastingArePlaced
  <2>. QED BY <1>3, <2>1, <2>2, <2>3 DEF SoleAdderInv, OneSongPerSlot, SongAt
<1>7. DOMAIN long = 1..m /\ \A k \in 0..(m - 1) : long[k + 1] = q[k].song
  <2>. HIDE DEF q
  <2>1. Cardinality(DOMAIN q) = m
    <3>1. Cardinality(0..(m - 1)) = m
      BY FS_Interval, m - 1 \in Int
    <3>. QED BY <1>3, <3>1
  <2>2. long = [k \in 1..m |-> q[k - 1].song]
    BY <2>1 DEF SongsOf
  <2>3. \A k \in 0..(m - 1) : k + 1 \in 1..m /\ (k + 1) - 1 = k
    OBVIOUS
  <2>. QED BY <2>2, <2>3
<1>8. PICK f : HavePlaces(f, n, all, Lasting(d))
  BY DEF OrderInv, AddedInOrder
<1>9. n \in Nat /\ added \in Seq(Songs) /\ Len(added) = n /\ \A k \in 1..n : added[k] = all[k]
  <2>1. importing[d] \in Seq(Songs) /\ all \in Seq(Songs) /\ IsSuffix(importing[d], all)
    BY DEF ImportInv, ImportOK
  <2>2. Len(importing[d]) <= Len(all)
    BY <2>1, SuffixHead
  <2>3. n \in Nat /\ n <= Len(all)
    <3>. DEFINE a == Len(all)
                b == Len(importing[d])
    <3>1. a \in Nat /\ b \in Nat /\ n = a - b /\ b <= a
      BY <2>1, <2>2 DEF Added
    <3>. HIDE DEF a, b, n
    <3>2. n \in Nat /\ n <= a
      BY <3>1
    <3>. QED BY <3>2 DEF a
  <2>. HIDE DEF n, all
  <2>4. \A k \in 1..n : all[k] \in Songs
    BY <2>1, <2>3
  <2>. QED BY <2>1, <2>3, <2>4, SubSeqProperties
<1>. DEFINE g == [k \in 1..n |-> f[k] + 1]
<1>. HIDE DEF q, n, all, added, long, g
<1>10. /\ g \in [1..n -> 1..m]
       /\ \A k \in 1..n : long[g[k]] = added[k] /\ \A j \in 1..k : g[j] <= g[k]
  <2>1. /\ f \in [1..n -> Nat]
        /\ \A k \in 1..n : SongAt(f[k], all[k]) \in Lasting(d) /\ \A j \in 1..k : f[j] <= f[k]
    BY <1>8 DEF HavePlaces
  <2>2. ASSUME NEW k \in 1..n PROVE f[k] \in 0..(m - 1) /\ q[f[k]].song = all[k]
    <3>1. SongAt(f[k], all[k]) \in Lasting(d)
      BY <2>1
    <3>2. SongAt(f[k], all[k]).slot = f[k] /\ SongAt(f[k], all[k]).song = all[k]
      BY DEF SongAt
    <3>. QED BY <1>6, <3>1, <3>2
  <2>3. ASSUME NEW k \in 1..n PROVE g[k] \in 1..m /\ long[g[k]] = added[k]
    <3>1. f[k] \in 0..(m - 1) /\ q[f[k]].song = all[k]
      BY <2>2
    <3>2. long[f[k] + 1] = q[f[k]].song
      BY <1>7, <3>1
    <3>3. g[k] = f[k] + 1 /\ f[k] + 1 \in 1..m
      BY <3>1 DEF g
    <3>. QED BY <1>9, <3>1, <3>2, <3>3
  <2>4. ASSUME NEW k \in 1..n, NEW j \in 1..k PROVE g[j] <= g[k]
    <3>1. j \in 1..n
      BY <1>9
    <3>2. f[j] <= f[k] /\ f[j] \in Nat /\ f[k] \in Nat
      BY <2>1, <3>1
    <3>. QED BY <3>1, <3>2 DEF g
  <2>5. g = [k \in 1..n |-> g[k]]
    BY DEF g
  <2>. QED BY <2>3, <2>4, <2>5
<1>11. PICK h : /\ WithoutRepeats(added) \in Seq(Songs)
                /\ Embeds(h, WithoutRepeats(added), long, m)
  <2>1. g \in [1..Len(added) -> 1..m]
    BY <1>9, <1>10
  <2>2. \A k \in 1..Len(added) : long[g[k]] = added[k] /\ \A j \in 1..k : g[j] <= g[k]
    BY <1>9, <1>10
  <2>. QED BY <1>9, <2>1, <2>2, KeptArePlaced
<1>12. IsWithin(WithoutRepeats(added), long)
  BY <1>7, <1>11, PlacedIsWithin
<1>. QED BY <1>12 DEF q, n, all, added, long

\* When one device adds, and no two of its reads are under way together, the songs that
\* addSongs has added of any playlist are in the queue or on their way to it in the order
\* taken, with those tapped between them and however often connections are lost; a song
\* is left out only next to itself.
THEOREM ImportKeepsOrderHolds ==
  ASSUME OneAdder
  PROVE  ImportSpec /\ []OneRead => []ImportKeepsOrder
<1>1. ImportInit => OrderInv /\ ImportInv
  BY OrderInit, ImportStarts
<1>2. TypeOK /\ NoHolesInv /\ CastsInv /\ SoleAdderInv /\ ImportInv /\ OrderInv /\ OneRead'
        /\ [ImportNext]_importVars
      => (ImportInv /\ OrderInv)'
  BY ImportStep, OrderStep
<1>3. TypeOK /\ NoHolesInv /\ CastsInv /\ SoleAdderInv /\ ImportInv /\ OrderInv
      => ImportKeepsOrder
  BY OrderFromInv
<1>4. Spec /\ []OneRead => []SoleAdderInv
  BY SoleAdderInvStays
<1>. QED BY <1>1, <1>2, <1>3, <1>4, ImportUsesDatastore, NoHolesInvHolds, CastsInvHolds, PTL
         DEF ImportSpec

=============================================================================

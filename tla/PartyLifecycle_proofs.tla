------------------------ MODULE PartyLifecycle_proofs ------------------------
(***************************************************************************)
(* Proofs about PartyLifecycle: a device finds the party it shows, two     *)
(* devices host one party only if its ID was drawn again before the server *)
(* knew of it, a session is stored while a player is shown, and the songs  *)
(* of a party are not overwritten by its creation.                         *)
(***************************************************************************)
EXTENDS PartyLifecycle, Functions, FiniteSetTheorems, TLAPS

-----------------------------------------------------------------------------
(***************************************************************************)
(* What is unanswered, as a sequence: a request that is sent comes at its  *)
(* end, one that is handled leaves its front, and the server changes only  *)
(* where in it the answers end.                                            *)
(***************************************************************************)
LEMMA RangeAt ==
  ASSUME NEW S, NEW s \in Seq(S), NEW x
  PROVE  x \in Range(s) <=> \E k \in 1..Len(s) : x = s[k]
BY DEF Range

LEMMA RangeConcat ==
  ASSUME NEW S, NEW s \in Seq(S), NEW T, NEW t \in Seq(T)
  PROVE  Range(s \o t) = Range(s) \cup Range(t)
<1>1. s \o t \in Seq(S \cup T)
  OBVIOUS
<1>2. ASSUME NEW x PROVE x \in Range(s \o t) <=> x \in Range(s) \cup Range(t)
  <2>1. x \in Range(s \o t) => x \in Range(s) \cup Range(t)
    <3>1. SUFFICES ASSUME NEW k \in 1..Len(s \o t), x = (s \o t)[k]
                   PROVE  x \in Range(s) \cup Range(t)
      BY DEF Range
    <3>2. CASE k <= Len(s)
      BY <3>1, <3>2, RangeAt
    <3>3. CASE k > Len(s)
      <4>1. PICK j \in 1..Len(t) : j = k - Len(s)
        BY <3>3
      <4>. QED BY <3>1, <3>3, <4>1, RangeAt
    <3>. QED BY <3>2, <3>3
  <2>2. x \in Range(s) => x \in Range(s \o t)
    <3>1. SUFFICES ASSUME NEW k \in 1..Len(s), x = s[k] PROVE x \in Range(s \o t)
      BY RangeAt
    <3>2. k \in 1..Len(s \o t) /\ (s \o t)[k] = x
      BY <3>1
    <3>. QED BY <1>1, <3>2, RangeAt
  <2>3. x \in Range(t) => x \in Range(s \o t)
    <3>1. SUFFICES ASSUME NEW k \in 1..Len(t), x = t[k] PROVE x \in Range(s \o t)
      BY RangeAt
    <3>2. PICK j \in 1..Len(s \o t) : j = Len(s) + k
      OBVIOUS
    <3>3. (s \o t)[j] = x
      BY <3>1, <3>2
    <3>. QED BY <1>1, <3>3, RangeAt
  <2>. QED BY <2>1, <2>2, <2>3
<1>. QED BY <1>2

LEMMA RangeTail ==
  ASSUME NEW S, NEW s \in Seq(S), s # << >>
  PROVE  /\ Head(s) \in Range(s) /\ Range(s) \subseteq S
         /\ Tail(s) \in Seq(S)
         /\ Range(s) = {Head(s)} \cup Range(Tail(s))
<1>1. Tail(s) \in Seq(S) /\ Head(s) = s[1] /\ 1 \in 1..Len(s)
  OBVIOUS
<1>2. Head(s) \in Range(s) /\ Range(s) \subseteq S
  BY <1>1, RangeAt
<1>3. ASSUME NEW x \in Range(Tail(s)) PROVE x \in Range(s)
  <2>1. PICK k \in 1..Len(Tail(s)) : x = Tail(s)[k]
    BY <1>3 DEF Range
  <2>2. PICK j \in 1..Len(s) : j = k + 1
    OBVIOUS
  <2>3. x = s[j]
    BY <2>1, <2>2
  <2>. QED BY <2>3, RangeAt
<1>4. ASSUME NEW x \in Range(s), x # Head(s) PROVE x \in Range(Tail(s))
  <2>1. PICK k \in 1..Len(s) : x = s[k]
    BY RangeAt
  <2>2. PICK j \in 1..Len(Tail(s)) : k = j + 1
    <3>1. k # 1
      BY <1>1, <1>4, <2>1
    <3>2. k - 1 \in 1..Len(Tail(s)) /\ k = (k - 1) + 1
      BY <3>1
    <3>. QED BY <3>2
  <2>3. Tail(s)[j] = x
    BY <2>1, <2>2
  <2>. QED BY <1>1, <2>3, RangeAt
<1>. QED BY <1>1, <1>2, <1>3, <1>4

LEMMA RangeEmpty == Range(<< >>) = {}
BY DEF Range

LEMMA RangeOfOne ==
  ASSUME NEW S, NEW a \in S
  PROVE  <<a>> \in Seq(S) /\ Range(<<a>>) = {a}
BY DEF Range

LEMMA RangeOfThree ==
  ASSUME NEW S, NEW a \in S, NEW b \in S, NEW c \in S
  PROVE  <<a, b, c>> \in Seq(S) /\ Range(<<a, b, c>>) = {a, b, c}
<1>1. DOMAIN <<a, b, c>> = {1, 2, 3}
  OBVIOUS
<1>2. Range(<<a, b, c>>) = {a, b, c}
  BY <1>1 DEF Range
<1>. QED BY <1>2

-----------------------------------------------------------------------------
(***************************************************************************)
(* The types.                                                              *)
(***************************************************************************)
LEMMA LifecycleTypeInit == Init => LifecycleTypeOK
<1>. SUFFICES ASSUME Init PROVE LifecycleTypeOK
  OBVIOUS
<1>1. << >> \in Seq(Requests) /\ << >> \in Seq(Answers)
  OBVIOUS
<1>. QED BY <1>1, LifecycleAssumption DEF Init, LifecycleTypeOK

\* A device sends requests.
LEMMA SendType ==
  ASSUME LifecycleTypeOK, NEW d \in Devices, NEW rs \in Seq(Requests), Send(d, rs)
  PROVE  requests' \in [Devices -> Seq(Requests)]
BY DEF LifecycleTypeOK, Send

\* A request of each kind.
LEMMA RequestType ==
  ASSUME NEW kind \in WriteKinds \cup ReadKinds, NEW id \in IDs
  PROVE  Request(kind, id) \in Requests /\ <<Request(kind, id)>> \in Seq(Requests)
<1>1. Request(kind, id) \in Requests
  BY DEF Request, Requests
<1>. QED BY <1>1

\* An answer that is handled.
LEMMA AnsweredType ==
  ASSUME LifecycleTypeOK, NEW d \in Devices, NEW kind, Answered(d, kind)
  PROVE  /\ answers' \in [Devices -> Seq(Answers)]
         /\ Head(answers[d]) \in Answers /\ Head(answers[d]).kind = kind
         /\ Head(answers[d]) \in Range(answers[d])
         /\ Head(answers[d]).id \in IDs
<1>1. answers[d] \in Seq(Answers) /\ answers[d] # << >>
  BY DEF LifecycleTypeOK, Answered
<1>2. Tail(answers[d]) \in Seq(Answers) /\ Head(answers[d]) \in Range(answers[d])
      /\ Head(answers[d]) \in Answers
  BY <1>1, RangeTail
<1>. QED BY <1>2 DEF LifecycleTypeOK, Answered, Answers

\* What is sent when a party is entered.
EntrySent(party, sent) == sent \o <<Request("load", party.partyID)>>

LEMMA EnterType ==
  ASSUME LifecycleTypeOK, NEW d \in Devices, NEW party \in Session,
         NEW sent \in Seq(Requests), EnterParty(d, party, sent)
  PROVE  /\ requests' \in [Devices -> Seq(Requests)]
         /\ screen' \in [Devices -> {"launching", "menu", "player"}]
         /\ shown' \in [Devices -> Session \cup {NoSession}]
         /\ loaded' \in [Devices -> BOOLEAN]
         /\ session' \in [Devices -> Session \cup {NoSession}]
         /\ \A e \in Devices : (shown'[e] # NoSession) <=> (screen'[e] = "player")
         /\ \A e \in Devices : loaded'[e] => screen'[e] = "player"
<1>1. party # NoSession /\ party.partyID \in IDs
  BY LifecycleAssumption DEF Session
<1>2. EntrySent(party, sent) \in Seq(Requests)
  <2>1. <<Request("load", party.partyID)>> \in Seq(Requests)
    BY <1>1, RequestType DEF ReadKinds
  <2>. QED BY <2>1 DEF EntrySent
<1>3. session' \in [Devices -> Session \cup {NoSession}]
  BY DEF EnterParty, LifecycleTypeOK
<1>4. CASE screen[d] = "menu"
  <2>1. OpenPlayer(d, party, sent)
    BY <1>4 DEF EnterParty
  <2>2. Send(d, EntrySent(party, sent))
    BY <2>1 DEF OpenPlayer, EntrySent
  <2>. QED BY <1>1, <1>2, <1>3, <2>1, <2>2, SendType DEF OpenPlayer, LifecycleTypeOK
<1>5. CASE screen[d] # "menu"
  BY <1>3, <1>5, SendType DEF EnterParty, LifecycleTypeOK
<1>. QED BY <1>4, <1>5

\* The three writes of a party that is created.
CreationWrites(id) ==
    <<Request("host", id), Request("streamingProvider", id), Request("queue", id)>>

LEMMA CreationType ==
  ASSUME NEW id \in IDs
  PROVE  /\ CreationWrites(id) \in Seq(Requests)
         /\ Range(CreationWrites(id)) = {Request("host", id),
              Request("streamingProvider", id), Request("queue", id)}
<1>. DEFINE a == Request("host", id)
            b == Request("streamingProvider", id)
            c == Request("queue", id)
<1>1. a \in Requests /\ b \in Requests /\ c \in Requests
  BY DEF Request, Requests, WriteKinds, PartyFields
<1>. HIDE DEF a, b, c
<1>2. <<a, b, c>> \in Seq(Requests) /\ Range(<<a, b, c>>) = {a, b, c}
  BY <1>1, RangeOfThree
<1>. QED BY <1>2 DEF CreationWrites, a, b, c

\* What is sent again is all that was sent, each of it once.
SentOnce(t, s) ==
  \E p \in [1..Len(s) -> 1..Len(s)] :
     /\ DOMAIN t = 1..Len(s)
     /\ \A k \in 1..Len(s) : t[k] = Request(s[p[k]].kind, s[p[k]].id)
     /\ \A k \in 1..Len(s) : \E j \in 1..Len(s) : p[j] = k
     /\ \A i, j \in 1..Len(s) : p[i] = p[j] => i = j

\* The places of what is sent again: the reads have the first ones, in any order,
\* the writes the others, in theirs.
LEMMA PlacesAreApart ==
  ASSUME NEW S, NEW s \in Seq(S), NEW reads \in Places(s),
         NEW i \in 1..Len(s), NEW j \in 1..Len(s)
  PROVE  /\ Place(s, reads, i) \in 1..Len(s)
         /\ i # j => Place(s, reads, i) # Place(s, reads, j)
<1>. DEFINE n == Len(s)
            R == Reads(s)
            After(k) == {l \in R : l > k}
            r == Cardinality(R)
<1>1. n \in Nat /\ R \subseteq 1..n
  BY DEF Reads
<1>. HIDE DEF n
<1>2. IsFiniteSet(1..n) /\ Cardinality(1..n) = n
  BY <1>1, FS_Interval
<1>3. IsFiniteSet(R) /\ r \in Nat /\ r <= n
  BY <1>1, <1>2, FS_Subset, FS_CardinalityType
<1>4. /\ reads \in [R -> 1..r]
      /\ \A k, l \in R : reads[k] = reads[l] => k = l
  BY DEF Places, Injection, IsInjective
<1>5. \A k \in 1..n : Place(s, reads, k) = IF k \in R THEN reads[k] ELSE k + Cardinality(After(k))
  BY DEF Place
<1>. HIDE DEF R, r
<1>6. ASSUME NEW k \in 1..n
      PROVE  /\ IsFiniteSet(After(k)) /\ Cardinality(After(k)) \in Nat
             /\ Cardinality(After(k)) <= n - k
  <2>1. ASSUME NEW l \in After(k) PROVE l \in (k+1)..n
    <3>1. l \in R /\ l > k
      OBVIOUS
    <3>2. l \in 1..n
      BY <1>1, <3>1
    <3>. QED BY <1>1, <3>1, <3>2
  <2>2. IsFiniteSet((k+1)..n) /\ Cardinality((k+1)..n) = n - k
    <3>1. k + 1 \in Int /\ n \in Int /\ k <= n
      BY <1>1
    <3>2. Cardinality((k+1)..n) = IF k + 1 > n THEN 0 ELSE n - (k + 1) + 1
      BY <3>1, FS_Interval
    <3>. QED BY <3>1, <3>2, FS_Interval
  <2>3. IsFiniteSet(After(k)) /\ Cardinality(After(k)) <= Cardinality((k+1)..n)
    <3>1. After(k) \subseteq (k+1)..n
      BY <2>1
    <3>. QED BY <2>2, <3>1, FS_Subset
  <2>. HIDE DEF After
  <2>. QED BY <2>2, <2>3, FS_CardinalityType
<1>7. ASSUME NEW k \in 1..n, k \notin R
      PROVE  r < k + Cardinality(After(k))
  <2>. DEFINE Before == {l \in R : l < k}
  <2>1. ASSUME NEW l \in Before PROVE l \in 1..(k-1)
    <3>1. l \in R /\ l < k
      OBVIOUS
    <3>2. l \in 1..n
      BY <1>1, <3>1
    <3>. QED BY <1>1, <3>1, <3>2
  <2>2. IsFiniteSet(1..(k-1)) /\ Cardinality(1..(k-1)) = k - 1
    <3>1. k - 1 \in Nat
      BY <1>1
    <3>. QED BY <3>1, FS_Interval
  <2>3. IsFiniteSet(Before) /\ Cardinality(Before) <= k - 1
    <3>1. Before \subseteq 1..(k-1)
      BY <2>1
    <3>. HIDE DEF Before
    <3>. QED BY <2>2, <3>1, FS_Subset
  <2>4. R = Before \cup After(k) /\ Before \cap After(k) = {}
    <3>1. \A l \in R : l \in 1..n /\ l # k
      BY <1>1, <1>7
    <3>2. \A l \in R : (l < k \/ l > k) /\ ~(l < k /\ l > k)
      BY <1>1, <3>1
    <3>. QED BY <3>2
  <2>. HIDE DEF Before, After
  <2>5. IsFiniteSet(After(k)) /\ Cardinality(After(k)) \in Nat /\ Cardinality(Before) \in Nat
    BY <1>6, <2>3, FS_CardinalityType
  <2>6. r = Cardinality(Before) + Cardinality(After(k))
    <3>1. Cardinality(Before \cup After(k))
            = Cardinality(Before) + Cardinality(After(k)) - Cardinality(Before \cap After(k))
      BY <2>3, <2>5, FS_Union
    <3>2. Cardinality(Before \cap After(k)) = 0
      BY <2>4, FS_EmptySet
    <3>. QED BY <2>4, <2>5, <3>1, <3>2 DEF r
  <2>. QED BY <1>1, <2>3, <2>5, <2>6
<1>8. ASSUME NEW k \in 1..n, NEW l \in 1..n, k \notin R, l \notin R, k < l
      PROVE  k + Cardinality(After(k)) < l + Cardinality(After(l))
  <2>. DEFINE Between == {m \in R : k < m /\ m < l}
  <2>1. ASSUME NEW m \in Between PROVE m \in (k+1)..(l-1)
    <3>1. m \in R /\ k < m /\ m < l
      OBVIOUS
    <3>2. m \in 1..n
      BY <1>1, <3>1
    <3>. QED BY <1>1, <3>1, <3>2
  <2>2. IsFiniteSet((k+1)..(l-1)) /\ Cardinality((k+1)..(l-1)) = l - 1 - k
    <3>1. k + 1 \in Int /\ l - 1 \in Int
      BY <1>1
    <3>2. Cardinality((k+1)..(l-1)) = IF k + 1 > l - 1 THEN 0 ELSE (l - 1) - (k + 1) + 1
      BY <3>1, FS_Interval
    <3>. QED BY <1>1, <1>8, <3>1, <3>2, FS_Interval
  <2>3. IsFiniteSet(Between) /\ Cardinality(Between) <= l - 1 - k
    <3>1. Between \subseteq (k+1)..(l-1)
      BY <2>1
    <3>. HIDE DEF Between
    <3>. QED BY <2>2, <3>1, FS_Subset
  <2>4. After(k) = Between \cup After(l) /\ Between \cap After(l) = {}
    <3>1. \A m \in R : m \in 1..n /\ m # l
      BY <1>1, <1>8
    <3>2. \A m \in R : /\ (m > k) <=> ((k < m /\ m < l) \/ m > l)
                        /\ ~((k < m /\ m < l) /\ m > l)
      BY <1>1, <1>8, <3>1
    <3>. QED BY <3>2
  <2>. HIDE DEF Between, After
  <2>5. /\ IsFiniteSet(After(l)) /\ Cardinality(After(l)) \in Nat
        /\ Cardinality(After(k)) \in Nat /\ Cardinality(Between) \in Nat
    BY <1>6, <2>3, FS_CardinalityType
  <2>6. Cardinality(After(k)) = Cardinality(Between) + Cardinality(After(l))
    <3>1. Cardinality(Between \cup After(l))
            = Cardinality(Between) + Cardinality(After(l)) - Cardinality(Between \cap After(l))
      BY <2>3, <2>5, FS_Union
    <3>2. Cardinality(Between \cap After(l)) = 0
      BY <2>4, FS_EmptySet
    <3>. QED BY <2>4, <2>5, <3>1, <3>2
  <2>. QED BY <1>1, <2>3, <2>5, <2>6
<1>9. i \in 1..n /\ j \in 1..n
  BY DEF n
<1>. HIDE DEF After
<1>10. Place(s, reads, i) \in 1..n
  <2>1. CASE i \in R
    BY <1>1, <1>3, <1>4, <1>5, <1>9, <2>1
  <2>2. CASE i \notin R
    BY <1>1, <1>5, <1>6, <1>9, <2>2
  <2>. QED BY <2>1, <2>2
<1>11. ASSUME i # j PROVE Place(s, reads, i) # Place(s, reads, j)
  <2>1. CASE i \in R /\ j \in R
    BY <1>4, <1>5, <1>9, <1>11, <2>1
  <2>2. CASE i \in R /\ j \notin R
    <3>1. reads[i] \in 1..r /\ r < j + Cardinality(After(j)) /\ Cardinality(After(j)) \in Nat
      BY <1>4, <1>6, <1>7, <1>9, <2>2
    <3>. QED BY <1>1, <1>3, <1>5, <1>9, <2>2, <3>1
  <2>3. CASE i \notin R /\ j \in R
    <3>1. reads[j] \in 1..r /\ r < i + Cardinality(After(i)) /\ Cardinality(After(i)) \in Nat
      BY <1>4, <1>6, <1>7, <1>9, <2>3
    <3>. QED BY <1>1, <1>3, <1>5, <1>9, <2>3, <3>1
  <2>4. CASE i \notin R /\ j \notin R
    <3>1. i < j \/ j < i
      BY <1>1, <1>9, <1>11
    <3>2. Cardinality(After(i)) \in Nat /\ Cardinality(After(j)) \in Nat
      BY <1>6, <1>9
    <3>. QED BY <1>1, <1>5, <1>8, <1>9, <2>4, <3>1, <3>2
  <2>. QED BY <2>1, <2>2, <2>3, <2>4
<1>. QED BY <1>10, <1>11 DEF n

LEMMA AgainIsOnce ==
  ASSUME NEW S, NEW s \in Seq(S), NEW t \in Again(s)
  PROVE  SentOnce(t, s) /\ t = [k \in DOMAIN t |-> t[k]]
<1>. DEFINE n == Len(s)
<1>1. n \in Nat /\ DOMAIN s = 1..n
  OBVIOUS
<1>2. \E reads \in Places(s) :
        t = [k \in DOMAIN s |->
               LET i == CHOOSE i \in DOMAIN s : Place(s, reads, i) = k
               IN Request(s[i].kind, s[i].id)]
  BY DEF Again
<1>. DEFINE D == DOMAIN s
<1>3. PICK reads \in Places(s) :
        t = [k \in D |->
               LET i == CHOOSE i \in D : Place(s, reads, i) = k
               IN Request(s[i].kind, s[i].id)]
  BY <1>2
<1>. DEFINE q == [i \in 1..n |-> Place(s, reads, i)]
            p == [k \in D |-> CHOOSE i \in D : Place(s, reads, i) = k]
<1>4. q \in Bijection(1..n, 1..n)
  <2>1. \A i \in 1..n : Place(s, reads, i) \in 1..n
    BY PlacesAreApart
  <2>2. \A i, j \in 1..n : i # j => Place(s, reads, i) # Place(s, reads, j)
    BY PlacesAreApart
  <2>3. q \in Injection(1..n, 1..n)
    BY <2>1, <2>2 DEF Injection, IsInjective
  <2>4. IsFiniteSet(1..n) /\ Cardinality(1..n) = n
    BY <1>1, FS_Interval
  <2>. HIDE DEF q, n
  <2>5. q \in Surjection(1..n, 1..n)
    BY <2>3, <2>4, FS_Injection
  <2>. QED BY <2>3, <2>5 DEF Bijection
<1>5. /\ \A i \in 1..n : Place(s, reads, i) \in 1..n
      /\ \A i, j \in 1..n : Place(s, reads, i) = Place(s, reads, j) => i = j
      /\ \A k \in 1..n : \E i \in 1..n : Place(s, reads, i) = k
  BY <1>4 DEF Bijection, Injection, IsInjective, Surjection
<1>6. D = 1..n
  BY <1>1
<1>. HIDE DEF n, q, D
<1>7. /\ p \in [1..n -> 1..n]
      /\ \A k \in 1..n : Place(s, reads, p[k]) = k
  BY <1>5, <1>6
<1>8. t = [k \in D |-> Request(s[p[k]].kind, s[p[k]].id)]
  BY <1>3
<1>. HIDE DEF p
<1>9. /\ \A k \in 1..n : \E j \in 1..n : p[j] = k
      /\ \A i, j \in 1..n : p[i] = p[j] => i = j
  BY <1>5, <1>7
<1>. QED BY <1>1, <1>6, <1>7, <1>8, <1>9 DEF SentOnce, n

\* What is unanswered, answers first, as a sequence and as a set.
LEMMA UnsentType ==
  ASSUME LifecycleTypeOK, NEW d \in Devices
  PROVE  /\ answers[d] \in Seq(Answers) /\ requests[d] \in Seq(Requests)
         /\ Unsent(d) \in Seq(Answers \cup Requests)
         /\ Range(Unsent(d)) = Range(answers[d]) \cup Range(requests[d])
         /\ \A r \in Range(Unsent(d)) : r.kind \in WriteKinds \cup ReadKinds /\ r.id \in IDs
<1>1. answers[d] \in Seq(Answers) /\ requests[d] \in Seq(Requests)
  BY DEF LifecycleTypeOK
<1>2. Unsent(d) \in Seq(Answers \cup Requests)
  BY <1>1 DEF Unsent
<1>3. Range(Unsent(d)) = Range(answers[d]) \cup Range(requests[d])
  BY <1>1, RangeConcat DEF Unsent
<1>4. Range(Unsent(d)) \subseteq Answers \cup Requests
  <2>. SUFFICES ASSUME NEW r \in Range(Unsent(d)) PROVE r \in Answers \cup Requests
    OBVIOUS
  <2>1. PICK k \in 1..Len(Unsent(d)) : r = Unsent(d)[k]
    BY <1>2, RangeAt
  <2>. QED BY <1>2, <2>1
<1>. QED BY <1>1, <1>2, <1>3, <1>4 DEF Answers, Requests

\* What a lost connection sends again.
LEMMA AgainType ==
  ASSUME LifecycleTypeOK, NEW d \in Devices, NEW t \in Again(Unsent(d))
  PROVE  /\ t \in Seq(Requests)
         /\ Range(t) = {Request(r.kind, r.id) : r \in Range(Unsent(d))}
         /\ SentOnce(t, Unsent(d))
<1>. DEFINE s == Unsent(d)
<1>1. s \in Seq(Answers \cup Requests)
      /\ \A r \in Range(s) : r.kind \in WriteKinds \cup ReadKinds /\ r.id \in IDs
  BY UnsentType
<1>2. t \in Again(s)
  OBVIOUS
<1>. HIDE DEF s
<1>3. SentOnce(t, s) /\ t = [k \in DOMAIN t |-> t[k]]
  BY <1>1, <1>2, AgainIsOnce
<1>4. PICK p \in [1..Len(s) -> 1..Len(s)] :
        /\ DOMAIN t = 1..Len(s)
        /\ \A k \in 1..Len(s) : t[k] = Request(s[p[k]].kind, s[p[k]].id)
        /\ \A k \in 1..Len(s) : \E j \in 1..Len(s) : p[j] = k
  BY <1>3 DEF SentOnce
<1>5. ASSUME NEW k \in 1..Len(s)
      PROVE  /\ s[p[k]] \in Range(s) /\ t[k] = Request(s[p[k]].kind, s[p[k]].id)
             /\ t[k] \in Requests
  <2>1. s[p[k]] \in Range(s)
    BY <1>1, RangeAt
  <2>. QED BY <1>1, <1>4, <2>1, RequestType
<1>6. t \in Seq(Requests)
  <2>1. Len(s) \in Nat /\ t \in [1..Len(s) -> Requests]
    BY <1>1, <1>3, <1>4, <1>5
  <2>. QED BY <2>1
<1>7. ASSUME NEW x \in Range(t) PROVE \E r \in Range(s) : x = Request(r.kind, r.id)
  <2>1. PICK k \in 1..Len(s) : x = t[k]
    BY <1>4, <1>7 DEF Range
  <2>. QED BY <1>5, <2>1
<1>8. ASSUME NEW r \in Range(s) PROVE Request(r.kind, r.id) \in Range(t)
  <2>1. PICK k \in 1..Len(s) : r = s[k]
    BY <1>1, RangeAt
  <2>2. PICK j \in 1..Len(s) : p[j] = k
    BY <1>4
  <2>. QED BY <1>4, <2>1, <2>2 DEF Range
<1>. QED BY <1>3, <1>6, <1>7, <1>8 DEF s

\* Every step keeps the types.  What dies leaves nothing but its session.
LEMMA DiesType ==
  ASSUME LifecycleTypeOK, NEW d \in Devices, AppDies(d), faults' \in 0..MaxFaults
  PROVE  LifecycleTypeOK'
<1>1. << >> \in Seq(Requests) /\ << >> \in Seq(Answers)
  OBVIOUS
<1>2. {r.id : r \in {r \in Range(requests[d]) : r.kind \in PartyFields}} \subseteq IDs
  BY UnsentType
<1>. QED BY <1>1, <1>2 DEF AppDies, LifecycleTypeOK, serverVars, history

LEMMA ServeType ==
  ASSUME LifecycleTypeOK, NEW d \in Devices, Serve(d)
  PROVE  LifecycleTypeOK'
<1>. DEFINE r == Head(requests[d])
            a == [kind |-> r.kind, id |-> r.id,
                  found |-> IF IsRead(r) THEN Fields(d, r.id) ELSE {}]
<1>1. requests[d] \in Seq(Requests) /\ requests[d] # << >> /\ answers[d] \in Seq(Answers)
  BY DEF LifecycleTypeOK, Serve
<1>2. r \in Requests /\ Tail(requests[d]) \in Seq(Requests)
  BY <1>1, RangeTail
<1>3. r.kind \in WriteKinds \cup ReadKinds /\ r.id \in IDs
  BY <1>2 DEF Requests
<1>4. Fields(d, r.id) \subseteq PartyFields
  BY <1>3 DEF LifecycleTypeOK, Fields
<1>5. a \in Answers
  BY <1>3, <1>4 DEF Answers
<1>6. fields' = [fields EXCEPT ![r.id] = IF r.kind \in PartyFields THEN @ \cup {r.kind} ELSE @]
      /\ filled' \subseteq filled \cup {r.id}
      /\ answers' = [answers EXCEPT ![d] = Append(answers[d], a)]
      /\ requests' = [requests EXCEPT ![d] = Tail(requests[d])]
      /\ UNCHANGED <<screen, shown, loaded, session, asks, faults, history>>
  BY DEF Serve
<1>. HIDE DEF r, a
<1>7. fields' \in [IDs -> SUBSET PartyFields]
  BY <1>3, <1>6 DEF LifecycleTypeOK
<1>8. requests' \in [Devices -> Seq(Requests)] /\ answers' \in [Devices -> Seq(Answers)]
  BY <1>1, <1>2, <1>5, <1>6 DEF LifecycleTypeOK
<1>. QED BY <1>3, <1>6, <1>7, <1>8 DEF LifecycleTypeOK, history

LEMMA LoseConnectionType ==
  ASSUME LifecycleTypeOK, NEW d \in Devices, LoseConnection(d)
  PROVE  LifecycleTypeOK'
<1>1. PICK sent \in Seq(Requests) : requests' = [requests EXCEPT ![d] = sent]
  BY AgainType DEF LoseConnection
<1>2. << >> \in Seq(Answers)
  OBVIOUS
<1>3. faults' \in 0..MaxFaults
  BY LifecycleAssumption DEF LoseConnection, LifecycleTypeOK
<1>. QED BY <1>1, <1>2, <1>3 DEF LoseConnection, LifecycleTypeOK, serverVars, history

LEMMA AskType ==
  ASSUME LifecycleTypeOK, NEW d \in Devices, TapCreate(d) \/ TapJoin(d) \/ OpenLink(d)
  PROVE  LifecycleTypeOK'
<1>1. ShownCodes \subseteq IDs
  BY DEF ShownCodes, LifecycleTypeOK, Session
<1>2. PICK kind \in AskKinds, id \in IDs : Send(d, <<Request(kind, id)>>)
  BY <1>1 DEF TapCreate, GeneratePartyID, TapJoin, OpenLink, AskKinds
<1>3. requests' \in [Devices -> Seq(Requests)]
  <2>1. <<Request(kind, id)>> \in Seq(Requests)
    BY RequestType DEF ReadKinds
  <2>. QED BY <1>2, <2>1, SendType
<1>4. asks' \in 0..MaxAsks
  BY LifecycleAssumption DEF TapCreate, TapJoin, OpenLink, Ask, LifecycleTypeOK
<1>5. drawnTwice' \subseteq IDs
  BY DEF TapCreate, GeneratePartyID, TapJoin, OpenLink, history, LifecycleTypeOK
<1>. QED BY <1>3, <1>4, <1>5
         DEF TapCreate, TapJoin, OpenLink, LifecycleTypeOK, serverVars, history

LEMMA AnswerType ==
  ASSUME LifecycleTypeOK, NEW d \in Devices, HandleAnswer(d)
  PROVE  LifecycleTypeOK'
<1>. DEFINE a == Head(answers[d])
<1>0. << >> \in Seq(Requests)
  OBVIOUS
<1>1. CASE DrawAgain(d)
  <2>1. Answered(d, "generatePartyID")
    BY <1>1 DEF DrawAgain
  <2>2. PICK id \in IDs : Send(d, <<Request("generatePartyID", id)>>)
    BY <1>1 DEF DrawAgain, GeneratePartyID
  <2>3. <<Request("generatePartyID", id)>> \in Seq(Requests)
    BY RequestType DEF ReadKinds, AskKinds
  <2>4. drawnTwice' \subseteq IDs
    BY <1>1 DEF DrawAgain, GeneratePartyID, LifecycleTypeOK
  <2>. QED BY <1>1, <2>1, <2>2, <2>3, <2>4, AnsweredType, SendType
           DEF DrawAgain, LifecycleTypeOK, serverVars, history
<1>2. CASE CreateNewParty(d)
  <2>1. Answered(d, "generatePartyID")
    BY <1>2 DEF CreateNewParty
  <2>2. answers' \in [Devices -> Seq(Answers)] /\ a.id \in IDs
    BY <2>1, AnsweredType
  <2>3. HostOf(a.id) \in Session /\ CreationWrites(a.id) \in Seq(Requests)
    BY <2>2, CreationType DEF HostOf, Session
  <2>4. EnterParty(d, HostOf(a.id), CreationWrites(a.id))
    BY <1>2 DEF CreateNewParty, HostOf, CreationWrites
  <2>. HIDE DEF a
  <2>. QED BY <1>2, <2>2, <2>3, <2>4, EnterType DEF CreateNewParty, LifecycleTypeOK, serverVars, history
<1>3. CASE JoinParty(d)
  <2>1. Answered(d, "joinParty")
    BY <1>3 DEF JoinParty
  <2>2. answers' \in [Devices -> Seq(Answers)] /\ a.id \in IDs
    BY <2>1, AnsweredType
  <2>. DEFINE party == [partyID |-> a.id, type |-> "attendee"]
  <2>3. party \in Session /\ EnterParty(d, party, << >>)
    BY <1>3, <2>2 DEF JoinParty, Session
  <2>. HIDE DEF a, party
  <2>. QED BY <1>0, <1>3, <2>2, <2>3, EnterType DEF JoinParty, LifecycleTypeOK, serverVars, history
<1>4. CASE NoPartyFound(d)
  BY <1>4, AnsweredType DEF NoPartyFound, LifecycleTypeOK, serverVars, history
<1>5. CASE PartyIsRead(d)
  <2>1. answers' \in [Devices -> Seq(Answers)]
    BY <1>5, AnsweredType DEF PartyIsRead
  <2>2. PICK b \in BOOLEAN : /\ loaded' = [loaded EXCEPT ![d] = loaded[d] \/ b]
                             /\ b => screen[d] = "player"
    BY <1>5 DEF PartyIsRead
  <2>3. loaded' \in [Devices -> BOOLEAN] /\ \A e \in Devices : loaded'[e] => screen[e] = "player"
    BY <2>2 DEF LifecycleTypeOK
  <2>. QED BY <1>5, <2>1, <2>3 DEF PartyIsRead, LifecycleTypeOK, serverVars, history
<1>6. CASE Acknowledged(d)
  BY <1>6, AnsweredType DEF Acknowledged, LifecycleTypeOK, serverVars, history
<1>. QED BY <1>1, <1>2, <1>3, <1>4, <1>5, <1>6 DEF HandleAnswer

LEMMA PlayerType ==
  ASSUME LifecycleTypeOK, NEW d \in Devices,
         ResumeSession(d) \/ ShowMenu(d) \/ AddSong(d) \/ TapClose(d)
  PROVE  LifecycleTypeOK'
<1>1. CASE ResumeSession(d)
  <2>1. session[d] \in Session /\ session[d].partyID \in IDs /\ session[d] # NoSession
    BY <1>1 DEF ResumeSession, LifecycleTypeOK, Session
  <2>2. << >> \in Seq(Requests) /\ <<Request("load", session[d].partyID)>> \in Seq(Requests)
    BY <2>1, RequestType DEF ReadKinds
  <2>3. << >> \o <<Request("load", session[d].partyID)>> \in Seq(Requests)
    BY <2>2
  <2>. QED BY <1>1, <2>1, <2>3, SendType DEF ResumeSession, OpenPlayer, LifecycleTypeOK, serverVars, history
<1>2. CASE ShowMenu(d)
  BY <1>2 DEF ShowMenu, LifecycleTypeOK, serverVars, history
<1>3. CASE AddSong(d)
  <2>1. shown[d].partyID \in IDs
    BY <1>3 DEF AddSong, LifecycleTypeOK, Session
  <2>2. <<Request("song", shown[d].partyID)>> \in Seq(Requests)
    BY <2>1, RequestType DEF WriteKinds
  <2>. QED BY <1>3, <2>2, SendType DEF AddSong, LifecycleTypeOK, serverVars, history
<1>4. CASE TapClose(d)
  BY <1>4 DEF TapClose, LifecycleTypeOK, serverVars, history
<1>. QED BY <1>1, <1>2, <1>3, <1>4

LEMMA LifecycleTypeStep == LifecycleTypeOK /\ [Next]_lifecycleVars => LifecycleTypeOK'
<1>. SUFFICES ASSUME LifecycleTypeOK, [Next]_lifecycleVars PROVE LifecycleTypeOK'
  OBVIOUS
<1>1. CASE UNCHANGED lifecycleVars
  BY <1>1 DEF lifecycleVars, LifecycleTypeOK
<1>2. ASSUME NEW d \in Devices, Restart(d) PROVE LifecycleTypeOK'
  <2>1. faults' \in 0..MaxFaults
    BY <1>2, LifecycleAssumption DEF Restart, LifecycleTypeOK
  <2>. QED BY <1>2, <2>1, DiesType DEF Restart
<1>3. ASSUME NEW d \in Devices, SearchTooEarly(d) PROVE LifecycleTypeOK'
  BY <1>3, DiesType DEF SearchTooEarly, LifecycleTypeOK
<1>. QED BY <1>1, <1>2, <1>3, AskType, AnswerType, PlayerType, ServeType, LoseConnectionType
         DEF Next

-----------------------------------------------------------------------------
(***************************************************************************)
(* What a step does to the requests, the answers and the session of its    *)
(* device.  Of the other devices it changes nothing; the server forgets    *)
(* nothing.                                                                *)
(***************************************************************************)
OthersRest(d) ==
  /\ \A e \in Devices \ {d} :
        /\ requests'[e] = requests[e] /\ answers'[e] = answers[e]
        /\ session'[e] = session[e]
        /\ shown'[e] = shown[e] /\ loaded'[e] = loaded[e]
  /\ \A id \in IDs : fields[id] \subseteq fields'[id]
  /\ cut \subseteq cut' /\ drawnTwice \subseteq drawnTwice'

\* An ID that nobody holds, or that is in use, or that is known to be drawn twice.
FreelyDrawn(id) ==
  fields[id] # {} \/ id \in drawnTwice' \/ \A e \in Devices : id \notin HeldBy(e)

\* The writes of a new party, before all else.
NewKinds == PartyFields \cup {"queue"}
WritesFirst(sent) ==
  \A i, j \in DOMAIN sent : i < j /\ sent[j].kind \in NewKinds => sent[i].kind \in NewKinds

\* The party of the oldest answer is created, or joined.
Created(d, rs) ==
  \E id \in IDs :
     /\ session'[d] = HostOf(id)
     /\ \E a \in Range(answers[d]) : a.kind = "generatePartyID" /\ a.id = id /\ ~IsUsed(a.found)
     /\ answers[d] # << >> /\ answers'[d] = Tail(answers[d])
     /\ Head(answers[d]).kind = "generatePartyID" /\ Head(answers[d]).id = id
     /\ ~IsUsed(Head(answers[d]).found)
     /\ Request("host", id) \in Range(rs) /\ Request("streamingProvider", id) \in Range(rs)
     /\ WritesFirst(rs)

Joined(d) ==
  /\ session'[d] \in Session /\ session'[d].type = "attendee"
  /\ \E a \in Range(answers[d]) :
        a.kind = "joinParty" /\ a.id = session'[d].partyID /\ Complete(a.found)

\* Why a request r is made.
Founded(d, r) ==
  /\ r.kind = "load" => session'[d] # NoSession /\ r.id = session'[d].partyID
  /\ r.kind = "generatePartyID" => FreelyDrawn(r.id) /\ session'[d] = session[d]
  /\ r.kind = "joinParty" => r.id \in ShownCodes
  /\ r.kind = "song" => loaded[d] /\ r.id = shown[d].partyID
  /\ r.kind \in NewKinds => session'[d] = HostOf(r.id)

\* The party that is shown was so, or has just been read.
ShowsNext(d) ==
  loaded'[d] => \/ loaded[d] /\ shown'[d] = shown[d]
                \/ \E a \in Range(answers[d]) :
                      a.kind = "load" /\ a.id = shown'[d].partyID /\ Complete(a.found)

\* The app of d makes requests rs, and handles an answer perhaps.
AppActs(d, rs) ==
  /\ OthersRest(d) /\ UNCHANGED <<fields, filled, faults, cut>> /\ ShowsNext(d)
  /\ rs \in Seq(Requests) /\ requests'[d] = requests[d] \o rs
  /\ Range(requests'[d]) = Range(requests[d]) \cup Range(rs)
  /\ answers'[d] = answers[d] \/ (answers[d] # << >> /\ answers'[d] = Tail(answers[d]))
  /\ Range(answers'[d]) \subseteq Range(answers[d])
  /\ \A r \in Range(rs) : r.kind = "generatePartyID" => Len(rs) = 1
  /\ session'[d] \in {session[d], NoSession} \/ Created(d, rs) \/ Joined(d)
  /\ \A r \in Range(rs) : Founded(d, r)
  /\ Created(d, rs) \/ \A r \in Range(rs) : r.kind \notin NewKinds

LEMMA AppActsIntro ==
  ASSUME LifecycleTypeOK, NEW d \in Devices, NEW rs \in Seq(Requests),
         OthersRest(d), UNCHANGED <<fields, filled, faults, cut>>, ShowsNext(d),
         requests'[d] = requests[d] \o rs,
         answers'[d] = answers[d] \/ (answers[d] # << >> /\ answers'[d] = Tail(answers[d])),
         session'[d] \in {session[d], NoSession} \/ Created(d, rs) \/ Joined(d),
         \A r \in Range(rs) : Founded(d, r),
         Created(d, rs) \/ \A r \in Range(rs) : r.kind \notin NewKinds,
         \A r \in Range(rs) : r.kind = "generatePartyID" => Len(rs) = 1
  PROVE  AppActs(d, rs)
<1>1. requests[d] \in Seq(Requests) /\ answers[d] \in Seq(Answers)
  BY DEF LifecycleTypeOK
<1>2. Range(requests[d] \o rs) = Range(requests[d]) \cup Range(rs)
  BY <1>1, RangeConcat
<1>3. Range(answers'[d]) \subseteq Range(answers[d])
  <2>1. CASE answers'[d] = answers[d]
    BY <2>1
  <2>2. CASE answers[d] # << >> /\ answers'[d] = Tail(answers[d])
    BY <1>1, <2>2, RangeTail
  <2>. QED BY <2>1, <2>2
<1>. QED BY <1>2, <1>3 DEF AppActs

\* Nothing is sent.
LEMMA NothingSent ==
  ASSUME LifecycleTypeOK, NEW d \in Devices, requests' = requests
  PROVE  /\ << >> \in Seq(Requests) /\ requests'[d] = requests[d] \o << >>
         /\ Range(<< >>) = {}
BY RangeEmpty DEF LifecycleTypeOK

LEMMA OneSent ==
  ASSUME LifecycleTypeOK, NEW d \in Devices, NEW kind \in WriteKinds \cup ReadKinds,
         NEW id \in IDs, Send(d, <<Request(kind, id)>>)
  PROVE  /\ <<Request(kind, id)>> \in Seq(Requests)
         /\ requests'[d] = requests[d] \o <<Request(kind, id)>>
         /\ \A r \in Range(<<Request(kind, id)>>) : r.kind = kind /\ r.id = id
         /\ Len(<<Request(kind, id)>>) = 1
         /\ \A e \in Devices \ {d} : requests'[e] = requests[e]
<1>1. <<Request(kind, id)>> \in Seq(Requests) /\ Request(kind, id) \in Requests
  BY RequestType
<1>2. Range(<<Request(kind, id)>>) = {Request(kind, id)}
  BY <1>1, RangeOfOne
<1>3. \A r \in Range(<<Request(kind, id)>>) : r.kind = kind /\ r.id = id
  BY <1>2 DEF Request
<1>4. /\ requests'[d] = requests[d] \o <<Request(kind, id)>>
      /\ \A e \in Devices \ {d} : requests'[e] = requests[e]
  BY DEF LifecycleTypeOK, Send
<1>. QED BY <1>1, <1>3, <1>4

\* An answer that is handled leaves the answers.
LEMMA OneAnswered ==
  ASSUME LifecycleTypeOK, NEW d \in Devices, NEW kind, Answered(d, kind)
  PROVE  /\ answers[d] # << >> /\ answers'[d] = Tail(answers[d])
         /\ \A e \in Devices \ {d} : answers'[e] = answers[e]
BY DEF LifecycleTypeOK, Answered

\* A party is entered: its own requests, and the one of the player to read it.
Enters(d, party, sent) ==
  /\ session'[d] = party /\ party # NoSession
  /\ \A e \in Devices \ {d} : requests'[e] = requests[e] /\ session'[e] = session[e]
  /\ \E rs \in Seq(Requests) :
        /\ requests'[d] = requests[d] \o rs /\ Range(sent) \subseteq Range(rs)
        /\ rs = sent \/ rs = sent \o <<Request("load", party.partyID)>>
        /\ \A r \in Range(rs) : r \in Range(sent) \/ (r.kind = "load" /\ r.id = party.partyID)

LEMMA Entered ==
  ASSUME LifecycleTypeOK, NEW d \in Devices, NEW party \in Session,
         NEW sent \in Seq(Requests), EnterParty(d, party, sent)
  PROVE  Enters(d, party, sent)
<1>. DEFINE load == <<Request("load", party.partyID)>>
<1>1. party # NoSession /\ party.partyID \in IDs
  BY LifecycleAssumption DEF Session
<1>2. /\ load \in Seq(Requests) /\ Range(load) = {Request("load", party.partyID)}
      /\ Request("load", party.partyID).kind = "load"
      /\ Request("load", party.partyID).id = party.partyID
  <2>1. load \in Seq(Requests) /\ Request("load", party.partyID) \in Requests
    BY <1>1, RequestType DEF ReadKinds
  <2>. QED BY <2>1, RangeOfOne DEF Request
<1>. HIDE DEF load
<1>3. /\ sent \o load \in Seq(Requests)
      /\ Range(sent \o load) = Range(sent) \cup Range(load)
  BY <1>2, RangeConcat
<1>4. Send(d, sent \o load) \/ Send(d, sent)
  BY DEF EnterParty, OpenPlayer, load
<1>5. session'[d] = party /\ \A e \in Devices \ {d} : session'[e] = session[e]
  BY DEF EnterParty, LifecycleTypeOK
<1>6. CASE Send(d, sent \o load)
  <2>1. requests'[d] = requests[d] \o (sent \o load)
    BY <1>6 DEF Send, LifecycleTypeOK
  <2>2. \A e \in Devices \ {d} : requests'[e] = requests[e]
    BY <1>6 DEF Send, LifecycleTypeOK
  <2>3. \A r \in Range(sent \o load) :
          r \in Range(sent) \/ (r.kind = "load" /\ r.id = party.partyID)
    BY <1>2, <1>3
  <2>4. Range(sent) \subseteq Range(sent \o load)
    BY <1>3
  <2>. DEFINE rs == sent \o load
  <2>5. rs \in Seq(Requests) /\ rs = sent \o <<Request("load", party.partyID)>>
    BY <1>3 DEF load
  <2>. HIDE DEF rs
  <2>. QED BY <1>1, <1>5, <2>1, <2>2, <2>3, <2>4, <2>5 DEF rs, Enters
<1>7. CASE Send(d, sent)
  <2>1. requests'[d] = requests[d] \o sent /\ \A e \in Devices \ {d} : requests'[e] = requests[e]
    BY <1>7 DEF Send, LifecycleTypeOK
  <2>. QED BY <1>1, <1>5, <2>1 DEF Enters
<1>. QED BY <1>4, <1>6, <1>7

\* Every action of an app that lives on is of this form.
LEMMA AskActs ==
  ASSUME LifecycleTypeOK, NEW d \in Devices, TapCreate(d) \/ TapJoin(d) \/ OpenLink(d)
  PROVE  \E rs : AppActs(d, rs)
<1>1. ShownCodes \subseteq IDs
  BY DEF ShownCodes, LifecycleTypeOK, Session
<1>2. PICK kind \in AskKinds, id \in IDs :
        /\ Send(d, <<Request(kind, id)>>)
        /\ kind = "generatePartyID" => FreelyDrawn(id)
        /\ kind = "joinParty" => id \in ShownCodes
  BY <1>1 DEF TapCreate, TapJoin, OpenLink, GeneratePartyID, FreelyDrawn, AskKinds
<1>. DEFINE rs == <<Request(kind, id)>>
<1>3. /\ rs \in Seq(Requests) /\ requests'[d] = requests[d] \o rs
      /\ \A r \in Range(rs) : r.kind = kind /\ r.id = id
      /\ Len(rs) = 1
      /\ \A e \in Devices \ {d} : requests'[e] = requests[e]
  BY <1>2, OneSent DEF ReadKinds
<1>. HIDE DEF rs
<1>4. /\ UNCHANGED <<fields, filled, faults, cut, answers, session>>
      /\ drawnTwice \subseteq drawnTwice'
      /\ (loaded' = loaded /\ shown' = shown) \/ ~loaded'[d]
      /\ \A e \in Devices \ {d} : loaded'[e] = loaded[e] /\ shown'[e] = shown[e]
  BY DEF TapCreate, GeneratePartyID, TapJoin, OpenLink, serverVars, history, LifecycleTypeOK
<1>5. OthersRest(d) /\ ShowsNext(d)
  BY <1>3, <1>4 DEF OthersRest, ShowsNext
<1>6. \A r \in Range(rs) : Founded(d, r) /\ r.kind \notin NewKinds
  BY <1>2, <1>3, <1>4 DEF Founded, NewKinds, AskKinds, PartyFields
<1>7. AppActs(d, rs)
  BY <1>3, <1>4, <1>5, <1>6, AppActsIntro
<1>. QED BY <1>7

LEMMA DrawAgainActs ==
  ASSUME LifecycleTypeOK, NEW d \in Devices, DrawAgain(d)
  PROVE  \E rs : AppActs(d, rs)
<1>1. PICK kind \in AskKinds, id \in IDs :
        /\ kind = "generatePartyID" /\ FreelyDrawn(id)
        /\ Send(d, <<Request(kind, id)>>)
  BY DEF DrawAgain, GeneratePartyID, FreelyDrawn, AskKinds
<1>. DEFINE rs == <<Request(kind, id)>>
<1>2. /\ rs \in Seq(Requests) /\ requests'[d] = requests[d] \o rs
      /\ \A r \in Range(rs) : r.kind = kind /\ r.id = id
      /\ Len(rs) = 1
      /\ \A e \in Devices \ {d} : requests'[e] = requests[e]
  <2>1. kind \in AskKinds /\ Send(d, <<Request(kind, id)>>)
    BY <1>1
  <2>. QED BY <2>1, OneSent DEF ReadKinds
<1>. HIDE DEF rs
<1>3. /\ UNCHANGED <<fields, filled, shown, loaded, session, faults, cut>>
      /\ drawnTwice \subseteq drawnTwice'
  BY DEF DrawAgain, GeneratePartyID, serverVars, history
<1>4. /\ answers[d] # << >> /\ answers'[d] = Tail(answers[d])
      /\ \A e \in Devices \ {d} : answers'[e] = answers[e]
  BY OneAnswered DEF DrawAgain
<1>5. OthersRest(d) /\ ShowsNext(d)
  BY <1>2, <1>3, <1>4 DEF OthersRest, ShowsNext
<1>6. \A r \in Range(rs) : Founded(d, r) /\ r.kind \notin NewKinds
  BY <1>1, <1>2, <1>3 DEF Founded, NewKinds, PartyFields
<1>7. AppActs(d, rs)
  BY <1>2, <1>3, <1>4, <1>5, <1>6, AppActsIntro
<1>. QED BY <1>7

\* The writes of a new party come before the read of its player.
LEMMA CreationIsFirst ==
  ASSUME NEW id, NEW rs,
         rs = CreationWrites(id) \/ rs = CreationWrites(id) \o <<Request("load", id)>>
  PROVE  WritesFirst(rs)
<1>1. /\ CreationWrites(id)[1].kind \in NewKinds /\ CreationWrites(id)[2].kind \in NewKinds
      /\ CreationWrites(id)[3].kind \in NewKinds
  BY DEF CreationWrites, Request, NewKinds, PartyFields
<1>2. CASE rs = CreationWrites(id)
  <2>1. DOMAIN rs = {1, 2, 3}
    BY <1>2 DEF CreationWrites
  <2>. QED BY <1>1, <1>2, <2>1 DEF WritesFirst
<1>3. CASE rs = CreationWrites(id) \o <<Request("load", id)>>
  <2>1. DOMAIN rs = {1, 2, 3, 4} /\ rs[4] = Request("load", id)
        /\ rs[1] = CreationWrites(id)[1] /\ rs[2] = CreationWrites(id)[2]
        /\ rs[3] = CreationWrites(id)[3]
    BY <1>3 DEF CreationWrites
  <2>. QED BY <1>1, <2>1 DEF WritesFirst
<1>. QED BY <1>2, <1>3

LEMMA CreateActs ==
  ASSUME LifecycleTypeOK, NEW d \in Devices, CreateNewParty(d)
  PROVE  \E rs : AppActs(d, rs)
<1>. DEFINE a == Head(answers[d])
            id == a.id
            sent == CreationWrites(id)
<1>1. Answered(d, "generatePartyID") /\ ~IsUsed(a.found) /\ EnterParty(d, HostOf(id), sent)
  BY DEF CreateNewParty, HostOf, CreationWrites
<1>2. a \in Range(answers[d]) /\ a.kind = "generatePartyID" /\ id \in IDs
  BY <1>1, AnsweredType
<1>3. /\ sent \in Seq(Requests)
      /\ Range(sent) = {Request("host", id), Request("streamingProvider", id),
                        Request("queue", id)}
  BY <1>2, CreationType
<1>4. /\ answers[d] # << >> /\ answers'[d] = Tail(answers[d])
      /\ \A e \in Devices \ {d} : answers'[e] = answers[e]
  BY <1>1, OneAnswered
<1>5. HostOf(id) \in Session /\ HostOf(id).partyID = id
  BY <1>2 DEF HostOf, Session
<1>. HIDE DEF sent
<1>6. /\ session'[d] = HostOf(id) /\ HostOf(id) # NoSession
      /\ \A e \in Devices \ {d} : requests'[e] = requests[e] /\ session'[e] = session[e]
      /\ \E rs \in Seq(Requests) :
            /\ requests'[d] = requests[d] \o rs /\ Range(sent) \subseteq Range(rs)
            /\ rs = sent \/ rs = sent \o <<Request("load", id)>>
            /\ \A r \in Range(rs) : r \in Range(sent) \/ (r.kind = "load" /\ r.id = id)
  <2>1. Enters(d, HostOf(id), sent)
    BY <1>1, <1>3, <1>5, Entered
  <2>. QED BY <1>5, <2>1 DEF Enters
<1>7. PICK rs \in Seq(Requests) :
            /\ requests'[d] = requests[d] \o rs /\ Range(sent) \subseteq Range(rs)
            /\ rs = sent \/ rs = sent \o <<Request("load", id)>>
            /\ \A r \in Range(rs) : r \in Range(sent) \/ (r.kind = "load" /\ r.id = id)
  BY <1>6
<1>8. /\ UNCHANGED <<fields, filled, faults, cut, drawnTwice>>
      /\ (loaded' = loaded /\ shown' = shown) \/ ~loaded'[d]
      /\ \A e \in Devices \ {d} : loaded'[e] = loaded[e] /\ shown'[e] = shown[e]
  BY DEF CreateNewParty, EnterParty, OpenPlayer, serverVars, history, LifecycleTypeOK
<1>9. Created(d, rs)
  <2>1. WritesFirst(rs)
    BY <1>7, CreationIsFirst DEF sent
  <2>. QED BY <1>1, <1>2, <1>3, <1>4, <1>6, <1>7, <2>1 DEF Created
<1>10. \A r \in Range(rs) :
          r.kind \in {"host", "streamingProvider", "queue", "load"} /\ r.id = id
  BY <1>3, <1>7 DEF Request
<1>11. OthersRest(d) /\ ShowsNext(d)
  BY <1>4, <1>6, <1>8 DEF OthersRest, ShowsNext
<1>. HIDE DEF a
<1>12. \A r \in Range(rs) : Founded(d, r)
  BY <1>5, <1>6, <1>10 DEF Founded
<1>13. \A r \in Range(rs) : r.kind # "generatePartyID"
  BY <1>10
<1>14. AppActs(d, rs)
  BY <1>4, <1>7, <1>8, <1>9, <1>11, <1>12, <1>13, AppActsIntro
<1>. QED BY <1>14

LEMMA JoinActs ==
  ASSUME LifecycleTypeOK, NEW d \in Devices, JoinParty(d)
  PROVE  \E rs : AppActs(d, rs)
<1>. DEFINE a == Head(answers[d])
            party == [partyID |-> a.id, type |-> "attendee"]
<1>1. Answered(d, "joinParty") /\ Complete(a.found) /\ EnterParty(d, party, << >>)
  BY DEF JoinParty
<1>2. a \in Range(answers[d]) /\ a.kind = "joinParty" /\ a.id \in IDs
  BY <1>1, AnsweredType
<1>3. << >> \in Seq(Requests) /\ Range(<< >>) = {}
  BY RangeEmpty
<1>4. /\ answers[d] # << >> /\ answers'[d] = Tail(answers[d])
      /\ \A e \in Devices \ {d} : answers'[e] = answers[e]
  BY <1>1, OneAnswered
<1>5. party \in Session /\ party.partyID = a.id /\ party.type = "attendee"
  BY <1>2 DEF Session
<1>. HIDE DEF party
<1>6. Enters(d, party, << >>)
  BY <1>1, <1>3, <1>5, Entered
<1>7. PICK rs \in Seq(Requests) :
            /\ requests'[d] = requests[d] \o rs
            /\ \A r \in Range(rs) : r.kind = "load" /\ r.id = party.partyID
  BY <1>3, <1>6 DEF Enters
<1>8. /\ UNCHANGED <<fields, filled, faults, cut, drawnTwice>>
      /\ (loaded' = loaded /\ shown' = shown) \/ ~loaded'[d]
      /\ \A e \in Devices \ {d} : loaded'[e] = loaded[e] /\ shown'[e] = shown[e]
  BY DEF JoinParty, EnterParty, OpenPlayer, serverVars, history, LifecycleTypeOK
<1>9. Joined(d)
  BY <1>1, <1>2, <1>5, <1>6 DEF Joined, Enters
<1>10. OthersRest(d) /\ ShowsNext(d)
  BY <1>4, <1>6, <1>8 DEF OthersRest, Enters, ShowsNext
<1>. HIDE DEF a
<1>11. \A r \in Range(rs) : Founded(d, r) /\ r.kind \notin NewKinds
  BY <1>6, <1>7 DEF Founded, NewKinds, PartyFields, Enters
<1>12. AppActs(d, rs)
  BY <1>4, <1>7, <1>8, <1>9, <1>10, <1>11, AppActsIntro
<1>. QED BY <1>12

LEMMA QuietActs ==
  ASSUME LifecycleTypeOK, NEW d \in Devices,
         NoPartyFound(d) \/ PartyIsRead(d) \/ Acknowledged(d) \/ ShowMenu(d) \/ TapClose(d)
  PROVE  \E rs : AppActs(d, rs)
<1>1. UNCHANGED <<fields, filled, faults, cut, drawnTwice, requests>>
  BY DEF NoPartyFound, PartyIsRead, Acknowledged, ShowMenu, TapClose, serverVars, history
<1>2. /\ answers'[d] = answers[d] \/ (answers[d] # << >> /\ answers'[d] = Tail(answers[d]))
      /\ \A e \in Devices \ {d} : answers'[e] = answers[e]
  <2>1. answers' = answers \/ \E kind : Answered(d, kind)
    BY DEF NoPartyFound, PartyIsRead, Acknowledged, ShowMenu, TapClose
  <2>. QED BY <2>1, OneAnswered
<1>3. /\ session'[d] \in {session[d], NoSession}
      /\ \A e \in Devices \ {d} : session'[e] = session[e]
  BY DEF NoPartyFound, PartyIsRead, Acknowledged, ShowMenu, TapClose, LifecycleTypeOK
<1>4. << >> \in Seq(Requests) /\ requests'[d] = requests[d] \o << >> /\ Range(<< >>) = {}
  BY <1>1, NothingSent
<1>5. \A e \in Devices \ {d} : loaded'[e] = loaded[e] /\ shown'[e] = shown[e]
  BY DEF NoPartyFound, PartyIsRead, Acknowledged, ShowMenu, TapClose, LifecycleTypeOK
<1>6. ShowsNext(d)
  <2>1. CASE PartyIsRead(d)
    <3>1. Head(answers[d]) \in Range(answers[d]) /\ Head(answers[d]).kind = "load"
      BY <2>1, AnsweredType DEF PartyIsRead
    <3>2. loaded'[d] => \/ loaded[d]
                        \/ /\ shown[d].partyID = Head(answers[d]).id
                           /\ Complete(Head(answers[d]).found)
      BY <2>1 DEF PartyIsRead, LifecycleTypeOK
    <3>3. shown' = shown
      BY <2>1 DEF PartyIsRead
    <3>. QED BY <3>1, <3>2, <3>3 DEF ShowsNext
  <2>2. CASE NoPartyFound(d) \/ Acknowledged(d) \/ ShowMenu(d) \/ TapClose(d)
    BY <2>2 DEF NoPartyFound, Acknowledged, ShowMenu, TapClose, ShowsNext, LifecycleTypeOK
  <2>. QED BY <2>1, <2>2
<1>7. OthersRest(d)
  BY <1>1, <1>2, <1>3, <1>5 DEF OthersRest
<1>8. AppActs(d, << >>)
  BY <1>1, <1>2, <1>3, <1>4, <1>6, <1>7, AppActsIntro
<1>. QED BY <1>8

LEMMA PlayerActs ==
  ASSUME LifecycleTypeOK, NEW d \in Devices, ResumeSession(d) \/ AddSong(d)
  PROVE  \E rs : AppActs(d, rs)
<1>0. /\ UNCHANGED <<fields, filled, faults, cut, answers, session>>
      /\ drawnTwice \subseteq drawnTwice'
      /\ (loaded' = loaded /\ shown' = shown) \/ ~loaded'[d]
      /\ \A e \in Devices \ {d} : loaded'[e] = loaded[e] /\ shown'[e] = shown[e]
  BY DEF ResumeSession, OpenPlayer, AddSong, serverVars, history, LifecycleTypeOK
<1>1. PICK kind \in {"load", "song"}, id \in IDs :
        /\ Send(d, <<Request(kind, id)>>)
        /\ kind = "load" => session[d] # NoSession /\ id = session[d].partyID
        /\ kind = "song" => loaded[d] /\ id = shown[d].partyID
  <2>1. CASE ResumeSession(d)
    <3>1. session[d] # NoSession /\ session[d].partyID \in IDs
      BY <2>1 DEF ResumeSession, LifecycleTypeOK, Session
    <3>2. << >> \o <<Request("load", session[d].partyID)>> = <<Request("load", session[d].partyID)>>
      OBVIOUS
    <3>3. Send(d, <<Request("load", session[d].partyID)>>)
      BY <2>1, <3>2 DEF ResumeSession, OpenPlayer
    <3>. QED BY <3>1, <3>3
  <2>2. CASE AddSong(d)
    BY <2>2 DEF AddSong, LifecycleTypeOK, Session
  <2>. QED BY <2>1, <2>2
<1>. DEFINE rs == <<Request(kind, id)>>
<1>2. /\ rs \in Seq(Requests) /\ requests'[d] = requests[d] \o rs
      /\ \A r \in Range(rs) : r.kind = kind /\ r.id = id
      /\ Len(rs) = 1
      /\ \A e \in Devices \ {d} : requests'[e] = requests[e]
  <2>1. kind \in WriteKinds \cup ReadKinds /\ Send(d, <<Request(kind, id)>>)
    BY <1>1 DEF ReadKinds, WriteKinds
  <2>. QED BY <2>1, OneSent
<1>. HIDE DEF rs
<1>3. OthersRest(d) /\ ShowsNext(d)
  BY <1>0, <1>2 DEF OthersRest, ShowsNext
<1>4. \A r \in Range(rs) : Founded(d, r) /\ r.kind \notin NewKinds
  BY <1>0, <1>1, <1>2 DEF Founded, NewKinds, PartyFields
<1>5. AppActs(d, rs)
  BY <1>0, <1>2, <1>3, <1>4, AppActsIntro
<1>. QED BY <1>5

-----------------------------------------------------------------------------
(***************************************************************************)
(* Parties are found.                                                      *)
(***************************************************************************)
LEMMA FieldsAre ==
  ASSUME NEW d, NEW id, NEW k
  PROVE  k \in Fields(d, id) <=>
           \/ k \in fields[id]
           \/ k \in PartyFields /\ Request(k, id) \in Range(requests[d])
BY DEF Fields, Range

\* A device goes on to see what it sees, while no write gets lost on its way.
LEMMA FieldsGrow ==
  ASSUME NEW d, NEW id, fields[id] \subseteq fields'[id],
         \A k \in PartyFields : Request(k, id) \in Range(requests[d])
            => Request(k, id) \in Range(requests'[d]) \/ k \in fields'[id]
  PROVE  Fields(d, id) \subseteq Fields(d, id)'
BY DEF Fields, Range

LEMMA ThereStays ==
  ASSUME NEW d, NEW id, Fields(d, id) \subseteq Fields(d, id)', cut \subseteq cut',
         IsThere(d, id)
  PROVE  IsThere(d, id)'
BY DEF IsThere, Complete

\* What the invariant says of one device.
ThereFor(d) ==
  /\ session[d] # NoSession => IsThere(d, session[d].partyID)
  /\ \A r \in Range(Unsent(d)) : r.kind = "load" => IsThere(d, r.id)
  /\ \A a \in Range(answers[d]) : IsRead(a) => a.found \subseteq Fields(d, a.id)
  /\ \A a \in Range(answers[d]) : a.kind = "load" => Complete(a.found) \/ a.id \in cut

LEMMA ThereForAll ==
  (\A d \in Devices : ThereFor(d)) <=> PartiesAreThere /\ PartyIsFound
BY DEF ThereFor, PartiesAreThere, PartyIsFound

\* The other devices see no less.
LEMMA OthersThere ==
  ASSUME LifecycleTypeOK, LifecycleTypeOK', NEW d \in Devices, OthersRest(d),
         NEW e \in Devices \ {d}, ThereFor(e)
  PROVE  ThereFor(e)'
<1>1. requests'[e] = requests[e] /\ answers'[e] = answers[e] /\ session'[e] = session[e]
  BY DEF OthersRest
<1>2. ASSUME NEW id \in IDs
      PROVE  Fields(e, id) \subseteq Fields(e, id)' /\ (IsThere(e, id) => IsThere(e, id)')
  <2>1. fields[id] \subseteq fields'[id] /\ cut \subseteq cut'
    BY DEF OthersRest
  <2>2. Fields(e, id) \subseteq Fields(e, id)'
    BY <1>1, <2>1, FieldsGrow
  <2>. QED BY <2>1, <2>2, ThereStays
<1>3. Unsent(e)' = Unsent(e)
  BY <1>1 DEF Unsent
<1>4. \A r \in Range(Unsent(e)) : r.id \in IDs
  BY UnsentType
<1>5. \A a \in Range(answers[e]) : a.id \in IDs
  BY <1>4, UnsentType
<1>6. session[e] # NoSession => session[e].partyID \in IDs
  BY DEF LifecycleTypeOK, Session
<1>7. cut \subseteq cut'
  BY DEF OthersRest
<1>. QED BY <1>1, <1>2, <1>3, <1>4, <1>5, <1>6, <1>7 DEF ThereFor

\* The device of an app that acts: the party it enters is there.
LEMMA ActsThere ==
  ASSUME LifecycleTypeOK, LifecycleTypeOK', NEW d \in Devices, NEW rs, AppActs(d, rs),
         ThereFor(d)
  PROVE  ThereFor(d)'
<1>1. /\ fields' = fields /\ cut' = cut
      /\ Range(requests'[d]) = Range(requests[d]) \cup Range(rs)
      /\ Range(answers'[d]) \subseteq Range(answers[d])
      /\ \A r \in Range(rs) :
            r.kind = "load" => session'[d] # NoSession /\ r.id = session'[d].partyID
  BY DEF AppActs, Founded
<1>2. \A r \in Range(Unsent(d)) : r.id \in IDs
  BY UnsentType
<1>3. ASSUME NEW id \in IDs
      PROVE  Fields(d, id) \subseteq Fields(d, id)' /\ (IsThere(d, id) => IsThere(d, id)')
  <2>1. Fields(d, id) \subseteq Fields(d, id)'
    BY <1>1, FieldsGrow
  <2>. QED BY <1>1, <2>1, ThereStays
<1>4. session'[d] # NoSession => IsThere(d, session[d].partyID)'
  <2>1. CASE session'[d] \in {session[d], NoSession}
    <3>1. session[d] # NoSession => session[d].partyID \in IDs
      BY DEF LifecycleTypeOK, Session
    <3>. QED BY <1>3, <2>1, <3>1 DEF ThereFor
  <2>2. CASE Created(d, rs)
    <3>1. PICK id \in IDs : /\ session'[d] = HostOf(id)
                            /\ Request("host", id) \in Range(rs)
                            /\ Request("streamingProvider", id) \in Range(rs)
      BY <2>2 DEF Created
    <3>2. Request("host", id) \in Range(requests'[d])
          /\ Request("streamingProvider", id) \in Range(requests'[d])
      BY <1>1, <3>1
    <3>3. PartyFields \subseteq Fields(d, id)'
      BY <3>2 DEF Fields, Range, PartyFields
    <3>4. session'[d].partyID = id
      BY <3>1 DEF HostOf
    <3>. QED BY <3>3, <3>4 DEF IsThere, Complete
  <2>3. CASE Joined(d)
    <3>1. PICK a \in Range(answers[d]) :
            a.kind = "joinParty" /\ a.id = session'[d].partyID /\ Complete(a.found)
      BY <2>3 DEF Joined
    <3>2. a.found \subseteq Fields(d, a.id) /\ a.id \in IDs
      <4>1. IsRead(a)
        BY <3>1 DEF IsRead, ReadKinds, AskKinds
      <4>. QED BY <1>2, <4>1, UnsentType DEF ThereFor
    <3>3. a.found \subseteq Fields(d, a.id)'
      BY <1>3, <3>2
    <3>. QED BY <3>1, <3>3 DEF IsThere, Complete
  <2>. QED BY <2>1, <2>2, <2>3 DEF AppActs
<1>5. ASSUME NEW r \in Range(Unsent(d)'), r.kind = "load" PROVE IsThere(d, r.id)'
  <2>1. r \in Range(answers'[d]) \cup Range(requests'[d])
    <3>1. Range(Unsent(d))' = Range(answers[d])' \cup Range(requests[d])'
      <4>1. answers'[d] \in Seq(Answers) /\ requests'[d] \in Seq(Requests)
        BY DEF LifecycleTypeOK
      <4>. QED BY <4>1, RangeConcat DEF Unsent
    <3>. QED BY <3>1
  <2>2. CASE r \in Range(Unsent(d))
    BY <1>2, <1>3, <1>5, <2>2 DEF ThereFor
  <2>3. CASE r \in Range(rs)
    BY <1>1, <1>4, <1>5, <2>3
  <2>. QED BY <1>1, <2>1, <2>2, <2>3, UnsentType
<1>6. ASSUME NEW a \in Range(answers'[d]), IsRead(a) PROVE a.found \subseteq Fields(d, a.id)'
  <2>1. a \in Range(answers[d]) /\ a.id \in IDs
    BY <1>1, <1>2, UnsentType
  <2>. QED BY <1>3, <1>6, <2>1 DEF ThereFor
<1>7. \A a \in Range(answers'[d]) : a.kind = "load" => Complete(a.found) \/ a.id \in cut'
  BY <1>1 DEF ThereFor
<1>. QED BY <1>4, <1>5, <1>6, <1>7 DEF ThereFor

\* What is unanswered after a step.
LEMMA UnsentNext ==
  ASSUME LifecycleTypeOK', NEW d \in Devices
  PROVE  Range(Unsent(d))' = Range(answers'[d]) \cup Range(requests'[d])
<1>1. answers'[d] \in Seq(Answers) /\ requests'[d] \in Seq(Requests)
  BY DEF LifecycleTypeOK
<1>. QED BY <1>1, RangeConcat DEF Unsent

\* The server handles a request: a write is at the server instead of on its way, and
\* a read is answered with what the device sees.
Served(d) ==
  LET r == Head(requests[d])
  IN /\ r \in Range(requests[d]) /\ r.id \in IDs
     /\ \A e \in Devices \ {d} : requests'[e] = requests[e] /\ answers'[e] = answers[e]
     /\ UNCHANGED <<session, shown, loaded, faults, cut, drawnTwice>>
     /\ filled' = CASE r.kind = "song" -> filled \cup {r.id}
                   [] r.kind = "queue" -> filled \ {r.id}
                   [] OTHER -> filled
     /\ requests[d] # << >> /\ requests'[d] = Tail(requests[d])
     /\ \A id \in IDs : fields'[id] =
           IF id = r.id /\ r.kind \in PartyFields THEN fields[id] \cup {r.kind} ELSE fields[id]
     /\ answers'[d] = Append(answers[d], [kind |-> r.kind, id |-> r.id,
                           found |-> IF IsRead(r) THEN Fields(d, r.id) ELSE {}])
     /\ Range(requests[d]) = {r} \cup Range(requests'[d])
     /\ Range(answers'[d]) =
           Range(answers[d]) \cup
              {[kind |-> r.kind, id |-> r.id,
                found |-> IF IsRead(r) THEN Fields(d, r.id) ELSE {}]}

LEMMA ServeServes ==
  ASSUME LifecycleTypeOK, NEW d \in Devices, Serve(d)
  PROVE  Served(d) /\ OthersRest(d)
<1>. DEFINE r == Head(requests[d])
            a == [kind |-> r.kind, id |-> r.id,
                  found |-> IF IsRead(r) THEN Fields(d, r.id) ELSE {}]
<1>1. requests[d] \in Seq(Requests) /\ requests[d] # << >> /\ answers[d] \in Seq(Answers)
  BY DEF LifecycleTypeOK, Serve
<1>2. /\ r \in Range(requests[d]) /\ Range(requests[d]) = {r} \cup Range(Tail(requests[d]))
      /\ r \in Requests
  BY <1>1, RangeTail
<1>3. r.id \in IDs
  BY <1>2 DEF Requests
<1>4. fields' = [fields EXCEPT ![r.id] =
                    IF r.kind \in PartyFields THEN fields[r.id] \cup {r.kind} ELSE fields[r.id]]
      /\ answers' = [answers EXCEPT ![d] = Append(answers[d], a)]
      /\ requests' = [requests EXCEPT ![d] = Tail(requests[d])]
      /\ UNCHANGED <<session, shown, loaded, faults, cut, drawnTwice>>
      /\ filled' = CASE r.kind = "song" -> filled \cup {r.id}
                    [] r.kind = "queue" -> filled \ {r.id}
                    [] OTHER -> filled
  BY DEF Serve, history
<1>. HIDE DEF r, a
<1>5. \A id \in IDs : fields'[id] =
         IF id = r.id /\ r.kind \in PartyFields THEN fields[id] \cup {r.kind} ELSE fields[id]
  BY <1>3, <1>4 DEF LifecycleTypeOK
<1>6. /\ answers'[d] = Append(answers[d], a) /\ requests'[d] = Tail(requests[d])
      /\ \A e \in Devices \ {d} : requests'[e] = requests[e] /\ answers'[e] = answers[e]
  BY <1>4 DEF LifecycleTypeOK
<1>7. Range(Append(answers[d], a)) = Range(answers[d]) \cup {a}
  <2>1. Append(answers[d], a) = answers[d] \o <<a>>
    BY <1>1
  <2>2. <<a>> \in Seq({a}) /\ Range(<<a>>) = {a}
    <3>1. a \in {a}
      OBVIOUS
    <3>. QED BY <3>1, RangeOfOne
  <2>. QED BY <1>1, <2>1, <2>2, RangeConcat
<1>8. OthersRest(d)
  BY <1>4, <1>5, <1>6 DEF OthersRest
<1>9. Served(d)
  BY <1>1, <1>2, <1>3, <1>4, <1>5, <1>6, <1>7 DEF Served, r, a
<1>. QED BY <1>8, <1>9

LEMMA ServeThere ==
  ASSUME LifecycleTypeOK, LifecycleTypeOK', NEW d \in Devices, Served(d), ThereFor(d)
  PROVE  ThereFor(d)'
<1>. DEFINE r == Head(requests[d])
            new == [kind |-> r.kind, id |-> r.id,
                    found |-> IF IsRead(r) THEN Fields(d, r.id) ELSE {}]
<1>1. /\ r \in Range(requests[d]) /\ r.id \in IDs
      /\ session' = session /\ cut' = cut
      /\ \A id \in IDs : fields'[id] =
            IF id = r.id /\ r.kind \in PartyFields THEN fields[id] \cup {r.kind} ELSE fields[id]
      /\ Range(requests[d]) = {r} \cup Range(requests'[d])
      /\ Range(answers'[d]) = Range(answers[d]) \cup {new}
  BY DEF Served
<1>. HIDE DEF r
<1>2. \A s \in Range(Unsent(d)) : s.id \in IDs
  BY UnsentType
<1>3. ASSUME NEW id \in IDs
      PROVE  Fields(d, id) \subseteq Fields(d, id)' /\ (IsThere(d, id) => IsThere(d, id)')
  <2>1. fields[id] \subseteq fields'[id]
    BY <1>1
  <2>2. ASSUME NEW k \in PartyFields, Request(k, id) \in Range(requests[d])
        PROVE  Request(k, id) \in Range(requests'[d]) \/ k \in fields'[id]
    <3>1. CASE Request(k, id) = r
      <4>1. r.kind = k /\ r.id = id
        BY <3>1 DEF Request
      <4>. QED BY <1>1, <4>1
    <3>2. CASE Request(k, id) # r
      BY <1>1, <2>2, <3>2
    <3>. QED BY <3>1, <3>2
  <2>3. Fields(d, id) \subseteq Fields(d, id)'
    BY <2>1, <2>2, FieldsGrow
  <2>. QED BY <1>1, <2>3, ThereStays
<1>4. r.kind = "load" => IsThere(d, r.id)
  BY <1>1, UnsentType DEF ThereFor
<1>5. new.kind = r.kind /\ new.id = r.id /\ (IsRead(r) <=> IsRead(new))
      /\ (IsRead(r) => new.found = Fields(d, r.id))
  BY DEF IsRead
<1>. HIDE DEF new
<1>6. (session[d] # NoSession => IsThere(d, session[d].partyID))'
  <2>1. session[d] # NoSession => session[d].partyID \in IDs
    BY DEF LifecycleTypeOK, Session
  <2>. QED BY <1>1, <1>3, <2>1 DEF ThereFor
<1>7. ASSUME NEW s \in Range(Unsent(d)'), s.kind = "load" PROVE IsThere(d, s.id)'
  <2>1. s \in Range(Unsent(d)) \/ s = new
    BY <1>1, UnsentNext, UnsentType
  <2>. QED BY <1>1, <1>2, <1>3, <1>4, <1>5, <1>7, <2>1 DEF ThereFor
<1>8. ASSUME NEW a \in Range(answers'[d]), IsRead(a) PROVE a.found \subseteq Fields(d, a.id)'
  <2>1. CASE a \in Range(answers[d])
    BY <1>2, <1>3, <1>8, <2>1, UnsentType DEF ThereFor
  <2>2. CASE a = new
    BY <1>1, <1>3, <1>5, <1>8, <2>2
  <2>. QED BY <1>1, <2>1, <2>2
<1>9. ASSUME NEW a \in Range(answers'[d]), a.kind = "load"
      PROVE  Complete(a.found) \/ a.id \in cut'
  <2>1. CASE a \in Range(answers[d])
    BY <1>1, <1>9, <2>1 DEF ThereFor
  <2>2. CASE a = new
    <3>1. IsRead(r)
      BY <1>5, <1>9, <2>2 DEF IsRead, ReadKinds
    <3>. QED BY <1>1, <1>4, <1>5, <1>9, <2>2, <3>1 DEF IsThere
  <2>. QED BY <1>1, <2>1, <2>2
<1>. QED BY <1>6, <1>7, <1>8, <1>9 DEF ThereFor

\* A connection is lost: all is asked for again.
Resent(d) ==
  /\ OthersRest(d) /\ fields' = fields /\ filled' = filled /\ cut' = cut
  /\ session' = session /\ faults' = faults + 1
  /\ answers'[d] = << >>
  /\ Range(requests'[d]) = {Request(r.kind, r.id) : r \in Range(Unsent(d))}

LEMMA LoseConnectionResends ==
  ASSUME LifecycleTypeOK, NEW d \in Devices, LoseConnection(d)
  PROVE  Resent(d)
<1>1. PICK sent :
        /\ requests' = [requests EXCEPT ![d] = sent]
        /\ Range(sent) = {Request(r.kind, r.id) : r \in Range(Unsent(d))}
  BY AgainType DEF LoseConnection
<1>2. /\ answers' = [answers EXCEPT ![d] = << >>]
      /\ UNCHANGED <<fields, filled, session, shown, loaded, cut, drawnTwice>>
      /\ faults' = faults + 1
  BY DEF LoseConnection, serverVars, history
<1>3. requests'[d] = sent /\ answers'[d] = << >>
      /\ \A e \in Devices \ {d} : requests'[e] = requests[e] /\ answers'[e] = answers[e]
  BY <1>1, <1>2 DEF LifecycleTypeOK
<1>. QED BY <1>1, <1>2, <1>3 DEF Resent, OthersRest

LEMMA ResentThere ==
  ASSUME LifecycleTypeOK, LifecycleTypeOK', NEW d \in Devices, Resent(d), ThereFor(d)
  PROVE  ThereFor(d)'
<1>1. /\ fields' = fields /\ cut' = cut /\ session' = session
      /\ Range(answers'[d]) = {}
      /\ Range(requests'[d]) = {Request(r.kind, r.id) : r \in Range(Unsent(d))}
  BY RangeEmpty DEF Resent
<1>2. Range(requests[d]) \subseteq Range(requests'[d])
  <2>1. ASSUME NEW r \in Range(requests[d]) PROVE r \in Range(requests'[d])
    <3>1. r \in Requests
      BY UnsentType DEF Range
    <3>2. r = Request(r.kind, r.id)
      BY <3>1 DEF Request, Requests
    <3>. QED BY <1>1, <3>2, UnsentType
  <2>. QED BY <2>1
<1>3. ASSUME NEW id PROVE IsThere(d, id) => IsThere(d, id)'
  <2>1. Fields(d, id) \subseteq Fields(d, id)'
    BY <1>1, <1>2, FieldsGrow
  <2>. QED BY <1>1, <2>1, ThereStays
<1>4. ASSUME NEW s \in Range(Unsent(d)'), s.kind = "load" PROVE IsThere(d, s.id)'
  <2>1. PICK r \in Range(Unsent(d)) : s = Request(r.kind, r.id)
    BY <1>1, UnsentNext
  <2>2. s.id = r.id /\ r.kind = "load"
    BY <1>4, <2>1 DEF Request
  <2>. QED BY <1>3, <2>2 DEF ThereFor
<1>. QED BY <1>1, <1>3, <1>4 DEF ThereFor

\* An app dies: the parties of which it had writes to send are cut short.
Died(d) ==
  /\ OthersRest(d) /\ UNCHANGED <<fields, filled, session>> /\ faults' \in {faults, faults + 1}
  /\ requests'[d] = << >> /\ answers'[d] = << >> /\ ~loaded'[d]
  /\ cut' = cut \cup {r.id : r \in {r \in Range(requests[d]) : r.kind \in PartyFields}}

LEMMA AppDiesDies ==
  ASSUME LifecycleTypeOK, NEW d \in Devices, Restart(d) \/ SearchTooEarly(d)
  PROVE  Died(d)
BY DEF Restart, SearchTooEarly, AppDies, Died, OthersRest, LifecycleTypeOK, serverVars

LEMMA DiedThere ==
  ASSUME LifecycleTypeOK, LifecycleTypeOK', NEW d \in Devices, Died(d), ThereFor(d)
  PROVE  ThereFor(d)'
<1>1. /\ fields' = fields /\ session' = session
      /\ Range(answers'[d]) = {} /\ Range(requests'[d]) = {}
      /\ cut' = cut \cup {r.id : r \in {r \in Range(requests[d]) : r.kind \in PartyFields}}
  BY RangeEmpty DEF Died
<1>2. ASSUME NEW id, IsThere(d, id) PROVE IsThere(d, id)'
  <2>1. CASE id \in cut'
    BY <2>1 DEF IsThere
  <2>2. CASE id \notin cut'
    <3>1. ASSUME NEW k \in PartyFields PROVE Request(k, id) \notin Range(requests[d])
      <4>1. Request(k, id).kind = k /\ Request(k, id).id = id
        BY DEF Request
      <4>. QED BY <1>1, <2>2, <4>1
    <3>2. Fields(d, id) \subseteq Fields(d, id)'
      BY <1>1, <3>1, FieldsGrow
    <3>. QED BY <1>1, <1>2, <3>2, ThereStays
  <2>. QED BY <2>1, <2>2
<1>3. Range(Unsent(d)') = {}
  BY <1>1, UnsentNext
<1>. QED BY <1>1, <1>2, <1>3 DEF ThereFor

-----------------------------------------------------------------------------
(***************************************************************************)
(* Every step of the system is one of these five.                          *)
(***************************************************************************)
LEMMA LifecycleSteps ==
  ASSUME LifecycleTypeOK, Next
  PROVE  \E d \in Devices :
            (\E rs : AppActs(d, rs)) \/ (Served(d) /\ OthersRest(d)) \/ Resent(d) \/ Died(d)
<1>1. PICK d \in Devices :
        \/ TapCreate(d) \/ TapJoin(d) \/ OpenLink(d)
        \/ HandleAnswer(d) \/ Serve(d)
        \/ ResumeSession(d) \/ ShowMenu(d)
        \/ AddSong(d) \/ TapClose(d)
        \/ Restart(d) \/ SearchTooEarly(d) \/ LoseConnection(d)
  BY DEF Next
<1>2. CASE TapCreate(d) \/ TapJoin(d) \/ OpenLink(d)
  BY <1>2, AskActs
<1>3. CASE HandleAnswer(d) \/ ShowMenu(d) \/ TapClose(d)
  BY <1>3, DrawAgainActs, CreateActs, JoinActs, QuietActs DEF HandleAnswer
<1>4. CASE ResumeSession(d) \/ AddSong(d)
  BY <1>4, PlayerActs
<1>5. CASE Serve(d)
  BY <1>5, ServeServes
<1>6. CASE Restart(d) \/ SearchTooEarly(d)
  BY <1>6, AppDiesDies
<1>7. CASE LoseConnection(d)
  BY <1>7, LoseConnectionResends
<1>. QED BY <1>1, <1>2, <1>3, <1>4, <1>5, <1>6, <1>7

LEMMA ThereStep ==
  LifecycleTypeOK /\ PartiesAreThere /\ PartyIsFound /\ [Next]_lifecycleVars
    => (PartiesAreThere /\ PartyIsFound)'
<1>. SUFFICES ASSUME LifecycleTypeOK, PartiesAreThere, PartyIsFound, [Next]_lifecycleVars
              PROVE  (PartiesAreThere /\ PartyIsFound)'
  OBVIOUS
<1>1. LifecycleTypeOK'
  BY LifecycleTypeStep
<1>2. \A d \in Devices : ThereFor(d)
  BY ThereForAll
<1>3. CASE UNCHANGED lifecycleVars
  <2>1. UNCHANGED <<fields, requests, answers, session, cut>>
    BY <1>3 DEF lifecycleVars
  <2>2. ASSUME NEW d \in Devices PROVE ThereFor(d)'
    BY <1>2, <2>1 DEF ThereFor, IsThere, Fields, Unsent
  <2>. QED BY <2>2 DEF ThereFor, PartiesAreThere, PartyIsFound
<1>4. CASE Next
  <2>1. PICK d \in Devices :
          (\E rs : AppActs(d, rs)) \/ (Served(d) /\ OthersRest(d)) \/ Resent(d) \/ Died(d)
    BY <1>4, LifecycleSteps
  <2>2. OthersRest(d)
    BY <2>1 DEF AppActs, Resent, Died
  <2>3. ThereFor(d)'
    BY <1>1, <1>2, <2>1, ActsThere, ServeThere, ResentThere, DiedThere
  <2>4. \A e \in Devices : ThereFor(e)'
    BY <1>1, <1>2, <2>2, <2>3, OthersThere
  <2>. QED BY <2>4 DEF ThereFor, PartiesAreThere, PartyIsFound
<1>. QED BY <1>3, <1>4

-----------------------------------------------------------------------------
(***************************************************************************)
(* No party has two hosts.                                                 *)
(***************************************************************************)

\* What a device claims, and wins, by its answers, its requests and its session.
LEMMA ClaimCases ==
  ASSUME LifecycleTypeOK, NEW d \in Devices, NEW id
  PROVE  Claims(d, id) <=>
           \/ session[d] = HostOf(id)
           \/ \E r \in Range(answers[d]) : r.kind \in CreationKinds /\ r.id = id
           \/ \E r \in Range(requests[d]) : r.kind \in CreationKinds /\ r.id = id
BY UnsentType DEF Claims

LEMMA ClaimCasesNext ==
  ASSUME LifecycleTypeOK', NEW d \in Devices, NEW id
  PROVE  Claims(d, id)' <=>
           \/ session'[d] = HostOf(id)
           \/ \E r \in Range(answers'[d]) : r.kind \in CreationKinds /\ r.id = id
           \/ \E r \in Range(requests'[d]) : r.kind \in CreationKinds /\ r.id = id
BY UnsentNext DEF Claims

LEMMA WonIsClaimed ==
  ASSUME LifecycleTypeOK, NEW d \in Devices, NEW id, Won(d, id)
  PROVE  Claims(d, id)
BY ClaimCases DEF Won, CreationKinds

\* What somebody holds and the server does not know is drawn twice when it is drawn.
LEMMA DrawnIsFree ==
  ASSUME LifecycleTypeOK, NEW id \in IDs \ drawnTwice', FreelyDrawn(id),
         NEW e \in Devices, fields[id] = {}
  PROVE  ~Claims(e, id)
<1>1. id \notin HeldBy(e)
  BY DEF FreelyDrawn
<1>2. HostOf(id) # NoSession /\ HostOf(id).partyID = id
  <2>1. HostOf(id) \in Session
    BY DEF HostOf, Session
  <2>. QED BY <2>1, LifecycleAssumption DEF HostOf
<1>. QED BY <1>1, <1>2 DEF Claims, HeldBy

\* A step gives its device no new claims but by drawing an ID, and no new prize but by
\* an answer of the server.
NewClaims(d) ==
  \A id \in IDs : Claims(d, id)' => Claims(d, id) \/ FreelyDrawn(id)
NewPrizes(d) ==
  \A id \in IDs : Won(d, id)' => Won(d, id) \/ (fields[id] = {} /\ Claims(d, id))

LEMMA ActsClaim ==
  ASSUME LifecycleTypeOK, LifecycleTypeOK', NEW d \in Devices, NEW rs, AppActs(d, rs)
  PROVE  NewClaims(d) /\ NewPrizes(d)
<1>1. /\ Range(requests'[d]) = Range(requests[d]) \cup Range(rs)
      /\ Range(answers'[d]) \subseteq Range(answers[d])
      /\ \A r \in Range(rs) :
            /\ r.kind = "generatePartyID" => FreelyDrawn(r.id)
            /\ r.kind \in PartyFields \cup {"queue"} => session'[d] = HostOf(r.id)
  BY DEF AppActs, Founded, NewKinds
<1>2. ASSUME NEW id \in IDs, session'[d] = HostOf(id)
      PROVE  Won(d, id)
  <2>1. HostOf(id) # NoSession /\ HostOf(id).type = "host" /\ HostOf(id).partyID = id
    <3>1. HostOf(id) \in Session
      BY DEF HostOf, Session
    <3>. QED BY <3>1, LifecycleAssumption DEF HostOf
  <2>2. CASE session'[d] \in {session[d], NoSession}
    BY <1>2, <2>1, <2>2 DEF Won
  <2>3. CASE Created(d, rs)
    <3>1. PICK i \in IDs : /\ session'[d] = HostOf(i)
                           /\ \E a \in Range(answers[d]) :
                                a.kind = "generatePartyID" /\ a.id = i /\ ~IsUsed(a.found)
      BY <2>3 DEF Created
    <3>2. i = id
      BY <1>2, <3>1 DEF HostOf
    <3>. QED BY <3>1, <3>2 DEF Won
  <2>4. CASE Joined(d)
    BY <1>2, <2>1, <2>4 DEF Joined
  <2>. QED BY <2>2, <2>3, <2>4 DEF AppActs
<1>3. NewPrizes(d)
  <2>. SUFFICES ASSUME NEW id \in IDs, Won(d, id)' PROVE Won(d, id)
    BY DEF NewPrizes
  <2>1. CASE session'[d] = HostOf(id)
    BY <1>2, <2>1
  <2>2. CASE \E a \in Range(answers'[d]) :
                a.kind = "generatePartyID" /\ a.id = id /\ ~IsUsed(a.found)
    BY <1>1, <2>2 DEF Won
  <2>. QED BY <2>1, <2>2 DEF Won
<1>4. NewClaims(d)
  <2>. SUFFICES ASSUME NEW id \in IDs, Claims(d, id)' PROVE Claims(d, id) \/ FreelyDrawn(id)
    BY DEF NewClaims
  <2>1. CASE session'[d] = HostOf(id)
    BY <1>2, <2>1, WonIsClaimed
  <2>2. CASE \E r \in Range(answers'[d]) : r.kind \in CreationKinds /\ r.id = id
    BY <1>1, <2>2, ClaimCases
  <2>3. ASSUME NEW r \in Range(requests'[d]), r.kind \in CreationKinds, r.id = id
        PROVE  Claims(d, id) \/ FreelyDrawn(id)
    <3>1. CASE r \in Range(requests[d])
      BY <2>3, <3>1, ClaimCases
    <3>2. CASE r \in Range(rs)
      <4>1. r.kind = "generatePartyID" \/ r.kind \in PartyFields \cup {"queue"}
        BY <2>3 DEF CreationKinds
      <4>. QED BY <1>1, <2>1, <2>3, <3>2, <4>1
    <3>. QED BY <1>1, <3>1, <3>2
  <2>. QED BY <2>1, <2>2, <2>3, ClaimCasesNext
<1>. QED BY <1>3, <1>4

LEMMA ServeClaims ==
  ASSUME LifecycleTypeOK, LifecycleTypeOK', NEW d \in Devices, Served(d)
  PROVE  NewClaims(d) /\ NewPrizes(d)
<1>. DEFINE r == Head(requests[d])
            new == [kind |-> r.kind, id |-> r.id,
                    found |-> IF IsRead(r) THEN Fields(d, r.id) ELSE {}]
<1>1. /\ r \in Range(requests[d]) /\ r.id \in IDs /\ session' = session
      /\ Range(requests[d]) = {r} \cup Range(requests'[d])
      /\ Range(answers'[d]) = Range(answers[d]) \cup {new}
  BY DEF Served
<1>. HIDE DEF r
<1>2. new.kind = r.kind /\ new.id = r.id /\ (IsRead(r) => new.found = Fields(d, r.id))
  OBVIOUS
<1>. HIDE DEF new
<1>3. NewClaims(d)
  <2>. SUFFICES ASSUME NEW id \in IDs, Claims(d, id)' PROVE Claims(d, id)
    BY DEF NewClaims
  <2>. QED BY <1>1, <1>2, ClaimCases, ClaimCasesNext
<1>4. NewPrizes(d)
  <2>. SUFFICES ASSUME NEW id \in IDs, Won(d, id)', ~Won(d, id)
                PROVE  fields[id] = {} /\ Claims(d, id)
    BY DEF NewPrizes
  <2>1. new.kind = "generatePartyID" /\ new.id = id /\ ~IsUsed(new.found)
    BY <1>1 DEF Won
  <2>2. IsRead(r)
    BY <1>2, <2>1 DEF IsRead, ReadKinds, AskKinds
  <2>3. fields[id] = {}
    BY <1>2, <2>1, <2>2 DEF IsUsed, Fields
  <2>4. Claims(d, id)
    BY <1>1, <1>2, <2>1, ClaimCases DEF CreationKinds
  <2>. QED BY <2>3, <2>4
<1>. QED BY <1>3, <1>4

LEMMA ResentClaims ==
  ASSUME LifecycleTypeOK, LifecycleTypeOK', NEW d \in Devices, Resent(d)
  PROVE  NewClaims(d) /\ NewPrizes(d)
<1>1. /\ session' = session /\ Range(answers'[d]) = {}
      /\ Range(requests'[d]) = {Request(r.kind, r.id) : r \in Range(Unsent(d))}
  BY RangeEmpty DEF Resent
<1>2. NewClaims(d)
  <2>. SUFFICES ASSUME NEW id \in IDs, Claims(d, id)' PROVE Claims(d, id)
    BY DEF NewClaims
  <2>1. CASE session'[d] = HostOf(id)
    BY <1>1, <2>1 DEF Claims
  <2>2. ASSUME NEW s \in Range(requests'[d]), s.kind \in CreationKinds, s.id = id
        PROVE  Claims(d, id)
    <3>1. PICK r \in Range(Unsent(d)) : s = Request(r.kind, r.id)
      BY <1>1
    <3>. QED BY <2>2, <3>1 DEF Claims, Request
  <2>. QED BY <1>1, <2>1, <2>2, ClaimCasesNext
<1>3. NewPrizes(d)
  BY <1>1 DEF NewPrizes, Won
<1>. QED BY <1>2, <1>3

LEMMA DiedClaims ==
  ASSUME LifecycleTypeOK, LifecycleTypeOK', NEW d \in Devices, Died(d)
  PROVE  NewClaims(d) /\ NewPrizes(d)
<1>1. session' = session /\ Range(answers'[d]) = {} /\ Range(requests'[d]) = {}
  BY RangeEmpty DEF Died
<1>2. NewClaims(d)
  BY <1>1, ClaimCases, ClaimCasesNext DEF NewClaims
<1>3. NewPrizes(d)
  BY <1>1 DEF NewPrizes, Won
<1>. QED BY <1>2, <1>3

LEMMA ApartInit == Init => IDsAreApart
<1>. SUFFICES ASSUME Init, NEW d \in Devices, NEW id \in IDs PROVE ~Claims(d, id) /\ ~Won(d, id)
  BY DEF IDsAreApart
<1>1. HostOf(id) # NoSession
  BY LifecycleAssumption DEF HostOf, Session
<1>2. session[d] = NoSession /\ Range(Unsent(d)) = {} /\ Range(answers[d]) = {}
  BY RangeEmpty DEF Init, Unsent
<1>. QED BY <1>1, <1>2 DEF Claims, Won

LEMMA ApartStep ==
  LifecycleTypeOK /\ IDsAreApart /\ [Next]_lifecycleVars => IDsAreApart'
<1>. SUFFICES ASSUME LifecycleTypeOK, IDsAreApart, [Next]_lifecycleVars PROVE IDsAreApart'
  OBVIOUS
<1>1. LifecycleTypeOK'
  BY LifecycleTypeStep
<1>2. CASE UNCHANGED lifecycleVars
  BY <1>2 DEF lifecycleVars, IDsAreApart, Claims, Won, Unsent
<1>3. CASE Next
  <2>1. PICK d \in Devices :
          (\E rs : AppActs(d, rs)) \/ (Served(d) /\ OthersRest(d)) \/ Resent(d) \/ Died(d)
    BY <1>3, LifecycleSteps
  <2>2. OthersRest(d)
    BY <2>1 DEF AppActs, Resent, Died
  <2>3. NewClaims(d) /\ NewPrizes(d)
    BY <1>1, <2>1, ActsClaim, ServeClaims, ResentClaims, DiedClaims
  <2>4. ASSUME NEW e \in Devices \ {d}, NEW id \in IDs
        PROVE  (Claims(e, id)' <=> Claims(e, id)) /\ (Won(e, id)' <=> Won(e, id))
    BY <2>2 DEF OthersRest, Claims, Won, Unsent
  <2>5. ASSUME NEW e \in Devices \ {d}, NEW id \in IDs \ drawnTwice'
        PROVE  /\ fields'[id] = {} => ~(Claims(d, id)' /\ Claims(e, id)')
               /\ ~(Won(d, id)' /\ Won(e, id)')
    <3>1. (fields'[id] = {} => fields[id] = {}) /\ id \in IDs \ drawnTwice
      BY <2>2 DEF OthersRest
    <3>2. /\ fields[id] = {} => ~(Claims(d, id) /\ Claims(e, id))
          /\ ~(Won(d, id) /\ Won(e, id))
      BY <3>1 DEF IDsAreApart
    <3>3. fields[id] = {} /\ FreelyDrawn(id) => ~Claims(e, id)
      BY DrawnIsFree
    <3>4. Won(e, id) => Claims(e, id)
      BY WonIsClaimed
    <3>. QED BY <2>3, <2>4, <3>1, <3>2, <3>3, <3>4 DEF NewClaims, NewPrizes
  <2>6. ASSUME NEW e \in Devices \ {d}, NEW f \in Devices \ {d}, NEW id \in IDs \ drawnTwice', e # f
        PROVE  /\ fields'[id] = {} => ~(Claims(e, id)' /\ Claims(f, id)')
               /\ ~(Won(e, id)' /\ Won(f, id)')
    <3>1. (fields'[id] = {} => fields[id] = {}) /\ id \in IDs \ drawnTwice
      BY <2>2 DEF OthersRest
    <3>. QED BY <2>4, <2>6, <3>1 DEF IDsAreApart
  <2>7. ASSUME NEW e \in Devices, NEW f \in Devices, NEW id \in IDs \ drawnTwice', e # f
        PROVE  /\ fields'[id] = {} => ~(Claims(e, id)' /\ Claims(f, id)')
               /\ ~(Won(e, id)' /\ Won(f, id)')
    BY <2>5, <2>6, <2>7
  <2>. QED BY <2>7 DEF IDsAreApart
<1>. QED BY <1>2, <1>3

LEMMA OneHostFromInv == LifecycleTypeOK /\ IDsAreApart => OneHostPerParty
<1>. SUFFICES ASSUME LifecycleTypeOK, IDsAreApart, NEW d \in Devices, NEW e \in Devices,
                     d # e, session[d] # NoSession, session[d] = session[e],
                     session[d].partyID \notin drawnTwice
              PROVE  session[d].type = "attendee"
  BY DEF OneHostPerParty
<1>1. session[d] \in Session
  BY DEF LifecycleTypeOK
<1>2. CASE session[d].type = "host"
  <2>1. session[d] = HostOf(session[d].partyID) /\ session[d].partyID \in IDs
    BY <1>1, <1>2 DEF Session, HostOf
  <2>. QED BY <2>1 DEF IDsAreApart, Won
<1>. QED BY <1>1, <1>2 DEF Session

-----------------------------------------------------------------------------
(***************************************************************************)
(* No song is lost to the empty queue of a new party, while no connection  *)
(* is lost.  Of an ID that was drawn once, or again only when the server   *)
(* knew of it: whoever asks whether it is used is alone with it until the  *)
(* answer; one device at most writes it; and its writes are at the server  *)
(* before a player that reads it can show its code, and others can join.   *)
(***************************************************************************)
Writes(r, id) == r.kind \in NewKinds /\ r.id = id
Has(d, id) == session[d] # NoSession /\ session[d].partyID = id

\* All unsent writes of a party are those of d before its request n.
WritesBefore(d, n, id) ==
  \A e \in Devices : \A j \in 1..Len(requests[e]) : Writes(requests[e][j], id) => e = d /\ j < n

Settled(id) == Complete(fields[id]) /\ \A d \in Devices : WritesBefore(d, 0, id)

AloneWith(d, i, id) ==
  /\ \A e \in Devices : ~Has(e, id)
  /\ \A e \in Devices : \A j \in 1..Len(Unsent(e)) : Unsent(e)[j].id = id => e = d /\ j = i

IsAsk(r, id) == r.kind = "generatePartyID" /\ r.id = id

AskIsAlone(id) ==
  fields[id] = {} =>
    \A d \in Devices : \A i \in 1..Len(Unsent(d)) : IsAsk(Unsent(d)[i], id) => AloneWith(d, i, id)

WonIsNew(id) ==
  \A d \in Devices : \A a \in Range(answers[d]) :
     IsAsk(a, id) /\ ~IsUsed(a.found) => fields[id] = {}

SessionIsLast(id) ==
  \A d \in Devices : Has(d, id) => WritesBefore(d, Len(requests[d]) + 1, id)

LoadIsLast(id) ==
  \A d \in Devices :
    /\ \A n \in 1..Len(requests[d]) :
          requests[d][n].kind = "load" /\ requests[d][n].id = id => WritesBefore(d, n, id)
    /\ \A a \in Range(answers[d]) : a.kind = "load" /\ a.id = id =>
          WritesBefore(d, 0, id) /\ a.found \subseteq fields[id]

JoinsSettled(id) ==
  /\ id \in filled => Settled(id)
  /\ \A d \in Devices :
       /\ loaded[d] /\ shown[d].partyID = id => Settled(id)
       /\ \A r \in Range(Unsent(d)) : r.kind \in {"joinParty", "song"} /\ r.id = id => Settled(id)

QueueInv(id) ==
  AskIsAlone(id) /\ WonIsNew(id) /\ SessionIsLast(id) /\ LoadIsLast(id) /\ JoinsSettled(id)

QueueWithoutFaults == faults = 0 => \A id \in IDs \ drawnTwice : QueueInv(id)

LEMMA WritesBeforeMore ==
  ASSUME LifecycleTypeOK, NEW d, NEW n \in Int, NEW m \in Int, NEW id, n <= m,
         WritesBefore(d, n, id)
  PROVE  WritesBefore(d, m, id)
<1>1. \A e \in Devices : Len(requests[e]) \in Nat
  BY UnsentType
<1>. QED BY <1>1 DEF WritesBefore

\* Whoever is alone with an ID is alone with it also in the unordered view.
LEMMA AloneAt ==
  ASSUME LifecycleTypeOK, NEW id, AskIsAlone(id), fields[id] = {},
         NEW d \in Devices, NEW r \in Range(Unsent(d)), IsAsk(r, id)
  PROVE  \A e \in Devices : /\ ~Has(e, id)
                            /\ \A s \in Range(Unsent(e)) : s.id = id => e = d /\ s = r
<1>1. ASSUME NEW e \in Devices, NEW s \in Range(Unsent(e))
      PROVE  \E j \in 1..Len(Unsent(e)) : s = Unsent(e)[j]
  <2>1. Unsent(e) \in Seq(Answers \cup Requests)
    BY UnsentType
  <2>. DEFINE u == Unsent(e)
  <2>. HIDE DEF u
  <2>. QED BY <1>1, <2>1, RangeAt DEF u
<1>2. PICK i \in 1..Len(Unsent(d)) : r = Unsent(d)[i]
  BY <1>1
<1>3. AloneWith(d, i, id)
  BY <1>2 DEF AskIsAlone
<1>. QED BY <1>1, <1>2, <1>3 DEF AloneWith

\* What an app that acts has unanswered: what it had, but for the answer it
\* handles, and its new requests.
Follows(t, s, rs, m) ==
  /\ m \in {0, 1} /\ Len(t) = Len(s) - m + Len(rs)
  /\ \A i \in 1..Len(t) :
        IF i + m <= Len(s) THEN t[i] = s[i + m] ELSE t[i] = rs[i + m - Len(s)]

LEMMA FollowsConcat ==
  ASSUME NEW S, NEW a \in Seq(S), NEW r \in Seq(S), NEW rs \in Seq(S)
  PROVE  /\ Follows(a \o (r \o rs), a \o r, rs, 0)
         /\ a # << >> => Follows(Tail(a) \o (r \o rs), a \o r, rs, 1)
<1>1. Len(a \o r) = Len(a) + Len(r) /\ Len(a \o (r \o rs)) = Len(a) + Len(r) + Len(rs)
  OBVIOUS
<1>2. ASSUME NEW i \in 1..(Len(a) + Len(r) + Len(rs))
      PROVE  (a \o (r \o rs))[i] = IF i <= Len(a) + Len(r) THEN (a \o r)[i]
                                   ELSE rs[i - (Len(a) + Len(r))]
  <2>1. CASE i <= Len(a)
    BY <2>1
  <2>2. CASE i > Len(a) /\ i <= Len(a) + Len(r)
    BY <2>2
  <2>3. CASE i > Len(a) + Len(r)
    BY <2>3
  <2>. QED BY <2>1, <2>2, <2>3
<1>3. Follows(a \o (r \o rs), a \o r, rs, 0)
  BY <1>1, <1>2 DEF Follows
<1>4. ASSUME a # << >> PROVE Follows(Tail(a) \o (r \o rs), a \o r, rs, 1)
  <2>. DEFINE b == Tail(a)
              n == Len(a)
              k == Len(r)
  <2>1. b \in Seq(S) /\ Len(b) = n - 1 /\ n \in Nat /\ n > 0 /\ k \in Nat
        /\ \A i \in 1..(n - 1) : b[i] = a[i + 1]
    BY <1>4
  <2>2. Len(b \o (r \o rs)) = (n - 1) + k + Len(rs) /\ Len(a \o r) = n + k
    BY <2>1
  <2>. HIDE DEF b
  <2>3. ASSUME NEW i \in 1..((n - 1) + k + Len(rs))
        PROVE  (b \o (r \o rs))[i] = IF i + 1 <= n + k THEN (a \o r)[i + 1]
                                     ELSE rs[i + 1 - (n + k)]
    <3>1. CASE i <= n - 1
      BY <2>1, <3>1
    <3>2. CASE i > n - 1 /\ i + 1 <= n + k
      BY <2>1, <3>2
    <3>3. CASE i + 1 > n + k
      BY <2>1, <3>3
    <3>. QED BY <2>1, <3>1, <3>2, <3>3
  <2>. QED BY <2>1, <2>2, <2>3 DEF Follows, b
<1>. QED BY <1>3, <1>4

\* How far what is unanswered moves.
Handled(d) == IF answers'[d] = answers[d] THEN 0 ELSE 1

LEMMA UnsentFollows ==
  ASSUME LifecycleTypeOK, NEW d \in Devices, NEW rs, AppActs(d, rs)
  PROVE  Follows(Unsent(d)', Unsent(d), rs, Handled(d))
<1>. DEFINE a == answers[d]
            r == requests[d]
            T == Answers \cup Requests
<1>1. a \in Seq(T) /\ r \in Seq(T) /\ rs \in Seq(T)
  BY DEF LifecycleTypeOK, AppActs
<1>2. /\ requests'[d] = r \o rs
      /\ answers'[d] = a \/ (a # << >> /\ answers'[d] = Tail(a))
  BY DEF AppActs
<1>. HIDE DEF a, r, T
<1>3. /\ Follows(a \o (r \o rs), a \o r, rs, 0)
      /\ a # << >> => Follows(Tail(a) \o (r \o rs), a \o r, rs, 1)
  BY <1>1, FollowsConcat
<1>4. CASE answers'[d] = a
  <2>1. Handled(d) = 0
    BY <1>4 DEF Handled, a
  <2>. QED BY <1>2, <1>3, <1>4, <2>1 DEF Unsent, a, r
<1>5. CASE answers'[d] # a
  <2>1. Handled(d) = 1 /\ a # << >> /\ answers'[d] = Tail(a)
    BY <1>2, <1>5 DEF Handled, a
  <2>. QED BY <1>2, <1>3, <2>1 DEF Unsent, a, r
<1>. QED BY <1>4, <1>5

\* Where the answers and the requests of a device are among what is unanswered.
LEMMA UnsentAt ==
  ASSUME LifecycleTypeOK, NEW e \in Devices
  PROVE  /\ \A j \in 1..Len(answers[e]) :
               j \in 1..Len(Unsent(e)) /\ Unsent(e)[j] = answers[e][j]
         /\ \A j \in 1..Len(requests[e]) :
               /\ Len(answers[e]) + j \in 1..Len(Unsent(e))
               /\ Unsent(e)[Len(answers[e]) + j] = requests[e][j]
         /\ Len(answers[e]) \in Nat /\ Len(requests[e]) \in Nat
<1>. DEFINE a == answers[e]
            r == requests[e]
            T == Answers \cup Requests
<1>1. a \in Seq(T) /\ r \in Seq(T)
  BY DEF LifecycleTypeOK
<1>. HIDE DEF a, r, T
<1>2. \A j \in 1..Len(a) : j \in 1..Len(a \o r) /\ (a \o r)[j] = a[j]
  BY <1>1
<1>3. \A j \in 1..Len(r) : Len(a) + j \in 1..Len(a \o r) /\ (a \o r)[Len(a) + j] = r[j]
  BY <1>1
<1>4. Len(a) \in Nat /\ Len(r) \in Nat
  BY <1>1
<1>. QED BY <1>2, <1>3, <1>4 DEF Unsent, a, r

\* The party that is created is new: nobody else has its ID, and the device has it
\* from the answer that it handles only.
Fresh(d, id) ==
  /\ fields[id] = {} /\ answers[d] # << >> /\ answers'[d] = Tail(answers[d])
  /\ \A e \in Devices : ~Has(e, id)
  /\ \A e \in Devices : \A j \in 1..Len(Unsent(e)) : Unsent(e)[j].id = id => e = d /\ j = 1

LEMMA HostIsHost ==
  ASSUME NEW id \in IDs
  PROVE  /\ HostOf(id) \in Session /\ HostOf(id) # NoSession
         /\ HostOf(id).partyID = id /\ HostOf(id).type = "host"
<1>1. HostOf(id) \in Session
  BY DEF HostOf, Session
<1>. QED BY <1>1, LifecycleAssumption DEF HostOf

LEMMA CreatedIsFresh ==
  ASSUME LifecycleTypeOK, NEW d \in Devices, NEW rs, NEW id \in IDs, Created(d, rs),
         session'[d] = HostOf(id), AskIsAlone(id), WonIsNew(id)
  PROVE  Fresh(d, id) /\ WritesFirst(rs)
<1>1. PICK i \in IDs :
        /\ session'[d] = HostOf(i)
        /\ answers[d] # << >> /\ answers'[d] = Tail(answers[d])
        /\ IsAsk(Head(answers[d]), i) /\ ~IsUsed(Head(answers[d]).found)
        /\ WritesFirst(rs)
  BY DEF Created, IsAsk
<1>2. i = id
  BY <1>1 DEF HostOf
<1>3. answers[d] \in Seq(Answers) /\ requests[d] \in Seq(Requests)
  BY DEF LifecycleTypeOK
<1>4. Head(answers[d]) \in Range(answers[d])
  BY <1>1, <1>3, RangeTail
<1>5. fields[id] = {}
  BY <1>1, <1>2, <1>4 DEF WonIsNew
<1>6. 1 \in 1..Len(Unsent(d)) /\ Unsent(d)[1] = Head(answers[d])
  <2>1. 1 \in 1..Len(answers[d]) /\ answers[d][1] = Head(answers[d])
    BY <1>1, <1>3
  <2>. QED BY <2>1, UnsentAt
<1>7. AloneWith(d, 1, id)
  BY <1>1, <1>2, <1>5, <1>6 DEF AskIsAlone
<1>. QED BY <1>1, <1>5, <1>7 DEF Fresh, AloneWith

LEMMA FreshIsElsewhere ==
  ASSUME LifecycleTypeOK, NEW d \in Devices, NEW id, Fresh(d, id)
  PROVE  /\ \A e \in Devices : \A j \in 1..Len(requests[e]) : requests[e][j].id # id
         /\ \A e \in Devices : \A a \in Range(answers'[e]) :
               e = d \/ answers'[e] = answers[e] => a.id # id
<1>1. ASSUME NEW e \in Devices
      PROVE  answers[e] \in Seq(Answers) /\ requests[e] \in Seq(Requests)
  BY DEF LifecycleTypeOK
<1>2. ASSUME NEW e \in Devices, NEW j \in 1..Len(requests[e]) PROVE requests[e][j].id # id
  <2>. DEFINE k == Len(answers[e]) + j
  <2>1. k \in 1..Len(Unsent(e)) /\ Unsent(e)[k] = requests[e][j]
    BY UnsentAt
  <2>2. e = d => k # 1
    <3>1. e = d => Len(answers[e]) > 0
      BY <1>1 DEF Fresh
    <3>. QED BY <1>1, <3>1
  <2>. QED BY <2>1, <2>2 DEF Fresh
<1>3. ASSUME NEW e \in Devices, NEW j \in 1..Len(answers[e]), e # d \/ j # 1
      PROVE  answers[e][j].id # id
  <2>1. j \in 1..Len(Unsent(e)) /\ Unsent(e)[j] = answers[e][j]
    BY UnsentAt
  <2>. QED BY <1>3, <2>1 DEF Fresh
<1>4. ASSUME NEW e \in Devices, NEW a \in Range(answers'[e]), e # d, answers'[e] = answers[e]
      PROVE  a.id # id
  <2>1. PICK j \in 1..Len(answers[e]) : a = answers[e][j]
    BY <1>1, <1>4, RangeAt
  <2>. QED BY <1>3, <1>4, <2>1
<1>5. ASSUME NEW a \in Range(answers'[d]) PROVE a.id # id
  <2>. DEFINE s == answers[d]
  <2>1. s \in Seq(Answers) /\ s # << >> /\ answers'[d] = Tail(s)
    BY <1>1 DEF Fresh
  <2>. HIDE DEF s
  <2>2. Tail(s) \in Seq(Answers)
    BY <2>1
  <2>3. PICK j \in 1..Len(Tail(s)) : a = Tail(s)[j]
    BY <1>5, <2>1, <2>2, RangeAt
  <2>4. PICK k \in 1..Len(s) : k # 1 /\ a = s[k]
    <3>1. j + 1 \in 1..Len(s) /\ j + 1 # 1 /\ Tail(s)[j] = s[j + 1]
      BY <2>1
    <3>. QED BY <2>3, <3>1
  <2>. QED BY <1>3, <2>4 DEF s
<1>. QED BY <1>2, <1>4, <1>5

\* Writes are new in the requests of a party that is created only.
LEMMA NewWrites ==
  ASSUME LifecycleTypeOK, NEW d \in Devices, NEW rs, AppActs(d, rs), NEW id,
         NEW r \in Range(rs), Writes(r, id)
  PROVE  Created(d, rs) /\ session'[d] = HostOf(id)
BY DEF AppActs, Founded, Writes

\* The requests of the devices after a step of d.
LEMMA RequestsFollow ==
  ASSUME LifecycleTypeOK, NEW d \in Devices, NEW rs, AppActs(d, rs),
         NEW e \in Devices, NEW j \in 1..Len(requests'[e])
  PROVE  \/ j \in 1..Len(requests[e]) /\ requests'[e][j] = requests[e][j]
         \/ /\ e = d /\ j - Len(requests[d]) \in 1..Len(rs)
            /\ requests'[e][j] = rs[j - Len(requests[d])]
            /\ rs[j - Len(requests[d])] \in Range(rs)
<1>1. CASE e # d
  BY <1>1 DEF AppActs, OthersRest
<1>2. CASE e = d
  <2>. DEFINE s == requests[d]
  <2>1. s \in Seq(Requests) /\ rs \in Seq(Requests) /\ requests'[d] = s \o rs
    BY DEF LifecycleTypeOK, AppActs
  <2>. HIDE DEF s
  <2>2. j \in 1..(Len(s) + Len(rs))
    BY <1>2, <2>1
  <2>3. CASE j <= Len(s)
    BY <1>2, <2>1, <2>2, <2>3 DEF s
  <2>4. CASE j > Len(s)
    <3>1. j - Len(s) \in 1..Len(rs) /\ (s \o rs)[j] = rs[j - Len(s)]
      BY <2>1, <2>2, <2>4
    <3>2. rs[j - Len(s)] \in Range(rs)
      BY <2>1, <3>1, RangeAt
    <3>. QED BY <1>2, <2>1, <3>1, <3>2 DEF s
  <2>. QED BY <2>1, <2>2, <2>3, <2>4
<1>. QED BY <1>1, <1>2

LEMMA WritesBeforeNext ==
  ASSUME LifecycleTypeOK', NEW d, NEW n \in Int, NEW m \in Int, NEW id, n <= m,
         WritesBefore(d, n, id)'
  PROVE  WritesBefore(d, m, id)'
<1>1. \A e \in Devices : Len(requests'[e]) \in Nat
  <2>1. \A e \in Devices : requests'[e] \in Seq(Requests)
    BY DEF LifecycleTypeOK
  <2>. QED BY <2>1
<1>. QED BY <1>1 DEF WritesBefore

LEMMA OldWrites ==
  ASSUME LifecycleTypeOK, NEW d \in Devices, NEW rs, AppActs(d, rs), NEW id,
         \A r \in Range(rs) : ~Writes(r, id),
         NEW e \in Devices, NEW n \in Int, WritesBefore(e, n, id)
  PROVE  WritesBefore(e, n, id)'
<1>. SUFFICES ASSUME NEW f \in Devices, NEW j \in 1..Len(requests'[f]),
                     Writes(requests'[f][j], id)
              PROVE  f = e /\ j < n
  BY DEF WritesBefore, Writes
<1>1. j \in 1..Len(requests[f]) /\ requests'[f][j] = requests[f][j]
  <2>. DEFINE k == j - Len(requests[d])
  <2>1. \/ j \in 1..Len(requests[f]) /\ requests'[f][j] = requests[f][j]
        \/ requests'[f][j] = rs[k] /\ rs[k] \in Range(rs)
    BY RequestsFollow
  <2>. HIDE DEF k
  <2>2. ~(requests'[f][j] = rs[k] /\ rs[k] \in Range(rs))
    OBVIOUS
  <2>. QED BY <2>1, <2>2
<1>. QED BY <1>1 DEF WritesBefore

LEMMA FreshWrites ==
  ASSUME LifecycleTypeOK, NEW d \in Devices, NEW rs, AppActs(d, rs), NEW id, Fresh(d, id),
         NEW n \in Int,
         \A k \in 1..Len(rs) : Writes(rs[k], id) => Len(requests[d]) + k < n
  PROVE  WritesBefore(d, n, id)'
<1>. SUFFICES ASSUME NEW f \in Devices, NEW j \in 1..Len(requests'[f]),
                     Writes(requests'[f][j], id)
              PROVE  f = d /\ j < n
  BY DEF WritesBefore, Writes
<1>1. f = d /\ j - Len(requests[d]) \in 1..Len(rs) /\ Writes(rs[j - Len(requests[d])], id)
  BY RequestsFollow, FreshIsElsewhere DEF Writes
<1>2. Len(requests[d]) \in Nat /\ Len(requests'[d]) \in Nat
  <2>1. requests[d] \in Seq(Requests) /\ rs \in Seq(Requests) /\ requests'[d] = requests[d] \o rs
    BY DEF LifecycleTypeOK, AppActs
  <2>. QED BY <2>1
<1>. QED BY <1>1, <1>2

\* What is settled stays so, since nobody creates the party again.
LEMMA UsedIsNotFresh ==
  ASSUME LifecycleTypeOK, NEW d \in Devices, NEW rs, AppActs(d, rs), NEW id \in IDs,
         AskIsAlone(id), WonIsNew(id), NEW r \in Range(rs), Writes(r, id)
  PROVE  Fresh(d, id) /\ WritesFirst(rs) /\ session'[d] = HostOf(id)
BY NewWrites, CreatedIsFresh

LEMMA SettledStays ==
  ASSUME LifecycleTypeOK, NEW d \in Devices, NEW rs, AppActs(d, rs), NEW id \in IDs,
         AskIsAlone(id), WonIsNew(id), Settled(id)
  PROVE  Settled(id)'
<1>1. fields' = fields
  BY DEF AppActs
<1>2. fields[id] # {}
  BY DEF Settled, Complete, PartyFields
<1>3. \A r \in Range(rs) : ~Writes(r, id)
  BY <1>2, UsedIsNotFresh DEF Fresh
<1>4. \A e \in Devices : WritesBefore(e, 0, id)'
  BY <1>3, OldWrites DEF Settled
<1>. QED BY <1>1, <1>4 DEF Settled

\* What nobody holds is neither stored nor unanswered.
LEMMA NotHeld ==
  ASSUME LifecycleTypeOK, NEW e \in Devices, NEW id, id \notin HeldBy(e)
  PROVE  ~Has(e, id) /\ \A j \in 1..Len(Unsent(e)) : Unsent(e)[j].id # id
<1>1. \A r \in Range(Unsent(e)) : r.id # id
  BY DEF HeldBy
<1>2. ASSUME NEW j \in 1..Len(Unsent(e)) PROVE Unsent(e)[j] \in Range(Unsent(e))
  <2>. DEFINE u == Unsent(e)
  <2>1. u \in Seq(Answers \cup Requests)
    BY UnsentType
  <2>. HIDE DEF u
  <2>. QED BY <1>2, <2>1, RangeAt DEF u
<1>. QED BY <1>1, <1>2 DEF HeldBy, Has

\* While somebody asks for an ID, no step brings it up anew.
NothingNew(d, rs, id) == ~Has(d, id)' /\ \A r \in Range(rs) : r.id # id

LEMMA AskedIsNotNew ==
  ASSUME LifecycleTypeOK, NEW d \in Devices, NEW rs, AppActs(d, rs),
         NEW id \in IDs \ drawnTwice', QueueInv(id), fields[id] = {},
         NEW e \in Devices, NEW k \in 1..Len(Unsent(e)), IsAsk(Unsent(e)[k], id),
         e = d => k # 1 \/ Handled(d) = 0
  PROVE  NothingNew(d, rs, id)
<1>1. AloneWith(e, k, id)
  BY DEF QueueInv, AskIsAlone
<1>2. ~Fresh(d, id)
  <2>1. answers[d] # << >> => Tail(answers[d]) # answers[d]
    <3>1. answers[d] \in Seq(Answers)
      BY DEF LifecycleTypeOK
    <3>2. answers[d] # << >> => Len(Tail(answers[d])) # Len(answers[d])
      BY <3>1
    <3>. QED BY <3>2
  <2>2. Fresh(d, id) => e = d /\ k = 1
    BY DEF Fresh, IsAsk
  <2>. QED BY <2>1, <2>2 DEF Fresh, Handled
<1>3. ~Settled(id)
  BY DEF Settled, Complete, PartyFields
<1>4. AskIsAlone(id) /\ WonIsNew(id) /\ JoinsSettled(id)
  BY DEF QueueInv
<1>5. ~Has(d, id)'
  <2>. SUFFICES ASSUME session'[d] # NoSession, session'[d].partyID = id PROVE FALSE
    BY DEF Has
  <2>1. CASE session'[d] \in {session[d], NoSession}
    BY <1>1, <2>1 DEF AloneWith, Has
  <2>2. CASE Created(d, rs)
    <3>1. PICK i \in IDs : session'[d] = HostOf(i)
      BY <2>2 DEF Created
    <3>2. i = id
      BY <3>1 DEF HostOf
    <3>. QED BY <1>2, <1>4, <2>2, <3>1, <3>2, CreatedIsFresh
  <2>3. CASE Joined(d)
    <3>1. PICK a \in Range(answers[d]) : a.kind = "joinParty" /\ a.id = id
      BY <2>3 DEF Joined
    <3>2. a \in Range(Unsent(d))
      BY UnsentType
    <3>. QED BY <1>3, <1>4, <3>1, <3>2 DEF JoinsSettled
  <2>. QED BY <2>1, <2>2, <2>3 DEF AppActs
<1>6. id \in HeldBy(e)
  BY NotHeld DEF IsAsk
<1>7. ASSUME NEW r \in Range(rs), r.id = id PROVE FALSE
  <2>1. Founded(d, r)
    BY DEF AppActs
  <2>2. r \in Requests
    <3>1. rs \in Seq(Requests)
      BY DEF AppActs
    <3>2. PICK j \in 1..Len(rs) : r = rs[j]
      BY <3>1, RangeAt
    <3>. QED BY <3>1, <3>2
  <2>3. r.kind # "load"
    BY <1>5, <1>7, <2>1 DEF Founded, Has
  <2>4. r.kind # "generatePartyID"
    BY <1>6, <1>7, <2>1 DEF Founded, FreelyDrawn
  <2>5. r.kind # "joinParty"
    <3>1. ASSUME id \in ShownCodes PROVE FALSE
      <4>1. PICK f \in Devices : loaded[f] /\ shown[f].partyID = id
        BY <3>1 DEF ShownCodes
      <4>. QED BY <1>3, <1>4, <4>1 DEF JoinsSettled
    <3>. QED BY <1>7, <2>1, <3>1 DEF Founded
  <2>6. r.kind # "song"
    BY <1>3, <1>4, <1>7, <2>1 DEF Founded, JoinsSettled
  <2>7. r.kind \notin NewKinds
    BY <1>2, <1>4, <1>7, UsedIsNotFresh DEF Writes
  <2>. QED BY <2>2, <2>3, <2>4, <2>5, <2>6, <2>7
           DEF Requests, WriteKinds, ReadKinds, AskKinds, NewKinds
<1>. QED BY <1>5, <1>7 DEF NothingNew

\* Where an unanswered request of a device was before the step.
WasAt(e, j, d) == IF e = d THEN j + Handled(d) ELSE j
IsNew(d, rs, e, j) ==
  LET k == j + Handled(d) - Len(Unsent(d))
  IN e = d /\ k \in 1..Len(rs) /\ Unsent(e)'[j] = rs[k] /\ rs[k] \in Range(rs)

LEMMA WasOrIsNew ==
  ASSUME LifecycleTypeOK, LifecycleTypeOK', NEW d \in Devices, NEW rs, AppActs(d, rs),
         NEW e \in Devices, NEW j \in 1..Len(Unsent(e)')
  PROVE  \/ /\ WasAt(e, j, d) \in 1..Len(Unsent(e))
            /\ Unsent(e)'[j] = Unsent(e)[WasAt(e, j, d)]
         \/ IsNew(d, rs, e, j)
<1>1. CASE e # d
  <2>1. Unsent(e)' = Unsent(e)
    BY <1>1 DEF AppActs, OthersRest, Unsent
  <2>. QED BY <1>1, <2>1 DEF WasAt
<1>2. CASE e = d
  <2>. DEFINE t == Unsent(d)'
              s == Unsent(d)
              m == Handled(d)
  <2>1. Follows(t, s, rs, m)
    BY UnsentFollows
  <2>2. /\ s \in Seq(Answers \cup Requests) /\ rs \in Seq(Requests) /\ m \in {0, 1}
        /\ j \in 1..Len(t)
    BY <1>2, UnsentType DEF AppActs, Handled
  <2>. HIDE DEF t, s, m
  <2>3. Len(s) \in Nat /\ Len(rs) \in Nat /\ Len(t) = Len(s) - m + Len(rs)
    BY <2>1, <2>2 DEF Follows
  <2>4. CASE j + m <= Len(s)
    <3>1. j + m \in 1..Len(s) /\ t[j] = s[j + m]
      BY <2>1, <2>2, <2>3, <2>4 DEF Follows
    <3>. QED BY <1>2, <3>1 DEF WasAt, t, s, m
  <2>5. CASE j + m > Len(s)
    <3>1. j + m - Len(s) \in 1..Len(rs) /\ t[j] = rs[j + m - Len(s)]
      BY <2>1, <2>2, <2>3, <2>5 DEF Follows
    <3>2. rs[j + m - Len(s)] \in Range(rs)
      BY <2>2, <3>1, RangeAt
    <3>. QED BY <1>2, <3>1, <3>2 DEF IsNew, t, s, m
  <2>. QED BY <2>2, <2>3, <2>4, <2>5
<1>. QED BY <1>1, <1>2

LEMMA ActsAlone ==
  ASSUME LifecycleTypeOK, LifecycleTypeOK', NEW d \in Devices, NEW rs, AppActs(d, rs),
         NEW id \in IDs \ drawnTwice', QueueInv(id)
  PROVE  AskIsAlone(id)'
<1>. SUFFICES ASSUME fields[id] = {}, NEW e \in Devices, NEW i \in 1..Len(Unsent(e)'),
                     IsAsk(Unsent(e)'[i], id)
              PROVE  AloneWith(e, i, id)'
  <2>1. fields' = fields
    BY DEF AppActs
  <2>. QED BY <2>1 DEF AskIsAlone, IsAsk
<1>1. Handled(d) \in {0, 1} /\ \A f \in Devices : Len(Unsent(f)) \in Nat
  BY UnsentType DEF Handled
<1>2. \A f \in Devices \ {d} : Has(f, id)' = Has(f, id)
  BY DEF AppActs, OthersRest, Has
<1>3. CASE /\ WasAt(e, i, d) \in 1..Len(Unsent(e))
           /\ Unsent(e)'[i] = Unsent(e)[WasAt(e, i, d)]
  <2>. DEFINE k == WasAt(e, i, d)
  <2>1. k \in 1..Len(Unsent(e)) /\ IsAsk(Unsent(e)[k], id) /\ (e = d => k # 1 \/ Handled(d) = 0)
    <3>1. e = d => k = i + Handled(d)
      BY DEF WasAt
    <3>. QED BY <1>1, <1>3, <3>1
  <2>2. AloneWith(e, k, id)
    BY <2>1 DEF QueueInv, AskIsAlone
  <2>. HIDE DEF k
  <2>3. NothingNew(d, rs, id)
    BY <2>1, AskedIsNotNew
  <2>4. \A f \in Devices : ~Has(f, id)'
    BY <1>2, <2>2, <2>3 DEF AloneWith, NothingNew
  <2>5. ASSUME NEW f \in Devices, NEW j \in 1..Len(Unsent(f)'), Unsent(f)'[j].id = id
        PROVE  f = e /\ j = i
    <3>1. ~IsNew(d, rs, f, j)
      BY <2>3, <2>5 DEF IsNew, NothingNew
    <3>2. /\ WasAt(f, j, d) \in 1..Len(Unsent(f))
          /\ Unsent(f)'[j] = Unsent(f)[WasAt(f, j, d)]
      BY <3>1, WasOrIsNew
    <3>3. f = e /\ WasAt(f, j, d) = k
      BY <2>2, <2>5, <3>2 DEF AloneWith
    <3>. QED BY <1>1, <3>3 DEF WasAt, k
  <2>. QED BY <2>4, <2>5 DEF AloneWith
<1>4. CASE IsNew(d, rs, e, i)
  <2>. DEFINE k == i + Handled(d) - Len(Unsent(d))
  <2>1. e = d /\ k \in 1..Len(rs) /\ IsAsk(rs[k], id) /\ rs[k] \in Range(rs)
    BY <1>4 DEF IsNew
  <2>2. Len(rs) = 1 /\ FreelyDrawn(id) /\ session'[d] = session[d]
    BY <2>1 DEF AppActs, Founded, IsAsk
  <2>3. \A f \in Devices : ~Has(f, id) /\ \A j \in 1..Len(Unsent(f)) : Unsent(f)[j].id # id
    BY <2>2, NotHeld DEF FreelyDrawn
  <2>4. \A f \in Devices : ~Has(f, id)'
    BY <1>2, <2>2, <2>3 DEF Has
  <2>5. ASSUME NEW f \in Devices, NEW j \in 1..Len(Unsent(f)'), Unsent(f)'[j].id = id
        PROVE  f = e /\ j = i
    <3>1. IsNew(d, rs, f, j)
      BY <2>3, <2>5, WasOrIsNew
    <3>2. f = d /\ j + Handled(d) - Len(Unsent(d)) \in 1..Len(rs)
      BY <3>1 DEF IsNew
    <3>. QED BY <1>1, <2>1, <2>2, <3>2
  <2>. QED BY <2>4, <2>5 DEF AloneWith
<1>. QED BY <1>3, <1>4, WasOrIsNew

LEMMA ActsWon ==
  ASSUME NEW d \in Devices, NEW rs, AppActs(d, rs), NEW id, QueueInv(id)
  PROVE  WonIsNew(id)'
<1>1. /\ fields' = fields /\ Range(answers'[d]) \subseteq Range(answers[d])
      /\ \A e \in Devices \ {d} : answers'[e] = answers[e]
  BY DEF AppActs, OthersRest
<1>. QED BY <1>1 DEF QueueInv, WonIsNew, IsAsk

\* A session is entered after the writes of its party.
LEMMA ActsSession ==
  ASSUME LifecycleTypeOK, LifecycleTypeOK', NEW d \in Devices, NEW rs, AppActs(d, rs),
         NEW id \in IDs, QueueInv(id)
  PROVE  SessionIsLast(id)'
<1>. SUFFICES ASSUME NEW e \in Devices, Has(e, id)'
              PROVE  WritesBefore(e, Len(requests[e]) + 1, id)'
  BY DEF SessionIsLast
<1>1. /\ Len(requests[d]) \in Nat /\ Len(rs) \in Nat /\ Len(requests[e]) \in Nat
      /\ Len(requests'[d]) = Len(requests[d]) + Len(rs)
      /\ Len(requests[e]) + 1 <= Len(requests'[e]) + 1 /\ Len(requests'[e]) \in Nat
  <2>1. /\ requests[d] \in Seq(Requests) /\ rs \in Seq(Requests)
        /\ requests'[d] = requests[d] \o rs /\ requests[e] \in Seq(Requests)
        /\ e # d => requests'[e] = requests[e]
    BY DEF LifecycleTypeOK, AppActs, OthersRest
  <2>. QED BY <2>1
<1>2. QueueInv(id) /\ AskIsAlone(id) /\ WonIsNew(id)
  BY DEF QueueInv
<1>3. CASE \E r \in Range(rs) : Writes(r, id)
  <2>1. Fresh(d, id) /\ session'[d] = HostOf(id)
    BY <1>2, <1>3, UsedIsNotFresh
  <2>2. e = d
    <3>1. ASSUME e # d PROVE FALSE
      <4>1. Has(e, id)
        BY <3>1 DEF AppActs, OthersRest, Has
      <4>. QED BY <2>1, <4>1 DEF Fresh
    <3>. QED BY <3>1
  <2>3. PICK n \in Int : /\ n = Len(requests'[d]) + 1
                         /\ \A k \in 1..Len(rs) : Len(requests[d]) + k < n
    BY <1>1
  <2>4. WritesBefore(d, n, id)'
    BY <2>1, <2>3, FreshWrites
  <2>. QED BY <2>2, <2>3, <2>4 DEF WritesBefore
<1>4. CASE \A r \in Range(rs) : ~Writes(r, id)
  <2>1. PICK n \in Int : WritesBefore(e, n, id) /\ n <= Len(requests[e]) + 1
    <3>1. CASE Has(e, id)
      <4>1. WritesBefore(e, Len(requests[e]) + 1, id)
        BY <1>2, <3>1 DEF QueueInv, SessionIsLast
      <4>. QED BY <1>1, <4>1
    <3>2. CASE ~Has(e, id)
      <4>1. e = d /\ session'[d] \notin {session[d], NoSession}
        BY <3>2 DEF AppActs, OthersRest, Has
      <4>2. ~Created(d, rs)
        <5>1. ASSUME Created(d, rs) PROVE FALSE
          <6>1. PICK i \in IDs : session'[d] = HostOf(i) /\ Request("host", i) \in Range(rs)
            BY <5>1 DEF Created
          <6>2. i = id
            BY <4>1, <6>1 DEF Has, HostOf
          <6>. QED BY <1>4, <6>1, <6>2 DEF Writes, Request, NewKinds, PartyFields
        <5>. QED BY <5>1
      <4>3. PICK a \in Range(answers[d]) : a.kind = "joinParty" /\ a.id = id
        BY <4>1, <4>2 DEF AppActs, Joined, Has
      <4>4. Settled(id)
        BY <1>2, <4>3, UnsentType DEF QueueInv, JoinsSettled
      <4>5. WritesBefore(e, 0, id)
        BY <4>4 DEF Settled
      <4>. QED BY <1>1, <4>5
    <3>. QED BY <3>1, <3>2
  <2>2. WritesBefore(e, n, id)'
    BY <1>4, <2>1, OldWrites
  <2>3. PICK m \in Int : m = Len(requests'[e]) + 1 /\ n <= m
    BY <1>1, <2>1
  <2>4. WritesBefore(e, m, id)'
    BY <2>2, <2>3, WritesBeforeNext
  <2>. QED BY <2>3, <2>4 DEF WritesBefore
<1>. QED BY <1>3, <1>4

\* A read of the player comes after the writes of its party.
LEMMA ActsLoad ==
  ASSUME LifecycleTypeOK, LifecycleTypeOK', NEW d \in Devices, NEW rs, AppActs(d, rs),
         NEW id \in IDs, QueueInv(id)
  PROVE  LoadIsLast(id)'
<1>1. /\ requests[d] \in Seq(Requests) /\ rs \in Seq(Requests)
      /\ requests'[d] = requests[d] \o rs /\ fields' = fields
      /\ Range(answers'[d]) \subseteq Range(answers[d])
      /\ \A f \in Devices \ {d} : answers'[f] = answers[f] /\ requests'[f] = requests[f]
  BY DEF LifecycleTypeOK, AppActs, OthersRest
<1>2. AskIsAlone(id) /\ WonIsNew(id) /\ SessionIsLast(id) /\ LoadIsLast(id) /\ JoinsSettled(id)
  BY DEF QueueInv
<1>3. ASSUME NEW e \in Devices, NEW n \in 1..Len(requests'[e]),
             requests'[e][n].kind = "load", requests'[e][n].id = id
      PROVE  WritesBefore(e, n, id)'
  <2>0. n \in Int /\ Len(requests[d]) \in Nat /\ Len(rs) \in Nat
    BY <1>1
  <2>1. CASE n \in 1..Len(requests[e]) /\ requests'[e][n] = requests[e][n]
    <3>1. ~Fresh(d, id)
      BY <1>3, <2>1, FreshIsElsewhere
    <3>2. \A r \in Range(rs) : ~Writes(r, id)
      BY <1>2, <3>1, UsedIsNotFresh
    <3>3. WritesBefore(e, n, id)
      BY <1>2, <1>3, <2>1 DEF LoadIsLast
    <3>. QED BY <2>0, <3>2, <3>3, OldWrites
  <2>2. ASSUME e = d, NEW k \in 1..Len(rs), k = n - Len(requests[d]),
               rs[k].kind = "load", rs[k].id = id, rs[k] \in Range(rs)
        PROVE  WritesBefore(d, n, id)'
    <3>1. Has(d, id)'
      BY <2>2 DEF AppActs, Founded, Has
    <3>2. CASE \E r \in Range(rs) : Writes(r, id)
      <4>1. Fresh(d, id) /\ WritesFirst(rs)
        BY <1>2, <3>2, UsedIsNotFresh
      <4>2. ASSUME NEW j \in 1..Len(rs), Writes(rs[j], id) PROVE Len(requests[d]) + j < n
        <5>1. DOMAIN rs = 1..Len(rs)
          BY <1>1
        <5>2. ~(k < j) /\ k # j
          BY <2>2, <4>1, <4>2, <5>1 DEF WritesFirst, Writes, NewKinds, PartyFields
        <5>. QED BY <2>0, <2>2, <5>2
      <4>. QED BY <2>0, <4>1, <4>2, FreshWrites
    <3>3. CASE \A r \in Range(rs) : ~Writes(r, id)
      <4>1. PICK m \in Int : WritesBefore(d, m, id) /\ m <= Len(requests[d]) + 1
        <5>1. CASE session'[d] \in {session[d], NoSession}
          <6>1. WritesBefore(d, Len(requests[d]) + 1, id)
            BY <1>2, <3>1, <5>1 DEF Has, SessionIsLast
          <6>. QED BY <2>0, <6>1
        <5>2. CASE Created(d, rs)
          <6>1. PICK i \in IDs : session'[d] = HostOf(i) /\ Request("host", i) \in Range(rs)
            BY <5>2 DEF Created
          <6>2. i = id
            BY <3>1, <6>1 DEF Has, HostOf
          <6>. QED BY <3>3, <6>1, <6>2 DEF Writes, Request, NewKinds, PartyFields
        <5>3. CASE Joined(d)
          <6>1. PICK a \in Range(answers[d]) : a.kind = "joinParty" /\ a.id = id
            BY <3>1, <5>3 DEF Joined, Has
          <6>2. WritesBefore(d, 0, id)
            BY <1>2, <6>1, UnsentType DEF JoinsSettled, Settled
          <6>. QED BY <2>0, <6>2
        <5>. QED BY <5>1, <5>2, <5>3 DEF AppActs
      <4>2. WritesBefore(d, m, id)'
        BY <3>3, <4>1, OldWrites
      <4>3. m <= n
        BY <2>0, <2>2, <4>1
      <4>. QED BY <2>0, <4>2, <4>3, WritesBeforeNext
    <3>. QED BY <3>2, <3>3
  <2>3. CASE e = d /\ n - Len(requests[d]) \in 1..Len(rs)
             /\ requests'[e][n] = rs[n - Len(requests[d])]
             /\ rs[n - Len(requests[d])] \in Range(rs)
    BY <1>3, <2>2, <2>3
  <2>. QED BY <1>3, <2>1, <2>3, RequestsFollow
<1>4. ASSUME NEW e \in Devices, NEW a \in Range(answers'[e]), a.kind = "load", a.id = id
      PROVE  WritesBefore(e, 0, id)' /\ a.found \subseteq fields'[id]
  <2>1. ~Fresh(d, id)
    BY <1>1, <1>4, FreshIsElsewhere
  <2>2. \A r \in Range(rs) : ~Writes(r, id)
    BY <1>2, <2>1, UsedIsNotFresh
  <2>3. a \in Range(answers[e])
    BY <1>1
  <2>4. WritesBefore(e, 0, id) /\ a.found \subseteq fields[id]
    BY <1>2, <1>4, <2>3 DEF LoadIsLast
  <2>. QED BY <1>1, <2>2, <2>4, OldWrites
<1>. QED BY <1>3, <1>4 DEF LoadIsLast

\* A code is shown, and a party joined, when its writes are at the server.
LEMMA ActsJoins ==
  ASSUME LifecycleTypeOK, LifecycleTypeOK', NEW d \in Devices, NEW rs, AppActs(d, rs),
         NEW id \in IDs, QueueInv(id)
  PROVE  JoinsSettled(id)'
<1>1. AskIsAlone(id) /\ WonIsNew(id) /\ LoadIsLast(id) /\ JoinsSettled(id)
  BY DEF QueueInv
<1>2. Settled(id) => Settled(id)'
  BY <1>1, SettledStays
<1>3. /\ filled' = filled /\ ShowsNext(d)
      /\ \A e \in Devices \ {d} : shown'[e] = shown[e] /\ loaded'[e] = loaded[e]
  BY DEF AppActs, OthersRest
<1>4. ASSUME NEW e \in Devices, loaded'[e], shown'[e].partyID = id PROVE Settled(id)
  <2>1. CASE loaded[e] /\ shown'[e] = shown[e]
    BY <1>1, <1>4, <2>1 DEF JoinsSettled
  <2>2. ASSUME e = d, NEW a \in Range(answers[d]), a.kind = "load", a.id = id, Complete(a.found)
        PROVE  Settled(id)
    <3>1. WritesBefore(d, 0, id) /\ a.found \subseteq fields[id]
      BY <1>1, <2>2 DEF LoadIsLast
    <3>2. \A f \in Devices : WritesBefore(f, 0, id)
      <4>1. \A f \in Devices : Len(requests[f]) \in Nat
        BY UnsentType
      <4>. QED BY <3>1, <4>1 DEF WritesBefore
    <3>. QED BY <2>2, <3>1, <3>2 DEF Settled, Complete
  <2>. QED BY <1>3, <1>4, <2>1, <2>2 DEF ShowsNext
<1>5. ASSUME NEW e \in Devices, NEW r \in Range(Unsent(e)'), r.kind \in {"joinParty", "song"},
             r.id = id
      PROVE  Settled(id)
  <2>1. CASE r \in Range(Unsent(e))
    BY <1>1, <1>5, <2>1 DEF JoinsSettled
  <2>2. CASE e = d /\ r \in Range(rs)
    <3>1. Founded(d, r)
      BY <2>2 DEF AppActs
    <3>2. CASE r.kind = "song"
      BY <1>1, <1>5, <3>1, <3>2 DEF Founded, JoinsSettled
    <3>3. CASE r.kind = "joinParty"
      <4>1. id \in ShownCodes
        BY <1>5, <3>1, <3>3 DEF Founded
      <4>2. PICK f \in Devices : loaded[f] /\ shown[f].partyID = id
        BY <4>1 DEF ShownCodes
      <4>. QED BY <1>1, <4>2 DEF JoinsSettled
    <3>. QED BY <1>5, <3>2, <3>3
  <2>3. r \in Range(Unsent(e)) \/ (e = d /\ r \in Range(rs))
    <3>1. r \in Range(answers'[e]) \cup Range(requests'[e])
      BY <1>5, UnsentNext
    <3>2. /\ Range(answers'[d]) \subseteq Range(answers[d])
          /\ Range(requests'[d]) = Range(requests[d]) \cup Range(rs)
          /\ e # d => answers'[e] = answers[e] /\ requests'[e] = requests[e]
      BY DEF AppActs, OthersRest
    <3>. QED BY <3>1, <3>2, UnsentType
  <2>. QED BY <2>1, <2>2, <2>3
<1>. QED BY <1>1, <1>2, <1>3, <1>4, <1>5 DEF JoinsSettled

\* The server handles a request: what is unanswered keeps its places.
LEMMA UnsentServed ==
  ASSUME LifecycleTypeOK, NEW d \in Devices, Served(d)
  PROVE  /\ Len(Unsent(d)') = Len(Unsent(d))
         /\ \A k \in 1..Len(Unsent(d)) : /\ Unsent(d)'[k].kind = Unsent(d)[k].kind
                                         /\ Unsent(d)'[k].id = Unsent(d)[k].id
<1>. DEFINE a == answers[d]
            r == requests[d]
            new == [kind |-> Head(r).kind, id |-> Head(r).id,
                    found |-> IF IsRead(Head(r)) THEN Fields(d, Head(r).id) ELSE {}]
<1>1. a \in Seq(Answers) /\ r \in Seq(Requests) /\ r # << >>
  BY DEF LifecycleTypeOK, Served
<1>2. answers'[d] = Append(a, new) /\ requests'[d] = Tail(r)
  BY DEF Served
<1>3. new.kind = Head(r).kind /\ new.id = Head(r).id
  OBVIOUS
<1>. HIDE DEF a, r, new
<1>4. /\ Len(Append(a, new) \o Tail(r)) = Len(a \o r)
      /\ \A k \in 1..Len(a \o r) : /\ (Append(a, new) \o Tail(r))[k].kind = (a \o r)[k].kind
                                   /\ (Append(a, new) \o Tail(r))[k].id = (a \o r)[k].id
  <2>. DEFINE u == a \o r
              v == Append(a, new) \o Tail(r)
              m == Len(a)
              n == Len(r)
  <2>1. m \in Nat /\ n \in Nat /\ n > 0 /\ Len(u) = m + n
    BY <1>1
  <2>2. Len(Append(a, new)) = m + 1 /\ Len(Tail(r)) = n - 1
    BY <1>1
  <2>3. Len(v) = (m + 1) + (n - 1)
    BY <1>1, <2>2
  <2>4. ASSUME NEW k \in 1..m PROVE v[k] = u[k]
    BY <1>1, <2>4
  <2>5. v[m + 1] = new /\ u[m + 1] = Head(r)
    BY <1>1
  <2>6. ASSUME NEW k \in (m + 2)..(m + n) PROVE v[k] = u[k]
    <3>1. k - m - 1 \in 1..(n - 1) /\ k - m \in 1..n
      BY <2>1, <2>6
    <3>2. u[k] = r[k - m]
      BY <1>1, <2>1, <2>6
    <3>3. v[k] = Tail(r)[k - (m + 1)]
      BY <1>1, <2>1, <2>2, <2>6
    <3>4. Tail(r)[k - (m + 1)] = r[k - m]
      BY <1>1, <2>1, <3>1
    <3>. QED BY <3>2, <3>3, <3>4
  <2>. HIDE DEF u, v, m, n
  <2>7. ASSUME NEW k \in 1..(m + n) PROVE v[k].kind = u[k].kind /\ v[k].id = u[k].id
    <3>1. k \in 1..m \/ k = m + 1 \/ k \in (m + 2)..(m + n)
      BY <2>1
    <3>. QED BY <1>3, <2>4, <2>5, <2>6, <3>1
  <2>8. Len(v) = Len(u)
    BY <2>1, <2>3
  <2>. QED BY <2>1, <2>7, <2>8 DEF u, v
<1>. QED BY <1>2, <1>4 DEF Unsent, a, r

\* The requests of the devices after a step of the server.
LEMMA ServedWrites ==
  ASSUME LifecycleTypeOK, NEW d \in Devices, Served(d), NEW id,
         NEW e \in Devices, NEW n \in Int, NEW m \in Int, m >= (IF e = d THEN n - 1 ELSE n),
         WritesBefore(e, n, id)
  PROVE  WritesBefore(e, m, id)'
<1>. SUFFICES ASSUME NEW f \in Devices, NEW j \in 1..Len(requests'[f]),
                     Writes(requests'[f][j], id)
              PROVE  f = e /\ j < m
  BY DEF WritesBefore, Writes
<1>1. CASE f = d
  <2>. DEFINE s == requests[d]
  <2>1. s \in Seq(Requests) /\ s # << >> /\ requests'[d] = Tail(s)
    BY DEF LifecycleTypeOK, Served
  <2>. HIDE DEF s
  <2>2. j \in 1..Len(Tail(s)) /\ Writes(Tail(s)[j], id)
    BY <1>1, <2>1
  <2>3. j + 1 \in 1..Len(s) /\ Tail(s)[j] = s[j + 1]
    BY <2>1, <2>2
  <2>4. d = e /\ j + 1 < n
    BY <2>2, <2>3 DEF WritesBefore, s
  <2>. QED BY <1>1, <2>4
<1>2. CASE f # d
  <2>1. requests'[f] = requests[f]
    BY <1>2 DEF Served
  <2>2. f = e /\ j < n
    BY <2>1 DEF WritesBefore
  <2>. QED BY <1>2, <2>2
<1>. QED BY <1>1, <1>2

LEMMA ServedSettled ==
  ASSUME LifecycleTypeOK, NEW d \in Devices, Served(d), OthersRest(d), NEW id \in IDs, Settled(id)
  PROVE  Settled(id)'
<1>1. \A e \in Devices : WritesBefore(e, 0, id)'
  BY ServedWrites DEF Settled
<1>2. fields[id] \subseteq fields'[id]
  BY DEF OthersRest
<1>. QED BY <1>1, <1>2 DEF Settled, Complete

LEMMA ServedUnsent ==
  ASSUME LifecycleTypeOK, LifecycleTypeOK', NEW d \in Devices, Served(d), NEW e \in Devices
  PROVE  /\ Len(Unsent(e)') = Len(Unsent(e))
         /\ \A k \in 1..Len(Unsent(e)) : /\ Unsent(e)'[k].kind = Unsent(e)[k].kind
                                         /\ Unsent(e)'[k].id = Unsent(e)[k].id
         /\ \A r \in Range(Unsent(e)') :
               \E s \in Range(Unsent(e)) : r.kind = s.kind /\ r.id = s.id
<1>1. /\ Len(Unsent(e)') = Len(Unsent(e))
      /\ \A k \in 1..Len(Unsent(e)) : /\ Unsent(e)'[k].kind = Unsent(e)[k].kind
                                      /\ Unsent(e)'[k].id = Unsent(e)[k].id
  <2>1. e # d => Unsent(e)' = Unsent(e)
    BY DEF Served, Unsent
  <2>. QED BY <2>1, UnsentServed
<1>2. ASSUME NEW r \in Range(Unsent(e)')
      PROVE  \E s \in Range(Unsent(e)) : r.kind = s.kind /\ r.id = s.id
  <2>. DEFINE u == Unsent(e)
              v == Unsent(e)'
              T == Answers \cup Requests
  <2>1. u \in Seq(T)
    BY UnsentType
  <2>2. v \in Seq(T)
    <3>1. answers'[e] \in Seq(Answers) /\ requests'[e] \in Seq(Requests)
      BY DEF LifecycleTypeOK
    <3>. QED BY <3>1 DEF Unsent
  <2>3. r \in Range(v)
    BY <1>2
  <2>4. Len(v) = Len(u) /\ \A k \in 1..Len(u) : v[k].kind = u[k].kind /\ v[k].id = u[k].id
    BY <1>1
  <2>. HIDE DEF u, v, T
  <2>5. PICK k \in 1..Len(v) : r = v[k]
    BY <2>2, <2>3, RangeAt
  <2>6. u[k] \in Range(u)
    BY <2>1, <2>4, <2>5, RangeAt
  <2>. QED BY <2>4, <2>5, <2>6 DEF u
<1>. QED BY <1>1, <1>2

\* The server keeps what is known of an ID.
LEMMA ServedQueue ==
  ASSUME LifecycleTypeOK, LifecycleTypeOK', NEW d \in Devices, Served(d), OthersRest(d),
         NEW id \in IDs, QueueInv(id)
  PROVE  QueueInv(id)'
<1>. DEFINE r == Head(requests[d])
            new == [kind |-> r.kind, id |-> r.id,
                    found |-> IF IsRead(r) THEN Fields(d, r.id) ELSE {}]
<1>1. /\ r \in Range(requests[d]) /\ requests[d] # << >>
      /\ requests'[d] = Tail(requests[d])
      /\ UNCHANGED <<session, shown, loaded>>
      /\ Range(answers'[d]) = Range(answers[d]) \cup {new}
      /\ \A e \in Devices \ {d} : requests'[e] = requests[e] /\ answers'[e] = answers[e]
      /\ fields'[id] = IF id = r.id /\ r.kind \in PartyFields THEN fields[id] \cup {r.kind}
                                                            ELSE fields[id]
      /\ id \in filled' => id \in filled \/ (r.kind = "song" /\ r.id = id)
      /\ fields[id] \subseteq fields'[id]
  BY DEF Served, OthersRest
<1>2. /\ new.kind = r.kind /\ new.id = r.id
      /\ IsRead(r) => new.found = Fields(d, r.id)
  OBVIOUS
<1>3. /\ requests[d] \in Seq(Requests) /\ 1 \in 1..Len(requests[d]) /\ requests[d][1] = r
      /\ r \in Range(Unsent(d)) /\ r \in Requests
  <2>1. requests[d] \in Seq(Requests)
    BY DEF LifecycleTypeOK
  <2>. QED BY <1>1, <2>1, UnsentType
<1>. HIDE DEF r, new
<1>4. AskIsAlone(id) /\ WonIsNew(id) /\ SessionIsLast(id) /\ LoadIsLast(id) /\ JoinsSettled(id)
  BY DEF QueueInv
<1>5. Settled(id) => Settled(id)'
  BY ServedSettled
<1>6. AskIsAlone(id)'
  <2>. SUFFICES ASSUME fields'[id] = {}, NEW e \in Devices, NEW i \in 1..Len(Unsent(e)'),
                       IsAsk(Unsent(e)'[i], id)
                PROVE  AloneWith(e, i, id)'
    BY DEF AskIsAlone, IsAsk
  <2>1. i \in 1..Len(Unsent(e)) /\ IsAsk(Unsent(e)[i], id) /\ fields[id] = {}
    BY <1>1, ServedUnsent DEF IsAsk
  <2>2. AloneWith(e, i, id)
    BY <1>4, <2>1 DEF AskIsAlone
  <2>3. ASSUME NEW f \in Devices, NEW j \in 1..Len(Unsent(f)'), Unsent(f)'[j].id = id
        PROVE  f = e /\ j = i
    <3>1. j \in 1..Len(Unsent(f)) /\ Unsent(f)[j].id = id
      BY <2>3, ServedUnsent
    <3>. QED BY <2>2, <3>1 DEF AloneWith
  <2>4. \A f \in Devices : ~Has(f, id)'
    BY <1>1, <2>2 DEF AloneWith, Has
  <2>. QED BY <2>3, <2>4 DEF AloneWith
<1>7. WonIsNew(id)'
  <2>. SUFFICES ASSUME NEW e \in Devices, NEW a \in Range(answers'[e]), IsAsk(a, id), ~IsUsed(a.found)
                PROVE  fields'[id] = {}
    BY DEF WonIsNew, IsAsk, IsUsed
  <2>1. CASE a \in Range(answers[e])
    <3>1. fields[id] = {}
      BY <1>4, <2>1 DEF WonIsNew
    <3>2. ~(r.kind \in PartyFields /\ r.id = id)
      <4>1. ASSUME r.kind \in PartyFields, r.id = id PROVE FALSE
        <5>1. a \in Range(Unsent(e))
          BY <2>1, UnsentType
        <5>2. r = a
          BY <1>3, <1>4, <3>1, <4>1, <5>1, AloneAt
        <5>. QED BY <4>1, <5>2 DEF IsAsk, PartyFields
      <4>. QED BY <4>1
    <3>. QED BY <1>1, <3>1, <3>2
  <2>2. CASE e = d /\ a = new
    <3>1. IsRead(r) /\ r.kind \notin PartyFields /\ r.id = id
      BY <1>2, <2>2 DEF IsAsk, IsRead, ReadKinds, AskKinds, PartyFields
    <3>2. fields[id] \subseteq new.found
      BY <1>2, <3>1 DEF Fields
    <3>. QED BY <1>1, <2>2, <3>1, <3>2 DEF IsUsed
  <2>. QED BY <1>1, <2>1, <2>2
<1>8. SessionIsLast(id)'
  <2>. SUFFICES ASSUME NEW e \in Devices, Has(e, id)'
                PROVE  WritesBefore(e, Len(requests[e]) + 1, id)'
    BY DEF SessionIsLast
  <2>1. Has(e, id)
    BY <1>1 DEF Has
  <2>2. WritesBefore(e, Len(requests[e]) + 1, id)
    BY <1>4, <2>1 DEF SessionIsLast
  <2>3. /\ Len(requests[e]) \in Nat /\ Len(requests'[e]) \in Nat
        /\ Len(requests'[e]) = IF e = d THEN Len(requests[e]) - 1 ELSE Len(requests[e])
    <3>. DEFINE s == requests[e]
                t == requests'[e]
    <3>1. s \in Seq(Requests)
      BY DEF LifecycleTypeOK
    <3>2. (e = d => s # << >> /\ t = Tail(s)) /\ (e # d => t = s)
      BY <1>1
    <3>. HIDE DEF s, t
    <3>3. Len(s) \in Nat /\ (s # << >> => Len(Tail(s)) = Len(s) - 1 /\ Len(s) > 0)
      BY <3>1
    <3>4. Len(s) \in Nat /\ Len(t) \in Nat /\ Len(t) = IF e = d THEN Len(s) - 1 ELSE Len(s)
      BY <3>2, <3>3
    <3>. QED BY <3>4 DEF s, t
  <2>4. PICK n \in Int, m \in Int : /\ n = Len(requests[e]) + 1 /\ m = Len(requests'[e]) + 1
                                    /\ m >= (IF e = d THEN n - 1 ELSE n)
    BY <2>3
  <2>5. WritesBefore(e, m, id)'
    BY <2>2, <2>4, ServedWrites
  <2>. QED BY <2>4, <2>5 DEF WritesBefore
<1>9. LoadIsLast(id)'
  <2>1. ASSUME NEW e \in Devices, NEW n \in 1..Len(requests'[e]),
               requests'[e][n].kind = "load", requests'[e][n].id = id
        PROVE  WritesBefore(e, n, id)'
    <3>1. PICK m \in 1..Len(requests[e]) : /\ m = IF e = d THEN n + 1 ELSE n
                                           /\ requests'[e][n] = requests[e][m]
      <4>1. CASE e = d
        <5>1. Len(requests'[d]) = Len(requests[d]) - 1
              /\ \A k \in 1..Len(requests'[d]) : requests'[d][k] = requests[d][k + 1]
          BY <1>1, <1>3
        <5>2. n + 1 \in 1..Len(requests[d])
          BY <1>3, <2>1, <4>1, <5>1
        <5>. QED BY <2>1, <4>1, <5>1, <5>2
      <4>2. CASE e # d
        BY <1>1, <2>1, <4>2
      <4>. QED BY <4>1, <4>2
    <3>2. WritesBefore(e, m, id)
      BY <1>4, <2>1, <3>1 DEF LoadIsLast
    <3>3. m \in Int /\ n \in Int /\ n >= (IF e = d THEN m - 1 ELSE m)
      BY <3>1
    <3>. QED BY <3>2, <3>3, ServedWrites
  <2>2. ASSUME NEW e \in Devices, NEW a \in Range(answers'[e]), a.kind = "load", a.id = id
        PROVE  WritesBefore(e, 0, id)' /\ a.found \subseteq fields'[id]
    <3>1. CASE a \in Range(answers[e])
      <4>1. WritesBefore(e, 0, id) /\ a.found \subseteq fields[id]
        BY <1>4, <2>2, <3>1 DEF LoadIsLast
      <4>. QED BY <1>1, <4>1, ServedWrites
    <3>2. CASE e = d /\ a = new
      <4>1. r.kind = "load" /\ r.id = id /\ IsRead(r)
        BY <1>2, <2>2, <3>2 DEF IsRead, ReadKinds
      <4>2. WritesBefore(d, 1, id)
        BY <1>3, <1>4, <4>1 DEF LoadIsLast
      <4>3. WritesBefore(d, 0, id)'
        BY <4>2, ServedWrites
      <4>4. ASSUME NEW k \in Fields(d, id) PROVE k \in fields[id]
        <5>1. ASSUME k \in PartyFields, NEW j \in DOMAIN requests[d],
                     requests[d][j] = Request(k, id)
              PROVE  FALSE
          <6>1. j \in 1..Len(requests[d]) /\ Writes(requests[d][j], id)
            BY <1>3, <5>1 DEF Writes, Request, NewKinds
          <6>. QED BY <4>2, <6>1 DEF WritesBefore
        <5>. QED BY <4>4, <5>1 DEF Fields
      <4>. QED BY <1>1, <1>2, <3>2, <4>1, <4>3, <4>4
    <3>. QED BY <1>1, <3>1, <3>2
  <2>. QED BY <2>1, <2>2 DEF LoadIsLast
<1>10. JoinsSettled(id)'
  <2>1. ASSUME NEW e \in Devices, NEW s \in Range(Unsent(e)'), s.kind \in {"joinParty", "song"},
               s.id = id
        PROVE  Settled(id)
    <3>1. PICK t \in Range(Unsent(e)) : s.kind = t.kind /\ s.id = t.id
      BY ServedUnsent
    <3>. QED BY <1>4, <2>1, <3>1 DEF JoinsSettled
  <2>2. id \in filled' => Settled(id)
    BY <1>1, <1>3, <1>4 DEF JoinsSettled
  <2>3. \A e \in Devices : loaded'[e] /\ shown'[e].partyID = id => Settled(id)
    BY <1>1, <1>4 DEF JoinsSettled
  <2>. QED BY <1>5, <2>1, <2>2, <2>3 DEF JoinsSettled
<1>. QED BY <1>6, <1>7, <1>8, <1>9, <1>10 DEF QueueInv

\* An app that dies takes its writes with it.
LEMMA DiedQueue ==
  ASSUME LifecycleTypeOK, LifecycleTypeOK', NEW d \in Devices, Died(d),
         NEW id \in IDs, QueueInv(id)
  PROVE  QueueInv(id)'
<1>1. /\ requests'[d] = << >> /\ answers'[d] = << >> /\ ~loaded'[d]
      /\ UNCHANGED <<fields, filled, session>>
      /\ \A e \in Devices \ {d} :
            /\ requests'[e] = requests[e] /\ answers'[e] = answers[e]
            /\ shown'[e] = shown[e] /\ loaded'[e] = loaded[e]
  BY DEF Died, OthersRest
<1>2. AskIsAlone(id) /\ WonIsNew(id) /\ SessionIsLast(id) /\ LoadIsLast(id) /\ JoinsSettled(id)
  BY DEF QueueInv
<1>3. ASSUME NEW e \in Devices
      PROVE  /\ e # d => Unsent(e)' = Unsent(e)
             /\ Len(Unsent(d)') = 0 /\ Range(Unsent(d)') = {}
             /\ Len(requests'[d]) = 0 /\ Range(answers'[d]) = {}
             /\ Has(e, id)' = Has(e, id)
  <2>1. e # d => Unsent(e)' = Unsent(e)
    BY <1>1 DEF Unsent
  <2>2. Unsent(d)' = << >>
    BY <1>1 DEF Unsent
  <2>. QED BY <1>1, <2>1, <2>2, RangeEmpty DEF Has
<1>4. ASSUME NEW e \in Devices, NEW n \in Int, WritesBefore(e, n, id)
      PROVE  WritesBefore(e, n, id)'
  <2>1. ASSUME NEW f \in Devices, NEW j \in 1..Len(requests'[f]), Writes(requests'[f][j], id)
        PROVE  f = e /\ j < n
    <3>1. f # d
      BY <1>3, <2>1
    <3>. QED BY <1>1, <1>4, <2>1, <3>1 DEF WritesBefore
  <2>. QED BY <2>1 DEF WritesBefore, Writes
<1>5. Settled(id) => Settled(id)'
  BY <1>1, <1>4 DEF Settled
<1>6. AskIsAlone(id)'
  <2>. SUFFICES ASSUME fields'[id] = {}, NEW e \in Devices, NEW i \in 1..Len(Unsent(e)'),
                       IsAsk(Unsent(e)'[i], id)
                PROVE  AloneWith(e, i, id)'
    BY DEF AskIsAlone, IsAsk
  <2>1. e # d
    BY <1>3
  <2>2. AloneWith(e, i, id)
    BY <1>1, <1>2, <1>3, <2>1 DEF AskIsAlone
  <2>3. ASSUME NEW f \in Devices, NEW j \in 1..Len(Unsent(f)'), Unsent(f)'[j].id = id
        PROVE  f = e /\ j = i
    <3>1. f # d
      BY <1>3, <2>3
    <3>. QED BY <1>3, <2>2, <2>3, <3>1 DEF AloneWith
  <2>. QED BY <1>3, <2>2, <2>3 DEF AloneWith
<1>7. WonIsNew(id)'
  BY <1>1, <1>2, <1>3 DEF WonIsNew, IsAsk, IsUsed
<1>8. SessionIsLast(id)'
  <2>. SUFFICES ASSUME NEW e \in Devices, Has(e, id)'
                PROVE  WritesBefore(e, Len(requests[e]) + 1, id)'
    BY DEF SessionIsLast
  <2>1. WritesBefore(e, Len(requests[e]) + 1, id)
    BY <1>2, <1>3 DEF SessionIsLast
  <2>2. ASSUME NEW f \in Devices, NEW j \in 1..Len(requests'[f]), Writes(requests'[f][j], id)
        PROVE  f = e /\ j < Len(requests'[e]) + 1
    <3>1. f # d /\ requests'[f] = requests[f]
      BY <1>1, <1>3, <2>2
    <3>. QED BY <2>1, <2>2, <3>1 DEF WritesBefore
  <2>. QED BY <2>2 DEF WritesBefore, Writes
<1>9. LoadIsLast(id)'
  <2>1. ASSUME NEW e \in Devices, NEW n \in 1..Len(requests'[e]),
               requests'[e][n].kind = "load", requests'[e][n].id = id
        PROVE  WritesBefore(e, n, id)'
    <3>1. e # d
      BY <1>3, <2>1
    <3>2. WritesBefore(e, n, id) /\ n \in Int
      BY <1>1, <1>2, <2>1, <3>1 DEF LoadIsLast
    <3>. QED BY <1>4, <3>2
  <2>2. ASSUME NEW e \in Devices, NEW a \in Range(answers'[e]), a.kind = "load", a.id = id
        PROVE  WritesBefore(e, 0, id)' /\ a.found \subseteq fields'[id]
    <3>1. e # d
      BY <1>3, <2>2
    <3>2. WritesBefore(e, 0, id) /\ a.found \subseteq fields[id]
      BY <1>1, <1>2, <2>2, <3>1 DEF LoadIsLast
    <3>. QED BY <1>1, <1>4, <3>2
  <2>. QED BY <2>1, <2>2 DEF LoadIsLast
<1>10. JoinsSettled(id)'
  <2>1. ASSUME NEW e \in Devices, NEW s \in Range(Unsent(e)'), s.kind \in {"joinParty", "song"},
               s.id = id
        PROVE  Settled(id)
    <3>1. e # d
      BY <1>3, <2>1
    <3>. QED BY <1>2, <1>3, <2>1, <3>1 DEF JoinsSettled
  <2>2. \A e \in Devices : loaded'[e] /\ shown'[e].partyID = id => Settled(id)
    BY <1>1, <1>2 DEF JoinsSettled
  <2>. QED BY <1>1, <1>2, <1>5, <2>1, <2>2 DEF JoinsSettled
<1>. QED BY <1>6, <1>7, <1>8, <1>9, <1>10 DEF QueueInv

LEMMA ActsQueue ==
  ASSUME LifecycleTypeOK, LifecycleTypeOK', NEW d \in Devices, NEW rs, AppActs(d, rs),
         NEW id \in IDs \ drawnTwice', QueueInv(id)
  PROVE  QueueInv(id)'
BY ActsAlone, ActsWon, ActsSession, ActsLoad, ActsJoins DEF QueueInv

LEMMA QueueInit == Init => QueueWithoutFaults
<1>. SUFFICES ASSUME Init, NEW id \in IDs PROVE QueueInv(id)
  BY DEF QueueWithoutFaults
<1>1. ASSUME NEW d \in Devices
      PROVE  /\ session[d] = NoSession /\ ~loaded[d] /\ Len(Unsent(d)) = 0
             /\ Range(Unsent(d)) = {} /\ Range(answers[d]) = {} /\ Len(requests[d]) = 0
  BY RangeEmpty DEF Init, Unsent
<1>2. filled = {}
  BY DEF Init
<1>3. AskIsAlone(id) /\ SessionIsLast(id) /\ LoadIsLast(id)
  BY <1>1 DEF AskIsAlone, SessionIsLast, LoadIsLast, Has
<1>4. WonIsNew(id) /\ JoinsSettled(id)
  BY <1>1, <1>2 DEF WonIsNew, JoinsSettled
<1>. QED BY <1>3, <1>4 DEF QueueInv

LEMMA QueueStep ==
  LifecycleTypeOK /\ QueueWithoutFaults /\ [Next]_lifecycleVars => QueueWithoutFaults'
<1>. SUFFICES ASSUME LifecycleTypeOK, QueueWithoutFaults, [Next]_lifecycleVars, faults' = 0,
                     NEW id \in IDs \ drawnTwice'
              PROVE  QueueInv(id)'
  BY DEF QueueWithoutFaults
<1>1. LifecycleTypeOK'
  BY LifecycleTypeStep
<1>2. CASE UNCHANGED lifecycleVars
  <2>1. faults = 0 /\ id \in IDs \ drawnTwice
        /\ UNCHANGED <<fields, filled, requests, answers, shown, loaded, session>>
    BY <1>2 DEF lifecycleVars
  <2>2. QueueInv(id)
    BY <2>1 DEF QueueWithoutFaults
  <2>3. ASSUME NEW e \in Devices
        PROVE  /\ Unsent(e)' = Unsent(e) /\ Has(e, id)' = Has(e, id)
               /\ \A n : WritesBefore(e, n, id)' = WritesBefore(e, n, id)
    BY <2>1 DEF Unsent, Has, WritesBefore, Writes
  <2>4. Settled(id)' = Settled(id)
    BY <2>1 DEF Settled, WritesBefore, Writes
  <2>5. AskIsAlone(id)'
    <3>1. AskIsAlone(id)
      BY <2>2 DEF QueueInv
    <3>2. \A d \in Devices, i \in Int : AloneWith(d, i, id) => AloneWith(d, i, id)'
      BY <2>3 DEF AloneWith
    <3>. QED BY <2>1, <2>3, <3>1, <3>2 DEF AskIsAlone, IsAsk
  <2>6. WonIsNew(id)'
    BY <2>1, <2>2 DEF QueueInv, WonIsNew, IsAsk, IsUsed
  <2>7. SessionIsLast(id)'
    BY <2>1, <2>2, <2>3 DEF QueueInv, SessionIsLast
  <2>8. LoadIsLast(id)'
    BY <2>1, <2>2, <2>3 DEF QueueInv, LoadIsLast
  <2>9. JoinsSettled(id)'
    BY <2>1, <2>2, <2>3, <2>4 DEF QueueInv, JoinsSettled
  <2>. QED BY <2>5, <2>6, <2>7, <2>8, <2>9 DEF QueueInv
<1>3. CASE Next
  <2>1. PICK d \in Devices :
          (\E rs : AppActs(d, rs)) \/ (Served(d) /\ OthersRest(d)) \/ Resent(d) \/ Died(d)
    BY <1>3, LifecycleSteps
  <2>2. faults \in Nat /\ ~Resent(d) /\ faults = 0
    <3>1. faults \in Nat
      BY LifecycleAssumption DEF LifecycleTypeOK
    <3>2. ~Resent(d)
      BY <3>1 DEF Resent
    <3>3. faults' \in {faults, faults + 1}
      BY <2>1, <3>2 DEF AppActs, Served, Died
    <3>. QED BY <3>1, <3>2, <3>3
  <2>3. id \in IDs \ drawnTwice
    BY <2>1, <2>2 DEF AppActs, Died, OthersRest
  <2>4. QueueInv(id)
    BY <2>2, <2>3 DEF QueueWithoutFaults
  <2>. QED BY <1>1, <2>1, <2>2, <2>3, <2>4, ActsQueue, ServedQueue, DiedQueue
<1>. QED BY <1>2, <1>3

LEMMA SongsStep ==
  LifecycleTypeOK /\ QueueWithoutFaults /\ [Next]_lifecycleVars
    => [faults = 0 => filled \subseteq filled' \cup drawnTwice]_lifecycleVars
<1>. SUFFICES ASSUME LifecycleTypeOK, QueueWithoutFaults, Next, faults = 0,
                     NEW id \in filled, id \notin drawnTwice, id \notin filled'
              PROVE  FALSE
  BY DEF lifecycleVars
<1>1. PICK d \in Devices :
        (\E rs : AppActs(d, rs)) \/ (Served(d) /\ OthersRest(d)) \/ Resent(d) \/ Died(d)
  BY LifecycleSteps
<1>2. id \in IDs
  BY DEF LifecycleTypeOK
<1>3. CASE Served(d)
  <2>1. /\ requests[d] \in Seq(Requests) /\ requests[d] # << >>
        /\ Head(requests[d]).kind = "queue" /\ Head(requests[d]).id = id
    BY <1>3 DEF LifecycleTypeOK, Served
  <2>2. 1 \in 1..Len(requests[d]) /\ Writes(requests[d][1], id)
    BY <2>1 DEF Writes, NewKinds
  <2>3. Settled(id)
    BY <1>2 DEF QueueWithoutFaults, QueueInv, JoinsSettled
  <2>4. WritesBefore(d, 0, id)
    BY <2>3 DEF Settled
  <2>. QED BY <2>2, <2>4 DEF WritesBefore
<1>4. \A rs : AppActs(d, rs) => filled' = filled
  BY DEF AppActs
<1>5. Died(d) \/ Resent(d) => filled' = filled
  BY DEF Died, Resent
<1>. QED BY <1>1, <1>3, <1>4, <1>5

-----------------------------------------------------------------------------
LEMMA LifecycleInit == Init => PartiesAreThere /\ PartyIsFound /\ SessionIsKept
<1>. SUFFICES ASSUME Init PROVE PartiesAreThere /\ PartyIsFound /\ SessionIsKept
  OBVIOUS
<1>1. ASSUME NEW d \in Devices
      PROVE  /\ session[d] = NoSession /\ screen[d] = "launching"
             /\ Unsent(d) = << >> /\ Range(Unsent(d)) = {} /\ Range(answers[d]) = {}
  BY RangeEmpty DEF Init, Unsent
<1>. QED BY <1>1 DEF PartiesAreThere, PartyIsFound, SessionIsKept

\* The screen and the session of a device, as one of its steps leaves them.
KeptNext(d) ==
  /\ \A e \in Devices \ {d} : screen'[e] = screen[e] /\ session'[e] = session[e]
  /\ screen'[d] = "player" => session'[d] # NoSession
  /\ screen'[d] = "menu" => session'[d] = NoSession

LEMMA SessionKeptStep ==
  LifecycleTypeOK /\ SessionIsKept /\ [Next]_lifecycleVars => SessionIsKept'
<1>. SUFFICES ASSUME LifecycleTypeOK, SessionIsKept, [Next]_lifecycleVars PROVE SessionIsKept'
  OBVIOUS
<1>1. CASE UNCHANGED lifecycleVars
  BY <1>1 DEF lifecycleVars, SessionIsKept
<1>2. ASSUME NEW d \in Devices, KeptNext(d) PROVE SessionIsKept'
  BY <1>2 DEF SessionIsKept, KeptNext
<1>3. ASSUME NEW d \in Devices, UNCHANGED <<screen, session>> PROVE KeptNext(d)
  BY <1>3 DEF SessionIsKept, KeptNext
<1>4. ASSUME NEW d \in Devices,
             TapCreate(d) \/ TapJoin(d) \/ DrawAgain(d) \/ NoPartyFound(d) \/ PartyIsRead(d)
               \/ Acknowledged(d) \/ Serve(d) \/ AddSong(d) \/ LoseConnection(d)
      PROVE  KeptNext(d)
  <2>1. UNCHANGED <<screen, session>>
    BY <1>4 DEF TapCreate, TapJoin, DrawAgain, NoPartyFound, PartyIsRead, Acknowledged, Serve,
                AddSong, LoseConnection
  <2>. QED BY <1>3, <2>1
<1>5. ASSUME NEW d \in Devices, OpenLink(d) \/ AppDies(d) PROVE KeptNext(d)
  BY <1>5 DEF LifecycleTypeOK, OpenLink, AppDies, KeptNext
<1>6. ASSUME NEW d \in Devices, NEW party \in Session, NEW sent, EnterParty(d, party, sent)
      PROVE  KeptNext(d)
  BY <1>6, LifecycleAssumption
     DEF LifecycleTypeOK, SessionIsKept, EnterParty, OpenPlayer, KeptNext
<1>7. ASSUME NEW d \in Devices, CreateNewParty(d) \/ JoinParty(d) PROVE KeptNext(d)
  <2>1. Head(answers[d]).id \in IDs
    BY <1>7, AnsweredType DEF CreateNewParty, JoinParty
  <2>2. /\ [partyID |-> Head(answers[d]).id, type |-> "host"] \in Session
        /\ [partyID |-> Head(answers[d]).id, type |-> "attendee"] \in Session
    BY <2>1 DEF Session
  <2>. QED BY <1>6, <1>7, <2>2 DEF CreateNewParty, JoinParty
<1>8. ASSUME NEW d \in Devices, ResumeSession(d) PROVE KeptNext(d)
  BY <1>8 DEF LifecycleTypeOK, ResumeSession, OpenPlayer, KeptNext
<1>9. ASSUME NEW d \in Devices, ShowMenu(d) \/ TapClose(d) PROVE KeptNext(d)
  BY <1>9 DEF LifecycleTypeOK, ShowMenu, TapClose, KeptNext
<1>. QED BY <1>1, <1>2, <1>4, <1>5, <1>7, <1>8, <1>9
         DEF Next, HandleAnswer, Restart, SearchTooEarly

-----------------------------------------------------------------------------
(***************************************************************************)
(* Every variable holds values of its kind, for any number of devices and  *)
(* IDs, any asks and any faults.                                           *)
(***************************************************************************)
THEOREM LifecycleTypeCorrect == Spec => []LifecycleTypeOK
<1>. QED BY LifecycleTypeInit, LifecycleTypeStep, PTL DEF Spec

(***************************************************************************)
(* Whoever has created or joined a party finds it when the player reads    *)
(* it: before the server has the writes of createNewParty, after lost      *)
(* connections, and in a session resumed after the app has died.           *)
(***************************************************************************)
THEOREM PartyIsFoundHolds == Spec => []PartyIsFound
<1>1. Init => LifecycleTypeOK /\ PartiesAreThere /\ PartyIsFound
  BY LifecycleTypeInit, LifecycleInit
<1>2. /\ LifecycleTypeOK /\ PartiesAreThere /\ PartyIsFound
      /\ [Next]_lifecycleVars
      => (LifecycleTypeOK /\ PartiesAreThere /\ PartyIsFound)'
  BY LifecycleTypeStep, ThereStep
<1>. QED BY <1>1, <1>2, PTL DEF Spec

(***************************************************************************)
(* Two devices host one party only when its ID was drawn again before the  *)
(* server knew of it: for every other ID generatePartyID and               *)
(* createNewParty of any number of devices, answered late and sent again,  *)
(* leave one host at most.                                                 *)
(***************************************************************************)
THEOREM OneHostPerPartyHolds == Spec => []OneHostPerParty
<1>1. Init => LifecycleTypeOK /\ IDsAreApart
  BY LifecycleTypeInit, ApartInit
<1>2. LifecycleTypeOK /\ IDsAreApart /\ [Next]_lifecycleVars
      => (LifecycleTypeOK /\ IDsAreApart)'
  BY LifecycleTypeStep, ApartStep
<1>. QED BY <1>1, <1>2, OneHostFromInv, PTL DEF Spec

(***************************************************************************)
(* While a player is shown a session is stored, and in the menu none is,   *)
(* though users tap twice and open links while other requests are under    *)
(* way.                                                                    *)
(***************************************************************************)
THEOREM SessionIsKeptHolds == Spec => []SessionIsKept
<1>1. Init => LifecycleTypeOK /\ SessionIsKept
  BY LifecycleTypeInit, LifecycleInit
<1>2. LifecycleTypeOK /\ SessionIsKept /\ [Next]_lifecycleVars
      => (LifecycleTypeOK /\ SessionIsKept)'
  BY LifecycleTypeStep, SessionKeptStep
<1>. QED BY <1>1, <1>2, PTL DEF Spec

(***************************************************************************)
(* While no connection is lost, the empty queue that createNewParty writes *)
(* last, and does not wait for, wipes out no song of somebody who joined,  *)
(* except in a party whose ID was drawn again before the server knew of    *)
(* it.                                                                     *)
(***************************************************************************)
THEOREM SongsStayHolds == Spec => SongsStay
<1>1. Init => LifecycleTypeOK /\ QueueWithoutFaults
  BY LifecycleTypeInit, QueueInit
<1>2. LifecycleTypeOK /\ QueueWithoutFaults /\ [Next]_lifecycleVars
      => (LifecycleTypeOK /\ QueueWithoutFaults)'
  BY LifecycleTypeStep, QueueStep
<1>. QED BY <1>1, <1>2, SongsStep, PTL DEF Spec, SongsStay

=============================================================================

--------------------------- MODULE Datastore_proofs ---------------------------
(***************************************************************************)
(* Proofs about Datastore: its type invariant, that the queue of a party   *)
(* has no holes, and that the forced casts of addSong never fail, for any  *)
(* devices, songs and bounds.                                              *)
(***************************************************************************)
EXTENDS Datastore, FiniteSetTheorems, SequenceTheorems, WellFoundedInduction, TLAPS

-----------------------------------------------------------------------------
(***************************************************************************)
(* The least and the greatest element of a set of numbers.                 *)
(***************************************************************************)
Less == {ss \in Nat \X Nat : ss[1] < ss[2]}

\* Every set of naturals that is not empty has a least element.
LEMMA LeastElement ==
  ASSUME NEW T, T \subseteq Nat, T # {}
  PROVE  \E x \in T : \A y \in T : x <= y
<1>1. OpToRel(<, Nat) = Less
  BY DEF OpToRel, Less
<1>2. IsWellFoundedOn(Less, Nat)
  BY NatLessThanWellFounded, <1>1
<1>3. PICK x \in T : \A y \in T : <<y, x>> \notin Less
  BY <1>2, WFMin
<1>4. ASSUME NEW y \in T
      PROVE  x <= y
  <2>1. <<y, x>> \in Nat \X Nat
    BY Zenon
  <2>2. <<y, x>>[1] = y /\ <<y, x>>[2] = x
    BY Zenon
  <2>3. ~(y < x)
    BY <1>3, <2>1, <2>2, Zenon DEF Less
  <2>. QED BY <2>3
<1>. QED BY <1>4

\* Max returns the greatest element of a set of naturals that has a bound.
LEMMA MaxOfBounded ==
  ASSUME NEW T, T \subseteq Nat, T # {}, NEW b \in Nat, \A y \in T : y <= b
  PROVE  Max(T) \in T /\ \A y \in T : y <= Max(T)
<1>. DEFINE U == {n \in Nat : \A y \in T : y <= n}
<1>1. PICK u \in U : \A n \in U : u <= n
  <2>1. b \in U
    OBVIOUS
  <2>. QED BY <2>1, LeastElement
<1>2. u \in T
  <2>1. SUFFICES ASSUME u \notin T PROVE FALSE
    OBVIOUS
  <2>2. u \in Nat /\ \A y \in T : y < u
    BY <2>1
  <2>3. u - 1 \in Nat /\ \A y \in T : y <= u - 1
    <3>1. PICK z \in T : TRUE
      OBVIOUS
    <3>2. z \in Nat /\ z < u
      BY <2>2
    <3>. QED BY <2>2, <3>2
  <2>4. u - 1 \in U
    BY <2>3
  <2>5. u <= u - 1
    BY <2>4, <1>1
  <2>. QED BY <2>2, <2>5
<1>3. \E x \in T : \A y \in T : x >= y
  BY <1>2
<1>. HIDE DEF U
<1>. QED BY <1>3 DEF Max

-----------------------------------------------------------------------------
(***************************************************************************)
(* Segments of slots.                                                      *)
(***************************************************************************)

\* The slots below n are a segment.
LEMMA SegmentIntro ==
  ASSUME NEW n \in Nat
  PROVE  IsSegment(0..(n - 1))
<1>1. Cardinality(0..(n - 1)) = n
  BY FS_Interval, n - 1 \in Int
<1>. QED BY <1>1 DEF IsSegment

\* A segment is the slots below some n.
LEMMA SegmentElim ==
  ASSUME NEW S, IsSegment(S)
  PROVE  \E n \in Nat : S = 0..(n - 1)
<1>1. PICK n \in 0..Cardinality(S) : S = 0..(n - 1)
  BY DEF IsSegment
<1>2. n \in Nat
  BY Z3
<1>. QED BY <1>1, <1>2

\* The slots of two segments together are a segment.
LEMMA SegmentUnion ==
  ASSUME NEW S, NEW T, IsSegment(S), IsSegment(T)
  PROVE  IsSegment(S \cup T)
<1>1. PICK m \in Nat : S = 0..(m - 1)
  BY SegmentElim
<1>2. PICK n \in Nat : T = 0..(n - 1)
  BY SegmentElim
<1>3. S \cup T = 0..(m - 1) \/ S \cup T = 0..(n - 1)
  BY <1>1, <1>2
<1>. QED BY <1>3, SegmentIntro

\* A slot that follows slots of a segment can be added to it: addSong's slot.
LEMMA SegmentAdd ==
  ASSUME NEW S, IsSegment(S), NEW i \in Nat, 0..(i - 1) \subseteq S
  PROVE  IsSegment(S \cup {i})
<1>1. PICK n \in Nat : S = 0..(n - 1)
  BY SegmentElim
<1>2. i <= n
  BY <1>1
<1>3. S \cup {i} = S \/ S \cup {i} = 0..((n + 1) - 1)
  BY <1>1, <1>2
<1>4. IsSegment(0..((n + 1) - 1))
  BY SegmentIntro, n + 1 \in Nat
<1>. QED BY <1>3, <1>4

\* No slots are a segment.
LEMMA SegmentEmpty == IsSegment({})
<1>1. {} = 0..(0 - 1)
  OBVIOUS
<1>. QED BY <1>1, SegmentIntro, 0 \in Nat

\* A segment has no holes.
LEMMA SegmentIsInitial ==
  ASSUME NEW S, IsSegment(S)
  PROVE  IsInitialSegment(S)
BY SegmentElim DEF IsInitialSegment

\* addSong counts the entries of a queue without holes right, and the last of
\* them is an entry of the queue.
LEMMA CountOfSegment ==
  ASSUME NEW q, IsQueue(q), IsSegment(DOMAIN q)
  PROVE  /\ ArrayCount(q) \in Nat
         /\ DOMAIN q = 0..(ArrayCount(q) - 1)
         /\ LastURL(q) \in MaybeSongs
<1>1. PICK n \in Nat : DOMAIN q = 0..(n - 1)
  BY SegmentElim
<1>2. CASE n = 0
  <2>1. DOMAIN q = {}
    BY <1>1, <1>2
  <2>2. ~IsArray(q)
    BY <2>1 DEF IsArray
  <2>. QED BY <1>1, <1>2, <2>2 DEF ArrayCount, LastURL, MaybeSongs
<1>3. CASE n > 0
  <2>1. DOMAIN q # {} /\ DOMAIN q \subseteq Nat
    BY <1>1, <1>3
  <2>2. Max(DOMAIN q) \in DOMAIN q /\ \A y \in DOMAIN q : y <= Max(DOMAIN q)
    <3>1. n - 1 \in Nat /\ \A y \in DOMAIN q : y <= n - 1
      BY <1>1, <1>3
    <3>. QED BY <2>1, <3>1, MaxOfBounded
  <2>3. Max(DOMAIN q) = n - 1
    BY <1>1, <1>3, <2>2
  <2>4. Cardinality(DOMAIN q) = n
    BY <1>1, <1>3, FS_Interval, n - 1 \in Int
  <2>5. IsArray(q) /\ ArrayCount(q) = n
    BY <1>3, <2>1, <2>3, <2>4 DEF IsArray, ArrayCount
  <2>6. LastURL(q) \in MaybeSongs
    <3>1. q[Max(DOMAIN q)].song \in MaybeSongs
      BY <2>2 DEF IsQueue, Entry
    <3>. QED BY <3>1 DEF LastURL, MaybeSongs
  <2>. QED BY <1>1, <2>5, <2>6
<1>. QED BY <1>2, <1>3

-----------------------------------------------------------------------------
(***************************************************************************)
(* The slots of writes and messages under way, as they come and go.        *)
(***************************************************************************)

\* All writes, and none.
LEMMA SlotsToEnds ==
  ASSUME NEW ws \in Seq(Write)
  PROVE  /\ SlotsTo(ws, Len(ws)) = Slots(ws)
         /\ SlotsTo(ws, 0) = {}
         /\ Slots(ws) \subseteq Nat
<1>1. DOMAIN ws = 1..Len(ws)
  OBVIOUS
<1>2. 1..0 = {}
  OBVIOUS
<1>3. \A k \in 1..Len(ws) : ws[k].slot \in Nat
  <2>1. \A k \in 1..Len(ws) : ws[k] \in Write
    OBVIOUS
  <2>. QED BY <2>1 DEF Write
<1>4. Slots(ws) \subseteq Nat
  BY <1>1, <1>3 DEF Slots
<1>5. SlotsTo(ws, 0) = {}
  BY <1>2 DEF SlotsTo
<1>6. SlotsTo(ws, Len(ws)) = Slots(ws)
  BY <1>1, Zenon DEF SlotsTo, Slots
<1>. QED BY <1>4, <1>5, <1>6

\* One write more.
LEMMA SlotsToAppend ==
  ASSUME NEW ws \in Seq(Write), NEW w \in Write
  PROVE  /\ Len(Append(ws, w)) = Len(ws) + 1
         /\ \A k \in 0..Len(ws) : SlotsTo(Append(ws, w), k) = SlotsTo(ws, k)
         /\ SlotsTo(Append(ws, w), Len(ws) + 1) = Slots(ws) \cup {w.slot}
         /\ Slots(Append(ws, w)) = Slots(ws) \cup {w.slot}
<1>1. Len(Append(ws, w)) = Len(ws) + 1
  OBVIOUS
<1>2. \A j \in 1..Len(ws) : Append(ws, w)[j] = ws[j]
  OBVIOUS
<1>3. Append(ws, w)[Len(ws) + 1] = w
  OBVIOUS
<1>4. \A k \in 0..Len(ws) : SlotsTo(Append(ws, w), k) = SlotsTo(ws, k)
  BY <1>2 DEF SlotsTo
<1>5. DOMAIN Append(ws, w) = 1..(Len(ws) + 1) /\ DOMAIN ws = 1..Len(ws)
  OBVIOUS
<1>6. Slots(Append(ws, w)) = Slots(ws) \cup {w.slot}
  <2>1. 1..(Len(ws) + 1) = 1..Len(ws) \cup {Len(ws) + 1}
    OBVIOUS
  <2>. QED BY <1>2, <1>3, <1>5, <2>1 DEF Slots
<1>7. SlotsTo(Append(ws, w), Len(ws) + 1) = Slots(Append(ws, w))
  BY <1>5 DEF SlotsTo, Slots
<1>. QED BY <1>1, <1>4, <1>6, <1>7

\* The oldest write less.
LEMMA SlotsToTail ==
  ASSUME NEW ws \in Seq(Write), ws # << >>
  PROVE  /\ Head(ws) \in Write
         /\ Tail(ws) \in Seq(Write)
         /\ Len(Tail(ws)) = Len(ws) - 1
         /\ \A k \in 0..Len(Tail(ws)) :
               {Head(ws).slot} \cup SlotsTo(Tail(ws), k) = SlotsTo(ws, k + 1)
         /\ {Head(ws).slot} \cup Slots(Tail(ws)) = Slots(ws)
<1>1. /\ Head(ws) \in Write /\ Tail(ws) \in Seq(Write)
      /\ Len(Tail(ws)) = Len(ws) - 1
      /\ \A j \in 1..Len(Tail(ws)) : Tail(ws)[j] = ws[j + 1]
  BY HeadTailProperties
<1>2. Head(ws) = ws[1] /\ Len(ws) > 0
  OBVIOUS
<1>3. ASSUME NEW k \in 0..Len(Tail(ws))
      PROVE  {Head(ws).slot} \cup SlotsTo(Tail(ws), k) = SlotsTo(ws, k + 1)
  <2>1. SlotsTo(Tail(ws), k) = {ws[j + 1].slot : j \in 1..k}
    BY <1>1 DEF SlotsTo
  <2>2. SlotsTo(ws, k + 1) = {ws[1].slot} \cup {ws[j + 1].slot : j \in 1..k}
    <3>1. \A j \in 1..(k + 1) : j = 1 \/ j - 1 \in 1..k
      OBVIOUS
    <3>2. \A j \in 1..k : j + 1 \in 1..(k + 1)
      OBVIOUS
    <3>3. 1 \in 1..(k + 1)
      OBVIOUS
    <3>4. \A j \in 1..(k + 1) : j # 1 => ws[j].slot = ws[(j - 1) + 1].slot
      OBVIOUS
    <3>. QED BY <3>1, <3>2, <3>3, <3>4 DEF SlotsTo
  <2>. QED BY <1>2, <2>1, <2>2
<1>4. {Head(ws).slot} \cup Slots(Tail(ws)) = Slots(ws)
  <2>1. {Head(ws).slot} \cup SlotsTo(Tail(ws), Len(Tail(ws)))
          = SlotsTo(ws, Len(Tail(ws)) + 1)
    BY <1>1, <1>3
  <2>2. Len(Tail(ws)) + 1 = Len(ws)
    BY <1>1
  <2>3. SlotsTo(ws, Len(ws)) = Slots(ws)
    BY SlotsToEnds
  <2>4. SlotsTo(Tail(ws), Len(Tail(ws))) = Slots(Tail(ws))
    BY <1>1, SlotsToEnds
  <2>. QED BY <2>1, <2>2, <2>3, <2>4
<1>. QED BY <1>1, <1>3, <1>4

\* Writes sent again before the others.
LEMMA SlotsToConcat ==
  ASSUME NEW us \in Seq(Write), NEW ws \in Seq(Write)
  PROVE  /\ us \o ws \in Seq(Write)
         /\ Len(us \o ws) = Len(us) + Len(ws)
         /\ \A k \in 0..Len(us) : SlotsTo(us \o ws, k) \subseteq Slots(us)
         /\ \A k \in 0..Len(ws) :
               SlotsTo(us \o ws, Len(us) + k) = Slots(us) \cup SlotsTo(ws, k)
         /\ Slots(us \o ws) = Slots(us) \cup Slots(ws)
<1>1. /\ us \o ws \in Seq(Write) /\ Len(us \o ws) = Len(us) + Len(ws)
      /\ \A i \in 1..Len(us) : (us \o ws)[i] = us[i]
      /\ \A i \in 1..Len(ws) : (us \o ws)[Len(us) + i] = ws[i]
  BY ConcatProperties
<1>2. ASSUME NEW k \in 0..Len(us)
      PROVE  SlotsTo(us \o ws, k) \subseteq Slots(us)
  BY <1>1 DEF SlotsTo, Slots
<1>3. ASSUME NEW k \in 0..Len(ws)
      PROVE  SlotsTo(us \o ws, Len(us) + k) = Slots(us) \cup SlotsTo(ws, k)
  <2>1. \A j \in 1..(Len(us) + k) :
          j \in 1..Len(us) \/ (j - Len(us) \in 1..k /\ j = Len(us) + (j - Len(us)))
    OBVIOUS
  <2>2. DOMAIN us = 1..Len(us)
    OBVIOUS
  <2>3. \A x : x \in SlotsTo(us \o ws, Len(us) + k)
                 => x \in Slots(us) \/ x \in SlotsTo(ws, k)
    BY <1>1, <2>1, <2>2 DEF SlotsTo, Slots
  <2>4. Slots(us) \subseteq SlotsTo(us \o ws, Len(us) + k)
    BY <1>1, <2>2 DEF SlotsTo, Slots
  <2>5. SlotsTo(ws, k) \subseteq SlotsTo(us \o ws, Len(us) + k)
    <3>1. \A j \in 1..k : j \in 1..Len(ws) /\ Len(us) + j \in 1..(Len(us) + k)
      OBVIOUS
    <3>. QED BY <1>1, <3>1 DEF SlotsTo
  <2>. QED BY <2>3, <2>4, <2>5
<1>4. Slots(us \o ws) = Slots(us) \cup Slots(ws)
  <2>1. SlotsTo(us \o ws, Len(us) + Len(ws)) = Slots(us) \cup SlotsTo(ws, Len(ws))
    BY <1>3
  <2>2. SlotsTo(us \o ws, Len(us \o ws)) = Slots(us \o ws)
    BY <1>1, SlotsToEnds
  <2>3. SlotsTo(ws, Len(ws)) = Slots(ws)
    BY SlotsToEnds
  <2>. QED BY <1>1, <2>1, <2>2, <2>3
<1>. QED BY <1>1, <1>2, <1>3, <1>4

\* One message more.
LEMMA OthersAppend ==
  ASSUME NEW ms \in Seq(Message), NEW m \in Message
  PROVE  /\ Len(Append(ms, m)) = Len(ms) + 1
         /\ \A k \in 0..Len(ms) : OtherSlotsTo(Append(ms, m), k) = OtherSlotsTo(ms, k)
         /\ OtherSlotsTo(Append(ms, m), Len(ms) + 1)
              = OtherSlotsTo(ms, Len(ms)) \cup (IF m.own THEN {} ELSE {m.write.slot})
<1>1. \A j \in 1..Len(ms) : Append(ms, m)[j] = ms[j]
  OBVIOUS
<1>2. Append(ms, m)[Len(ms) + 1] = m
  OBVIOUS
<1>3. 1..(Len(ms) + 1) = 1..Len(ms) \cup {Len(ms) + 1}
  OBVIOUS
<1>. QED BY <1>1, <1>2, <1>3 DEF OtherSlotsTo

\* The oldest message less.
LEMMA OthersTail ==
  ASSUME NEW ms \in Seq(Message), ms # << >>
  PROVE  /\ Head(ms) \in Message
         /\ Tail(ms) \in Seq(Message)
         /\ Len(Tail(ms)) = Len(ms) - 1
         /\ \A k \in 0..Len(Tail(ms)) :
               OtherSlotsTo(ms, k + 1) =
                 OtherSlotsTo(Tail(ms), k)
                   \cup (IF Head(ms).own THEN {} ELSE {Head(ms).write.slot})
<1>1. /\ Head(ms) \in Message /\ Tail(ms) \in Seq(Message)
      /\ Len(Tail(ms)) = Len(ms) - 1
      /\ \A j \in 1..Len(Tail(ms)) : Tail(ms)[j] = ms[j + 1]
  BY HeadTailProperties
<1>2. Head(ms) = ms[1] /\ Len(ms) > 0
  OBVIOUS
<1>3. ASSUME NEW k \in 0..Len(Tail(ms))
      PROVE  OtherSlotsTo(ms, k + 1) =
               OtherSlotsTo(Tail(ms), k)
                 \cup (IF Head(ms).own THEN {} ELSE {Head(ms).write.slot})
  <2>1. \A j \in 1..(k + 1) : j = 1 \/ (j - 1 \in 1..k /\ j = (j - 1) + 1)
    OBVIOUS
  <2>2. \A j \in 1..k : j + 1 \in 1..(k + 1) /\ Tail(ms)[j] = ms[j + 1]
    BY <1>1
  <2>3. 1 \in 1..(k + 1)
    OBVIOUS
  <2>. QED BY <1>2, <2>1, <2>2, <2>3 DEF OtherSlotsTo
<1>. QED BY <1>1, <1>3

-----------------------------------------------------------------------------
(***************************************************************************)
(* The slots of queues.                                                    *)
(***************************************************************************)

\* A queue with one write more.
LEMMA PutQueue ==
  ASSUME NEW q, IsQueue(q), NEW w \in Write
  PROVE  /\ IsQueue(Put(q, w))
         /\ DOMAIN Put(q, w) = DOMAIN q \cup {w.slot}
<1>1. DOMAIN Put(q, w) = DOMAIN q \cup {w.slot}
  BY DEF Put
<1>2. w.slot \in Nat /\ w.song \in MaybeSongs
  BY DEF Write
<1>3. Put(q, w) = [i \in DOMAIN Put(q, w) |-> Put(q, w)[i]]
  BY DEF Put
<1>4. ASSUME NEW i \in DOMAIN Put(q, w)
      PROVE  Put(q, w)[i] \in Entry
  <2>1. CASE i # w.slot
    <3>1. i \in DOMAIN q /\ Put(q, w)[i] = q[i]
      BY <1>1, <2>1 DEF Put
    <3>. QED BY <3>1 DEF IsQueue
  <2>2. CASE i = w.slot /\ w.song # NoSong
    <3>1. Put(q, w)[i] = Fresh(w.song)
      BY <1>1, <2>2 DEF Put
    <3>. QED BY <1>2, <3>1 DEF Fresh, Entry
  <2>3. CASE i = w.slot /\ w.song = NoSong
    <3>1. Put(q, w)[i] = [song |-> IF i \in DOMAIN q THEN q[i].song ELSE NoSong,
                          played |-> TRUE]
      BY <1>1, <2>3 DEF Put
    <3>2. i \in DOMAIN q => q[i].song \in MaybeSongs
      BY DEF IsQueue, Entry
    <3>3. NoSong \in MaybeSongs
      BY DEF MaybeSongs
    <3>. QED BY <3>1, <3>2, <3>3 DEF Entry
  <2>. QED BY <2>1, <2>2, <2>3
<1>5. DOMAIN Put(q, w) \subseteq Nat
  BY <1>1, <1>2 DEF IsQueue
<1>. QED BY <1>1, <1>3, <1>4, <1>5 DEF IsQueue

\* The position of the last write of a song is a position, or 0.
LEMMA LastSongWriteType ==
  ASSUME NEW ws \in Seq(Write), NEW i \in Nat
  PROVE  LastSongWrite(ws, i) \in {0} \cup DOMAIN ws
<1>. DEFINE T == {0} \cup {k \in DOMAIN ws : ws[k].slot = i /\ ws[k].song # NoSong}
<1>1. DOMAIN ws = 1..Len(ws) /\ Len(ws) \in Nat
  OBVIOUS
<1>2. T \subseteq Nat /\ T # {} /\ \A y \in T : y <= Len(ws)
  BY <1>1
<1>3. Max(T) \in T
  <2>. HIDE DEF T
  <2>. QED BY <1>1, <1>2, MaxOfBounded
<1>. QED BY <1>3 DEF LastSongWrite

\* A queue seen under pending writes.
LEMMA OverlayQueue ==
  ASSUME NEW q, IsQueue(q), NEW ws \in Seq(Write)
  PROVE  /\ IsQueue(Overlay(q, ws))
         /\ DOMAIN Overlay(q, ws) = DOMAIN q \cup Slots(ws)
<1>1. DOMAIN Overlay(q, ws) = DOMAIN q \cup Slots(ws)
  BY DEF Overlay
<1>2. DOMAIN Overlay(q, ws) \subseteq Nat
  BY <1>1, SlotsToEnds DEF IsQueue
<1>3. Overlay(q, ws) = [i \in DOMAIN Overlay(q, ws) |-> Overlay(q, ws)[i]]
  BY DEF Overlay
<1>4. ASSUME NEW i \in DOMAIN Overlay(q, ws)
      PROVE  Overlay(q, ws)[i] \in Entry
  <2>. DEFINE last == LastSongWrite(ws, i)
              base == IF last > 0 THEN Fresh(ws[last].song)
                      ELSE IF i \in DOMAIN q THEN q[i] ELSE Fresh(NoSong)
              late == \E k \in DOMAIN ws :
                        k > last /\ ws[k].slot = i /\ ws[k].song = NoSong
  <2>1. last \in {0} \cup DOMAIN ws
    BY <1>2, LastSongWriteType
  <2>2. last > 0 => ws[last].song \in MaybeSongs
    <3>1. \A k \in DOMAIN ws : ws[k] \in Write
      OBVIOUS
    <3>. HIDE DEF last
    <3>. QED BY <2>1, <3>1 DEF Write
  <2>3. NoSong \in MaybeSongs
    BY DEF MaybeSongs
  <2>4. base \in Entry
    <3>. HIDE DEF last
    <3>. QED BY <2>2, <2>3 DEF IsQueue, Fresh, Entry
  <2>5. Overlay(q, ws)[i] = [song |-> base.song, played |-> base.played \/ late]
    BY <1>1, Zenon DEF Overlay
  <2>6. base.song \in MaybeSongs /\ base.played \in BOOLEAN
    <3>. HIDE DEF base
    <3>. QED BY <2>4 DEF Entry
  <2>7. (base.played \/ late) \in BOOLEAN
    OBVIOUS
  <2>. HIDE DEF base, late, last
  <2>. QED BY <2>5, <2>6, <2>7 DEF Entry
<1>. QED BY <1>1, <1>2, <1>3, <1>4 DEF IsQueue

-----------------------------------------------------------------------------
(***************************************************************************)
(* Consequences of the invariant.                                          *)
(***************************************************************************)

\* The view of a device has the slots it knows of and those it has written.
LEMMA ViewSlots ==
  ASSUME TypeOK, NEW d \in Devices
  PROVE  /\ IsQueue(View(d))
         /\ DOMAIN View(d) = Known(d) \cup Slots(outbox[d])
<1>1. IsQueue(cache[d]) /\ unacked[d] \in Seq(Write) /\ outbox[d] \in Seq(Write)
  BY DEF TypeOK, DBTypeOK
<1>2. /\ Pending(d) \in Seq(Write)
      /\ Slots(Pending(d)) = Slots(unacked[d]) \cup Slots(outbox[d])
  BY <1>1, SlotsToConcat DEF Pending
<1>3. /\ IsQueue(View(d))
      /\ DOMAIN View(d) = DOMAIN cache[d] \cup Slots(Pending(d))
  BY <1>1, <1>2, OverlayQueue DEF View
<1>. QED BY <1>2, <1>3 DEF Known

\* What a device sees is a segment, and all of it is at the server or on its
\* way there.
LEMMA SeenIsSegment ==
  ASSUME TypeOK, NoHolesInv, NEW d \in Devices
  PROVE  /\ IsSegment(Seen(d))
         /\ IsSegment(DOMAIN server \cup Slots(outbox[d]))
         /\ Listening(d) => Known(d) \subseteq DOMAIN server
<1>1. outbox[d] \in Seq(Write) /\ Len(outbox[d]) \in 0..Len(outbox[d])
  BY DEF TypeOK, DBTypeOK
<1>2. SlotsTo(outbox[d], Len(outbox[d])) = Slots(outbox[d])
  BY <1>1, SlotsToEnds
<1>3. /\ IsSegment(DOMAIN server \cup Slots(outbox[d]))
      /\ Listening(d) => IsSegment(Known(d) \cup Slots(outbox[d]))
  BY <1>1, <1>2 DEF NoHolesInv, WritesFillUp
<1>. QED BY <1>3 DEF Seen, NoHolesInv, MessagesFillUp

\* A read returns the queue that the device sees.
LEMMA ReadSlots ==
  ASSUME TypeOK, NoHolesInv, NEW d \in Devices
  PROVE  IsQueue(ReadQueue(d)) /\ DOMAIN ReadQueue(d) = Seen(d)
<1>1. CASE Listening(d)
  BY <1>1, ViewSlots DEF ReadQueue, Seen
<1>2. CASE ~Listening(d)
  <2>1. IsQueue(server) /\ unacked[d] \in Seq(Write) /\ outbox[d] \in Seq(Write)
    BY DEF TypeOK, DBTypeOK
  <2>2. /\ Pending(d) \in Seq(Write)
        /\ Slots(Pending(d)) = Slots(unacked[d]) \cup Slots(outbox[d])
    BY <2>1, SlotsToConcat DEF Pending
  <2>3. /\ IsQueue(ReadQueue(d))
        /\ DOMAIN ReadQueue(d) = DOMAIN server \cup Slots(Pending(d))
    BY <1>2, <2>1, <2>2, OverlayQueue DEF ReadQueue
  <2>4. Slots(unacked[d]) \subseteq DOMAIN server
    BY DEF NoHolesInv, WritesFillUp
  <2>. QED BY <1>2, <2>2, <2>3, <2>4 DEF Seen
<1>. QED BY <1>1, <1>2

\* What the callback of addSong has is the length of what the device saw.
LEMMA ReadCount ==
  ASSUME TypeOK, NoHolesInv, NEW d \in Devices
  PROVE  /\ ArrayCount(ReadQueue(d)) \in Nat
         /\ LastURL(ReadQueue(d)) \in MaybeSongs
         /\ Seen(d) = 0..(ArrayCount(ReadQueue(d)) - 1)
BY ReadSlots, SeenIsSegment, CountOfSegment

-----------------------------------------------------------------------------
(***************************************************************************)
(* Types.                                                                  *)
(***************************************************************************)

\* The types hold at first.
LEMMA TypeInit == Init => TypeOK
<1>. SUFFICES ASSUME Init PROVE TypeOK
  OBVIOUS
<1>1. IsQueue(EmptyQueue)
  BY DEF IsQueue, EmptyQueue
<1>2. DBTypeOK
  BY <1>1 DEF Init, DBInit, DBTypeOK
<1>3. adding \in [Devices -> Seq(Add)] /\ faults \in 0..MaxFaults
  BY DatastoreAssumption DEF Init
<1>. QED BY <1>2, <1>3 DEF TypeOK

\* A write of a device keeps the types.
LEMMA SetValueType ==
  ASSUME TypeOK, NEW d \in Devices, NEW w \in Write, SetValue(d, w)
  PROVE  DBTypeOK'
BY DEF TypeOK, DBTypeOK, SetValue

\* Every step keeps the types.
LEMMA TypeStep == TypeOK /\ NoHolesInv /\ [Next]_vars => TypeOK'
<1>. SUFFICES ASSUME TypeOK, NoHolesInv, [Next]_vars PROVE TypeOK'
  OBVIOUS
<1>. USE DEF TypeOK
<1>1. ASSUME NEW d \in Devices, NEW s \in Songs, AddSong(d, s)
      PROVE  TypeOK'
  <2>1. [song |-> s, size |-> ArrayCount(ReadQueue(d)), last |-> LastURL(ReadQueue(d))]
          \in Add
    BY ReadCount DEF Add
  <2>2. adding' \in [Devices -> Seq(Add)]
    BY <1>1, <2>1 DEF AddSong
  <2>. QED BY <1>1, <2>2 DEF AddSong, dbVars, DBTypeOK
<1>2. ASSUME NEW d \in Devices, RefuseDuplicate(d)
      PROVE  TypeOK'
  <2>1. adding' \in [Devices -> Seq(Add)]
    BY <1>2 DEF RefuseDuplicate
  <2>. QED BY <1>2, <2>1 DEF RefuseDuplicate, dbVars, DBTypeOK
<1>3. ASSUME NEW d \in Devices, StoreSong(d)
      PROVE  TypeOK'
  <2>1. Head(adding[d]) \in Add
    BY <1>3 DEF StoreSong
  <2>2. SongWrite(Head(adding[d])) \in Write
    BY <2>1 DEF Add, Write, SongWrite, SongAt, MaybeSongs
  <2>3. DBTypeOK'
    BY <1>3, <2>2, SetValueType DEF StoreSong
  <2>4. adding' \in [Devices -> Seq(Add)]
    BY <1>3 DEF StoreSong
  <2>. QED BY <1>3, <2>3, <2>4 DEF StoreSong
<1>4. ASSUME NEW d \in Devices, SubscribeToUpdates(d)
      PROVE  TypeOK'
  <2>1. DBTypeOK'
    <3>1. CASE Listening(d)
      BY <1>4, <3>1 DEF SubscribeToUpdates, Observe, DBTypeOK, IsQueue
    <3>2. CASE ~Listening(d)
      <4>1. \A e \in Devices : cache'[e] = server \/ cache'[e] = cache[e]
        BY <1>4, <3>2 DEF SubscribeToUpdates, Observe, DBTypeOK
      <4>2. DOMAIN cache' = Devices /\ \A e \in Devices : IsQueue(cache'[e])
        <5>1. DOMAIN cache' = Devices
          BY <1>4, <3>2 DEF SubscribeToUpdates, Observe, DBTypeOK
        <5>. QED BY <4>1, <5>1 DEF DBTypeOK
      <4>3. inbox' \in [Devices -> Seq(Message)] /\ unacked' \in [Devices -> Seq(Write)]
        <5>1. << >> \in Seq(Message) /\ << >> \in Seq(Write)
          OBVIOUS
        <5>2. /\ inbox' = [inbox EXCEPT ![d] = << >>]
              /\ unacked' = [unacked EXCEPT ![d] = << >>]
          BY <1>4, <3>2 DEF SubscribeToUpdates, Observe
        <5>. QED BY <5>1, <5>2 DEF DBTypeOK
      <4>4. /\ observers' \in [Devices -> Nat]
            /\ server' = server /\ outbox' = outbox
        BY <1>4 DEF SubscribeToUpdates, Observe, DBTypeOK
      <4>. QED BY <4>2, <4>3, <4>4 DEF DBTypeOK
    <3>. QED BY <3>1, <3>2
  <2>. QED BY <1>4, <2>1 DEF SubscribeToUpdates
<1>5. ASSUME NEW d \in Devices, NEW i \in DOMAIN View(d), DidFinish(d, i)
      PROVE  TypeOK'
  <2>1. i \in Nat
    BY ViewSlots DEF IsQueue
  <2>2. PlayedAt(i) \in Write
    BY <2>1 DEF Write, PlayedAt, MaybeSongs
  <2>3. DBTypeOK'
    BY <1>5, <2>2, SetValueType DEF DidFinish
  <2>. QED BY <1>5, <2>3 DEF DidFinish
<1>6. ASSUME NEW d \in Devices, Transmit(d)
      PROVE  TypeOK'
  <2>. DEFINE w == Head(outbox[d])
  <2>1. w \in Write /\ Tail(outbox[d]) \in Seq(Write)
    BY <1>6 DEF Transmit, ServerApply, DBTypeOK
  <2>2. IsQueue(server')
    BY <1>6, <2>1, PutQueue DEF Transmit, ServerApply, DBTypeOK
  <2>3. unacked' \in [Devices -> Seq(Write)] /\ outbox' \in [Devices -> Seq(Write)]
    BY <1>6, <2>1 DEF Transmit, ServerApply, DBTypeOK
  <2>4. inbox' \in [Devices -> Seq(Message)]
    <3>1. \A e \in Devices : [write |-> w, own |-> e = d] \in Message
      BY <2>1 DEF Message
    <3>2. inbox' = [e \in Devices |->
                      IF e = d \/ Listening(e)
                      THEN Append(inbox[e], [write |-> w, own |-> e = d])
                      ELSE inbox[e]]
      BY <1>6 DEF Transmit, ServerApply
    <3>. HIDE DEF w
    <3>. QED BY <3>1, <3>2 DEF DBTypeOK
  <2>5. cache' = cache /\ observers' = observers /\ adding' = adding /\ faults' = faults
    BY <1>6 DEF Transmit, ServerApply
  <2>. QED BY <2>2, <2>3, <2>4, <2>5 DEF DBTypeOK
<1>7. ASSUME NEW d \in Devices, Receive(d)
      PROVE  TypeOK'
  <2>. DEFINE m == Head(inbox[d])
  <2>1. m \in Message /\ m.write \in Write /\ Tail(inbox[d]) \in Seq(Message)
    <3>1. inbox[d] \in Seq(Message) /\ inbox[d] # << >>
      BY <1>7 DEF Receive, Deliver, DBTypeOK
    <3>2. m \in Message /\ Tail(inbox[d]) \in Seq(Message)
      BY <3>1
    <3>. HIDE DEF m
    <3>. QED BY <3>2 DEF Message
  <2>2. IsQueue(Put(cache[d], m.write))
    BY <2>1, PutQueue DEF DBTypeOK
  <2>3. cache' = [cache EXCEPT ![d] =
                    IF Listening(d) THEN Put(cache[d], m.write) ELSE cache[d]]
    BY <1>7 DEF Receive, Deliver
  <2>4. DOMAIN cache' = Devices /\ \A e \in Devices : IsQueue(cache'[e])
    <3>1. \A e \in Devices : \/ cache'[e] = Put(cache[d], m.write) /\ e = d
                             \/ cache'[e] = cache[e]
      BY <2>3 DEF DBTypeOK
    <3>. QED BY <2>2, <2>3, <3>1 DEF DBTypeOK
  <2>5. inbox' \in [Devices -> Seq(Message)]
    BY <1>7, <2>1 DEF Receive, Deliver, DBTypeOK
  <2>6. unacked' \in [Devices -> Seq(Write)]
    <3>1. m.own => Tail(unacked[d]) \in Seq(Write)
      BY <1>7 DEF Receive, Deliver, DBTypeOK
    <3>. QED BY <1>7, <3>1 DEF Receive, Deliver, DBTypeOK
  <2>7. /\ server' = server /\ outbox' = outbox /\ observers' = observers
        /\ adding' = adding /\ faults' = faults
    BY <1>7 DEF Receive, Deliver
  <2>. QED BY <2>4, <2>5, <2>6, <2>7 DEF DBTypeOK
<1>8. ASSUME NEW d \in Devices, LoseConnection(d)
      PROVE  TypeOK'
  <2>1. Pending(d) \in Seq(Write)
    BY SlotsToConcat DEF Pending, DBTypeOK
  <2>2. DBTypeOK'
    BY <1>8, <2>1 DEF LoseConnection, Reconnect, DBTypeOK
  <2>3. faults' \in 0..MaxFaults
    BY <1>8, DatastoreAssumption DEF LoseConnection
  <2>. QED BY <1>8, <2>2, <2>3 DEF LoseConnection
<1>9. ASSUME NEW d \in Devices, Restart(d)
      PROVE  TypeOK'
  <2>1. IsQueue(EmptyQueue)
    BY DEF IsQueue, EmptyQueue
  <2>2. DBTypeOK'
    BY <1>9, <2>1 DEF Restart, AppDies, Forget, DBTypeOK
  <2>3. faults' \in 0..MaxFaults
    BY <1>9, DatastoreAssumption DEF Restart
  <2>. QED BY <1>9, <2>2, <2>3 DEF Restart, AppDies
<1>10. CASE UNCHANGED vars
  BY <1>10 DEF vars, dbVars, DBTypeOK, IsQueue
<1>. QED BY <1>1, <1>2, <1>3, <1>4, <1>5, <1>6, <1>7, <1>8, <1>9, <1>10 DEF Next

-----------------------------------------------------------------------------
(***************************************************************************)
(* No holes.                                                               *)
(***************************************************************************)

\* There are no holes at first.
LEMMA NoHolesInit == Init => NoHolesInv
<1>. SUFFICES ASSUME Init PROVE NoHolesInv
  OBVIOUS
<1>1. DOMAIN server = {} /\ \A d \in Devices : ~Listening(d)
  BY DEF Init, DBInit, EmptyQueue, Listening
<1>2. ServerIsSegment
  BY <1>1, SegmentEmpty DEF ServerIsSegment
<1>3. WritesFillUp
  <2>. SUFFICES ASSUME NEW d \in Devices
                PROVE  /\ Slots(unacked[d]) = {}
                       /\ \A k \in 0..Len(outbox[d]) : SlotsTo(outbox[d], k) = {}
    BY <1>1, SegmentEmpty DEF WritesFillUp
  <2>1. unacked[d] = << >> /\ outbox[d] = << >>
    BY DEF Init, DBInit
  <2>2. << >> \in Seq(Write) /\ Len(<< >>) = 0
    OBVIOUS
  <2>3. Slots(<< >>) = {} /\ SlotsTo(<< >>, 0) = {}
    BY <2>2, SlotsToEnds
  <2>4. \A k \in 0..Len(outbox[d]) : k = 0
    BY <2>1
  <2>. QED BY <2>1, <2>3, <2>4
<1>4. MessagesFillUp
  BY <1>1 DEF MessagesFillUp
<1>5. AddsAreSeen
  BY DEF Init, AddsAreSeen
<1>. QED BY <1>2, <1>3, <1>4, <1>5 DEF NoHolesInv

\* A device writes to a slot that follows slots it sees.
LEMMA SetValueStep ==
  ASSUME TypeOK, NoHolesInv, NEW d \in Devices, NEW w \in Write, SetValue(d, w),
         0..(w.slot - 1) \subseteq Seen(d)
  PROVE  /\ ServerIsSegment' /\ WritesFillUp' /\ MessagesFillUp'
         /\ \A e \in Devices : Seen(e) \subseteq Seen(e)'
<1>1. /\ outbox' = [outbox EXCEPT ![d] = Append(outbox[d], w)]
      /\ server' = server /\ cache' = cache /\ inbox' = inbox
      /\ unacked' = unacked /\ observers' = observers
  BY DEF SetValue
<1>2. \A e \in Devices : outbox[e] \in Seq(Write)
  BY DEF TypeOK, DBTypeOK
<1>3. /\ outbox'[d] = Append(outbox[d], w)
      /\ \A e \in Devices : e # d => outbox'[e] = outbox[e]
  BY <1>1 DEF TypeOK, DBTypeOK
<1>4. \A e \in Devices : Known(e)' = Known(e) /\ Listening(e)' = Listening(e)
  BY <1>1 DEF Known, Listening
<1>5. w.slot \in Nat
  BY DEF Write
<1>6. ServerIsSegment'
  BY <1>1 DEF NoHolesInv, ServerIsSegment
<1>7. WritesFillUp'
  <2>. SUFFICES ASSUME NEW e \in Devices, NEW k \in 0..Len(outbox'[e])
                PROVE  /\ IsSegment(DOMAIN server \cup SlotsTo(outbox'[e], k))
                       /\ Listening(e) => IsSegment(Known(e) \cup SlotsTo(outbox'[e], k))
    BY <1>1, <1>4 DEF NoHolesInv, WritesFillUp
  <2>1. CASE outbox'[e] = outbox[e]
    BY <2>1 DEF NoHolesInv, WritesFillUp
  <2>2. CASE e = d /\ k \in 0..Len(outbox[d])
    <3>1. SlotsTo(outbox'[d], k) = SlotsTo(outbox[d], k)
      BY <1>2, <1>3, <2>2, SlotsToAppend
    <3>. QED BY <2>2, <3>1 DEF NoHolesInv, WritesFillUp
  <2>3. CASE e = d /\ k = Len(outbox[d]) + 1
    <3>1. SlotsTo(outbox'[d], k) = Slots(outbox[d]) \cup {w.slot}
      BY <1>2, <1>3, <2>3, SlotsToAppend
    <3>2. IsSegment((DOMAIN server \cup Slots(outbox[d])) \cup {w.slot})
      <4>1. Seen(d) \subseteq DOMAIN server \cup Slots(outbox[d])
        BY SeenIsSegment DEF Seen
      <4>. QED BY <1>5, <4>1, SeenIsSegment, SegmentAdd
    <3>3. ASSUME Listening(d)
          PROVE  IsSegment((Known(d) \cup Slots(outbox[d])) \cup {w.slot})
      <4>1. Seen(d) = Known(d) \cup Slots(outbox[d])
        BY <3>3 DEF Seen
      <4>. QED BY <1>5, <4>1, SeenIsSegment, SegmentAdd
    <3>4. /\ DOMAIN server \cup SlotsTo(outbox'[d], k)
               = (DOMAIN server \cup Slots(outbox[d])) \cup {w.slot}
          /\ Known(d) \cup SlotsTo(outbox'[d], k)
               = (Known(d) \cup Slots(outbox[d])) \cup {w.slot}
      BY <3>1
    <3>. QED BY <2>3, <3>2, <3>3, <3>4
  <2>4. e = d => k \in 0..Len(outbox[d]) \/ k = Len(outbox[d]) + 1
    BY <1>2, <1>3, SlotsToAppend
  <2>. QED BY <1>3, <2>1, <2>2, <2>3, <2>4
<1>8. MessagesFillUp'
  BY <1>1, <1>4 DEF NoHolesInv, MessagesFillUp
<1>9. \A e \in Devices : Seen(e) \subseteq Seen(e)'
  <2>1. \A e \in Devices : Slots(outbox[e]) \subseteq Slots(outbox'[e])
    <3>1. Slots(Append(outbox[d], w)) = Slots(outbox[d]) \cup {w.slot}
      BY <1>2, SlotsToAppend
    <3>. QED BY <1>3, <3>1
  <2>. QED BY <1>1, <1>4, <2>1 DEF Seen
<1>. QED BY <1>6, <1>7, <1>8, <1>9

\* When what is seen does not shrink and no add is new, adds are seen.
LEMMA AddsStaySeen ==
  ASSUME AddsAreSeen, adding' = adding,
         \A e \in Devices : Seen(e) \subseteq Seen(e)'
  PROVE  AddsAreSeen'
BY DEF AddsAreSeen

\* When the callback of an add has run, the others are still seen.
LEMMA OldAddsStaySeen ==
  ASSUME TypeOK, AddsAreSeen, NEW d \in Devices, adding[d] # << >>,
         adding' = [adding EXCEPT ![d] = Tail(@)],
         \A e \in Devices : Seen(e) \subseteq Seen(e)'
  PROVE  AddsAreSeen'
<1>. SUFFICES ASSUME NEW e \in Devices, NEW k \in DOMAIN adding'[e]
              PROVE  0..(adding'[e][k].size - 1) \subseteq Seen(e)
  BY DEF AddsAreSeen
<1>1. CASE e # d
  <2>1. adding'[e] = adding[e]
    BY <1>1 DEF TypeOK
  <2>. QED BY <2>1 DEF AddsAreSeen
<1>2. CASE e = d
  <2>1. adding[d] \in Seq(Add) /\ adding'[d] = Tail(adding[d])
    BY DEF TypeOK
  <2>2. k + 1 \in DOMAIN adding[d] /\ Tail(adding[d])[k] = adding[d][k + 1]
    <3>1. k \in DOMAIN Tail(adding[d])
      BY <1>2, <2>1
    <3>2. /\ Tail(adding[d]) \in Seq(Add)
          /\ Len(Tail(adding[d])) = Len(adding[d]) - 1
          /\ \A j \in 1..Len(Tail(adding[d])) : Tail(adding[d])[j] = adding[d][j + 1]
      BY <2>1, HeadTailProperties
    <3>. QED BY <2>1, <3>1, <3>2
  <2>. QED BY <1>2, <2>1, <2>2 DEF AddsAreSeen
<1>. QED BY <1>1, <1>2

\* addSong reads the queue.
LEMMA AddSongStep ==
  ASSUME TypeOK, NoHolesInv, NEW d \in Devices, NEW s \in Songs, AddSong(d, s)
  PROVE  NoHolesInv'
<1>. DEFINE add == [song |-> s, size |-> ArrayCount(ReadQueue(d)),
                    last |-> LastURL(ReadQueue(d))]
<1>1. /\ UNCHANGED dbVars
      /\ adding' = [adding EXCEPT ![d] = Append(adding[d], add)]
  BY DEF AddSong
<1>2. ServerIsSegment' /\ WritesFillUp' /\ MessagesFillUp'
  BY <1>1 DEF dbVars, NoHolesInv, ServerIsSegment, WritesFillUp, MessagesFillUp,
              Known, Listening
<1>3. AddsAreSeen'
  <2>. SUFFICES ASSUME NEW e \in Devices, NEW k \in DOMAIN adding'[e]
                PROVE  0..(adding'[e][k].size - 1) \subseteq Seen(e)'
    BY DEF AddsAreSeen
  <2>1. Seen(e)' = Seen(e)
    BY <1>1 DEF dbVars, Seen, Known, Listening
  <2>2. CASE e # d
    <3>1. adding'[e] = adding[e]
      BY <1>1, <2>2 DEF TypeOK
    <3>. QED BY <2>1, <3>1 DEF NoHolesInv, AddsAreSeen
  <2>3. CASE e = d
    <3>1. adding'[d] = Append(adding[d], add) /\ adding[d] \in Seq(Add)
      BY <1>1 DEF TypeOK
    <3>2. \/ k \in DOMAIN adding[d] /\ adding'[d][k] = adding[d][k]
          \/ adding'[d][k] = add
      <4>. HIDE DEF add
      <4>. QED BY <2>3, <3>1
    <3>3. 0..(add.size - 1) \subseteq Seen(d)
      BY ReadCount
    <3>. HIDE DEF add
    <3>. QED BY <2>1, <2>3, <3>2, <3>3 DEF NoHolesInv, AddsAreSeen
  <2>. QED BY <2>2, <2>3
<1>. QED BY <1>2, <1>3 DEF NoHolesInv

\* The callback of addSong refuses a duplicate.
LEMMA RefuseDuplicateStep ==
  ASSUME TypeOK, NoHolesInv, NEW d \in Devices, RefuseDuplicate(d)
  PROVE  NoHolesInv'
<1>1. ServerIsSegment' /\ WritesFillUp' /\ MessagesFillUp'
  BY DEF RefuseDuplicate, dbVars, NoHolesInv, ServerIsSegment, WritesFillUp,
         MessagesFillUp, Known, Listening
<1>2. \A e \in Devices : Seen(e) \subseteq Seen(e)'
  BY DEF RefuseDuplicate, dbVars, Seen, Known, Listening
<1>3. AddsAreSeen'
  BY <1>2, OldAddsStaySeen DEF RefuseDuplicate, NoHolesInv
<1>. QED BY <1>1, <1>3 DEF NoHolesInv

\* The callback of addSong writes the song.
LEMMA StoreSongStep ==
  ASSUME TypeOK, NoHolesInv, NEW d \in Devices, StoreSong(d)
  PROVE  NoHolesInv'
<1>. DEFINE add == Head(adding[d])
            w == SongWrite(add)
<1>1. adding[d] \in Seq(Add) /\ adding[d] # << >> /\ SetValue(d, w)
  BY DEF StoreSong, TypeOK
<1>2. add = adding[d][1] /\ 1 \in DOMAIN adding[d] /\ add \in Add
  BY <1>1
<1>3. w \in Write /\ w.slot = add.size
  <2>. HIDE DEF add
  <2>. QED BY <1>2 DEF Add, Write, SongWrite, SongAt, MaybeSongs
<1>4. 0..(w.slot - 1) \subseteq Seen(d)
  BY <1>2, <1>3 DEF NoHolesInv, AddsAreSeen
<1>5. /\ ServerIsSegment' /\ WritesFillUp' /\ MessagesFillUp'
      /\ \A e \in Devices : Seen(e) \subseteq Seen(e)'
  <2>. HIDE DEF w
  <2>. QED BY <1>1, <1>3, <1>4, SetValueStep
<1>6. AddsAreSeen'
  BY <1>1, <1>5, OldAddsStaySeen DEF StoreSong, NoHolesInv
<1>. QED BY <1>5, <1>6 DEF NoHolesInv

\* A device marks a song that it sees as played.
LEMMA DidFinishStep ==
  ASSUME TypeOK, NoHolesInv, NEW d \in Devices, NEW i \in DOMAIN View(d),
         Listening(d), DidFinish(d, i)
  PROVE  NoHolesInv'
<1>1. i \in Seen(d) /\ i \in Nat
  BY ViewSlots DEF Seen, IsQueue
<1>2. 0..(i - 1) \subseteq Seen(d)
  <2>1. 0..i \subseteq Seen(d)
    BY <1>1, SeenIsSegment, SegmentIsInitial DEF IsInitialSegment
  <2>. QED BY <1>1, <2>1
<1>3. PlayedAt(i) \in Write /\ PlayedAt(i).slot = i
  BY <1>1 DEF PlayedAt, Write, MaybeSongs
<1>4. /\ ServerIsSegment' /\ WritesFillUp' /\ MessagesFillUp'
      /\ \A e \in Devices : Seen(e) \subseteq Seen(e)'
  BY <1>2, <1>3, SetValueStep DEF DidFinish
<1>5. AddsAreSeen'
  BY <1>4, AddsStaySeen DEF DidFinish, NoHolesInv
<1>. QED BY <1>4, <1>5 DEF NoHolesInv

\* A device that did not listen subscribes.
LEMMA SubscribeStep ==
  ASSUME TypeOK, NoHolesInv, NEW d \in Devices, ~Listening(d), SubscribeToUpdates(d)
  PROVE  NoHolesInv'
<1>1. /\ cache' = [cache EXCEPT ![d] = server]
      /\ inbox' = [inbox EXCEPT ![d] = << >>]
      /\ unacked' = [unacked EXCEPT ![d] = << >>]
      /\ observers' = [observers EXCEPT ![d] = @ + 1]
      /\ server' = server /\ outbox' = outbox /\ adding' = adding
  BY DEF SubscribeToUpdates, Observe
<1>2. /\ cache'[d] = server /\ inbox'[d] = << >> /\ unacked'[d] = << >>
      /\ \A e \in Devices : e # d => /\ cache'[e] = cache[e] /\ inbox'[e] = inbox[e]
                                     /\ unacked'[e] = unacked[e]
                                     /\ observers'[e] = observers[e]
  BY <1>1 DEF TypeOK, DBTypeOK
<1>3. Slots(<< >>) = {} /\ Len(<< >>) = 0 /\ OtherSlotsTo(<< >>, 0) = {}
  <2>1. << >> \in Seq(Write) /\ Len(<< >>) = 0 /\ 1..0 = {}
    OBVIOUS
  <2>2. SlotsTo(<< >>, 0) = {}
    BY <2>1, SlotsToEnds
  <2>3. Slots(<< >>) = {}
    BY <2>1, <2>2, SlotsToEnds
  <2>. QED BY <2>1, <2>3 DEF OtherSlotsTo
<1>4. /\ Known(d)' = DOMAIN server
      /\ \A e \in Devices : e # d => Known(e)' = Known(e) /\ Listening(e)' = Listening(e)
  BY <1>2, <1>3 DEF Known, Listening
<1>5. ServerIsSegment'
  BY <1>1 DEF NoHolesInv, ServerIsSegment
<1>6. WritesFillUp'
  <2>. SUFFICES ASSUME NEW e \in Devices
                PROVE  /\ Slots(unacked'[e]) \subseteq DOMAIN server
                       /\ \A k \in 0..Len(outbox[e]) :
                            /\ IsSegment(DOMAIN server \cup SlotsTo(outbox[e], k))
                            /\ Listening(e)' => IsSegment(Known(e)' \cup SlotsTo(outbox[e], k))
    BY <1>1 DEF WritesFillUp
  <2>1. CASE e # d
    BY <1>2, <1>4, <2>1 DEF NoHolesInv, WritesFillUp
  <2>2. CASE e = d
    BY <1>2, <1>3, <1>4, <2>2 DEF NoHolesInv, WritesFillUp
  <2>. QED BY <2>1, <2>2
<1>7. MessagesFillUp'
  <2>. SUFFICES ASSUME NEW e \in Devices, Listening(e)'
                PROVE  /\ \A k \in 0..Len(inbox'[e]) :
                            IsSegment(Known(e)' \cup OtherSlotsTo(inbox'[e], k))
                       /\ DOMAIN server
                            = Known(e)' \cup OtherSlotsTo(inbox'[e], Len(inbox'[e]))
    BY <1>1 DEF MessagesFillUp
  <2>1. CASE e # d
    BY <1>2, <1>4, <2>1 DEF NoHolesInv, MessagesFillUp
  <2>2. CASE e = d
    <3>1. \A k \in 0..0 : k = 0
      OBVIOUS
    <3>. QED BY <1>2, <1>3, <1>4, <2>2, <3>1 DEF NoHolesInv, ServerIsSegment
  <2>. QED BY <2>1, <2>2
<1>8. AddsAreSeen'
  <2>1. \A e \in Devices : Seen(e) \subseteq Seen(e)'
    BY <1>1, <1>2, <1>4 DEF Seen
  <2>. QED BY <1>1, <2>1, AddsStaySeen DEF NoHolesInv
<1>. QED BY <1>5, <1>6, <1>7, <1>8 DEF NoHolesInv

\* The server applies a write: the slot it fills follows slots in use.
LEMMA TransmitStep ==
  ASSUME TypeOK, NoHolesInv, NEW d \in Devices, Transmit(d)
  PROVE  NoHolesInv'
<1>. DEFINE w == Head(outbox[d])
            i == w.slot
            note(e) == [write |-> w, own |-> e = d]
<1>1. /\ outbox[d] # << >>
      /\ server' = Put(server, w)
      /\ unacked' = [unacked EXCEPT ![d] = Append(unacked[d], w)]
      /\ inbox' = [e \in Devices |-> IF e = d \/ Listening(e)
                                     THEN Append(inbox[e], note(e)) ELSE inbox[e]]
      /\ outbox' = [outbox EXCEPT ![d] = Tail(outbox[d])]
      /\ cache' = cache /\ observers' = observers /\ adding' = adding
  BY DEF Transmit, ServerApply
<1>2. /\ IsQueue(server)
      /\ \A e \in Devices : /\ outbox[e] \in Seq(Write) /\ unacked[e] \in Seq(Write)
                            /\ inbox[e] \in Seq(Message)
  BY DEF TypeOK, DBTypeOK
<1>3. /\ w \in Write /\ Tail(outbox[d]) \in Seq(Write)
      /\ \A k \in 0..Len(Tail(outbox[d])) :
            /\ {i} \cup SlotsTo(Tail(outbox[d]), k) = SlotsTo(outbox[d], k + 1)
            /\ k + 1 \in 0..Len(outbox[d])
      /\ {i} \cup Slots(Tail(outbox[d])) = Slots(outbox[d])
      /\ 1 \in 0..Len(outbox[d]) /\ SlotsTo(outbox[d], 1) = {i}
  <2>1. /\ w \in Write /\ Tail(outbox[d]) \in Seq(Write)
        /\ Len(Tail(outbox[d])) = Len(outbox[d]) - 1
        /\ \A k \in 0..Len(Tail(outbox[d])) :
              {i} \cup SlotsTo(Tail(outbox[d]), k) = SlotsTo(outbox[d], k + 1)
        /\ {i} \cup Slots(Tail(outbox[d])) = Slots(outbox[d])
    BY <1>1, <1>2, SlotsToTail
  <2>2. Len(outbox[d]) \in Nat /\ Len(Tail(outbox[d])) \in Nat
    BY <1>2, <2>1
  <2>3. {i} \cup SlotsTo(Tail(outbox[d]), 0) = SlotsTo(outbox[d], 1)
    <3>1. 0 \in 0..Len(Tail(outbox[d])) /\ 0 + 1 = 1
      BY <2>2
    <3>. HIDE DEF i, w
    <3>2. {i} \cup SlotsTo(Tail(outbox[d]), 0) = SlotsTo(outbox[d], 0 + 1)
      BY <2>1, <3>1, Zenon
    <3>. QED BY <3>1, <3>2
  <2>4. SlotsTo(Tail(outbox[d]), 0) = {}
    BY <2>1, SlotsToEnds
  <2>5. \A k \in 0..Len(Tail(outbox[d])) : k + 1 \in 0..Len(outbox[d])
    BY <2>1, <2>2
  <2>6. 1 \in 0..Len(outbox[d])
    BY <2>1, <2>2
  <2>7. SlotsTo(outbox[d], 1) = {i}
    BY <2>3, <2>4, Zenon
  <2>. HIDE DEF i, w
  <2>. QED BY <2>1, <2>5, <2>6, <2>7, Zenon
<1>4. DOMAIN server' = DOMAIN server \cup {i}
  BY <1>1, <1>2, <1>3, PutQueue
<1>5. /\ outbox'[d] = Tail(outbox[d]) /\ unacked'[d] = Append(unacked[d], w)
      /\ inbox'[d] = Append(inbox[d], note(d))
      /\ \A e \in Devices : e # d =>
            /\ outbox'[e] = outbox[e] /\ unacked'[e] = unacked[e]
            /\ inbox'[e] = IF Listening(e) THEN Append(inbox[e], note(e)) ELSE inbox[e]
  <2>. HIDE DEF w, note
  <2>. QED BY <1>1 DEF TypeOK, DBTypeOK
<1>6. \A e \in Devices : note(e) \in Message
  <2>. HIDE DEF w
  <2>. QED BY <1>3 DEF Message
<1>7. Slots(unacked'[d]) = Slots(unacked[d]) \cup {i}
  <2>. HIDE DEF w
  <2>. QED BY <1>2, <1>3, <1>5, SlotsToAppend
<1>8. /\ Known(d)' = Known(d) \cup {i}
      /\ \A e \in Devices : e # d => Known(e)' = Known(e)
      /\ \A e \in Devices : Listening(e)' = Listening(e)
  <2>. HIDE DEF i
  <2>. QED BY <1>1, <1>5, <1>7 DEF Known, Listening
<1>9. /\ IsSegment(DOMAIN server \cup {i})
      /\ Listening(d) => IsSegment(Known(d) \cup {i})
  BY <1>3 DEF NoHolesInv, WritesFillUp
<1>. HIDE DEF i, w, note
<1>10. ServerIsSegment'
  BY <1>4, <1>9 DEF ServerIsSegment
<1>11. WritesFillUp'
  <2>. SUFFICES ASSUME NEW e \in Devices
                PROVE  /\ Slots(unacked'[e]) \subseteq DOMAIN server \cup {i}
                       /\ \A k \in 0..Len(outbox'[e]) :
                            /\ IsSegment((DOMAIN server \cup {i}) \cup SlotsTo(outbox'[e], k))
                            /\ Listening(e) => IsSegment(Known(e)' \cup SlotsTo(outbox'[e], k))
    BY <1>4, <1>8 DEF WritesFillUp
  <2>0. \A f \in Devices : Slots(unacked[f]) \subseteq DOMAIN server
    BY DEF NoHolesInv, WritesFillUp
  <2>1. CASE e = d
    <3>1. \A k \in 0..Len(Tail(outbox[d])) :
            /\ IsSegment(DOMAIN server \cup SlotsTo(outbox[d], k + 1))
            /\ Listening(d) => IsSegment(Known(d) \cup SlotsTo(outbox[d], k + 1))
      BY <1>3 DEF NoHolesInv, WritesFillUp
    <3>2. \A k \in 0..Len(Tail(outbox[d])) :
            /\ (DOMAIN server \cup {i}) \cup SlotsTo(Tail(outbox[d]), k)
                 = DOMAIN server \cup SlotsTo(outbox[d], k + 1)
            /\ (Known(d) \cup {i}) \cup SlotsTo(Tail(outbox[d]), k)
                 = Known(d) \cup SlotsTo(outbox[d], k + 1)
      BY <1>3
    <3>. QED BY <1>5, <1>7, <1>8, <2>0, <2>1, <3>1, <3>2
  <2>2. CASE e # d
    <3>1. ASSUME NEW k \in 0..Len(outbox[e])
          PROVE  IsSegment((DOMAIN server \cup {i}) \cup SlotsTo(outbox[e], k))
      <4>1. IsSegment(DOMAIN server \cup SlotsTo(outbox[e], k))
        BY DEF NoHolesInv, WritesFillUp
      <4>2. (DOMAIN server \cup {i}) \cup SlotsTo(outbox[e], k)
              = (DOMAIN server \cup {i}) \cup (DOMAIN server \cup SlotsTo(outbox[e], k))
        OBVIOUS
      <4>. QED BY <1>9, <4>1, <4>2, SegmentUnion
    <3>2. \A k \in 0..Len(outbox[e]) :
             Listening(e) => IsSegment(Known(e) \cup SlotsTo(outbox[e], k))
      BY DEF NoHolesInv, WritesFillUp
    <3>. QED BY <1>5, <1>8, <2>0, <2>2, <3>1, <3>2
  <2>. QED BY <2>1, <2>2
<1>12. MessagesFillUp'
  <2>. SUFFICES ASSUME NEW e \in Devices, Listening(e)
                PROVE  /\ \A k \in 0..Len(inbox'[e]) :
                            IsSegment(Known(e)' \cup OtherSlotsTo(inbox'[e], k))
                       /\ DOMAIN server \cup {i}
                            = Known(e)' \cup OtherSlotsTo(inbox'[e], Len(inbox'[e]))
    BY <1>4, <1>8 DEF MessagesFillUp
  <2>. DEFINE n == Len(inbox[e])
  <2>1. /\ inbox'[e] = Append(inbox[e], note(e)) /\ n \in Nat
        /\ note(e).own = (e = d) /\ note(e).write.slot = i
    <3>1. note(e).own = (e = d) /\ note(e).write = w
      BY Zenon DEF note
    <3>2. note(e).write.slot = i
      BY <3>1, Zenon DEF i
    <3>3. inbox'[e] = Append(inbox[e], note(e))
      BY <1>5
    <3>4. n \in Nat
      BY <1>2
    <3>. QED BY <3>1, <3>2, <3>3, <3>4
  <2>2. /\ Len(inbox'[e]) = n + 1
        /\ \A k \in 0..n : OtherSlotsTo(inbox'[e], k) = OtherSlotsTo(inbox[e], k)
        /\ OtherSlotsTo(inbox'[e], n + 1)
             = OtherSlotsTo(inbox[e], n) \cup (IF e = d THEN {} ELSE {i})
    <3>. DEFINE tail == IF note(e).own THEN {} ELSE {note(e).write.slot}
    <3>1. inbox[e] \in Seq(Message) /\ note(e) \in Message
      BY <1>2, <1>6
    <3>2. /\ Len(Append(inbox[e], note(e))) = n + 1
          /\ \A k \in 0..n : OtherSlotsTo(Append(inbox[e], note(e)), k)
                                = OtherSlotsTo(inbox[e], k)
          /\ OtherSlotsTo(Append(inbox[e], note(e)), n + 1)
               = OtherSlotsTo(inbox[e], n) \cup tail
      BY <3>1, OthersAppend, Zenon
    <3>3. tail = IF e = d THEN {} ELSE {i}
      BY <2>1
    <3>. HIDE DEF n, tail
    <3>. QED BY <2>1, <3>2, <3>3
  <2>3. /\ \A k \in 0..n : IsSegment(Known(e) \cup OtherSlotsTo(inbox[e], k))
        /\ DOMAIN server = Known(e) \cup OtherSlotsTo(inbox[e], n)
    BY DEF NoHolesInv, MessagesFillUp
  <2>4. \A k \in 0..(n + 1) : k \in 0..n \/ k = n + 1
    BY <2>1
  <2>5. n \in 0..n
    BY <2>1
  <2>. HIDE DEF n
  <2>6. CASE e = d
    <3>1. ASSUME NEW k \in 0..n
          PROVE  IsSegment((Known(d) \cup {i}) \cup OtherSlotsTo(inbox[d], k))
      <4>1. IsSegment(Known(d) \cup OtherSlotsTo(inbox[d], k)) /\ IsSegment(Known(d) \cup {i})
        BY <1>9, <2>3, <2>6
      <4>2. (Known(d) \cup {i}) \cup OtherSlotsTo(inbox[d], k)
              = (Known(d) \cup {i}) \cup (Known(d) \cup OtherSlotsTo(inbox[d], k))
        OBVIOUS
      <4>. QED BY <4>1, <4>2, SegmentUnion
    <3>2. IsSegment((Known(d) \cup {i}) \cup OtherSlotsTo(inbox[d], n))
      BY <2>5, <3>1
    <3>3. OtherSlotsTo(inbox'[d], n + 1) = OtherSlotsTo(inbox[d], n)
      BY <2>2, <2>6
    <3>. QED BY <1>8, <2>2, <2>3, <2>4, <2>6, <3>1, <3>2, <3>3
  <2>7. CASE e # d
    <3>1. OtherSlotsTo(inbox'[e], n + 1) = OtherSlotsTo(inbox[e], n) \cup {i}
      BY <2>2, <2>7
    <3>2. Known(e) \cup OtherSlotsTo(inbox'[e], n + 1) = DOMAIN server \cup {i}
      BY <2>3, <3>1
    <3>. QED BY <1>8, <1>9, <2>2, <2>3, <2>4, <2>7, <3>2
  <2>. QED BY <2>6, <2>7
<1>13. AddsAreSeen'
  <2>1. \A e \in Devices : Seen(e) \subseteq Seen(e)'
    BY <1>3, <1>4, <1>5, <1>8 DEF Seen
  <2>. QED BY <1>1, <2>1, AddsStaySeen DEF NoHolesInv
<1>. QED BY <1>10, <1>11, <1>12, <1>13 DEF NoHolesInv

\* A device receives a message: the slot of an acknowledged write it knew, the
\* slot of another's write follows slots it knows.
LEMMA ReceiveStep ==
  ASSUME TypeOK, NoHolesInv, NEW d \in Devices, Receive(d)
  PROVE  NoHolesInv'
<1>. DEFINE m == Head(inbox[d])
            i == m.write.slot
<1>1. /\ inbox[d] # << >>
      /\ m.own => unacked[d] # << >> /\ Head(unacked[d]) = m.write
      /\ cache' = [cache EXCEPT ![d] =
                     IF Listening(d) THEN Put(cache[d], m.write) ELSE cache[d]]
      /\ unacked' = [unacked EXCEPT ![d] = IF m.own THEN Tail(unacked[d]) ELSE unacked[d]]
      /\ inbox' = [inbox EXCEPT ![d] = Tail(inbox[d])]
      /\ server' = server /\ outbox' = outbox /\ observers' = observers
      /\ adding' = adding
  BY DEF Receive, Deliver
<1>2. /\ IsQueue(cache[d]) /\ unacked[d] \in Seq(Write)
      /\ inbox[d] \in Seq(Message)
  BY DEF TypeOK, DBTypeOK
<1>3. /\ m \in Message /\ Tail(inbox[d]) \in Seq(Message)
      /\ \A k \in 0..Len(Tail(inbox[d])) :
            OtherSlotsTo(inbox[d], k + 1)
              = OtherSlotsTo(Tail(inbox[d]), k) \cup (IF m.own THEN {} ELSE {i})
      /\ Len(Tail(inbox[d])) = Len(inbox[d]) - 1
  BY <1>1, <1>2, OthersTail
<1>4. m.write \in Write
  <2>. HIDE DEF m
  <2>. QED BY <1>3 DEF Message
<1>5. /\ cache'[d] = (IF Listening(d) THEN Put(cache[d], m.write) ELSE cache[d])
      /\ unacked'[d] = (IF m.own THEN Tail(unacked[d]) ELSE unacked[d])
      /\ inbox'[d] = Tail(inbox[d])
      /\ \A e \in Devices : e # d => /\ cache'[e] = cache[e] /\ inbox'[e] = inbox[e]
                                     /\ unacked'[e] = unacked[e]
  <2>. HIDE DEF m
  <2>. QED BY <1>1 DEF TypeOK, DBTypeOK
<1>6. Listening(d) => DOMAIN cache'[d] = DOMAIN cache[d] \cup {i}
  <2>1. DOMAIN Put(cache[d], m.write) = DOMAIN cache[d] \cup {i}
    BY <1>2, <1>4, PutQueue
  <2>. QED BY <1>5, <2>1
<1>7. /\ m.own => {i} \cup Slots(unacked'[d]) = Slots(unacked[d])
      /\ ~m.own => Slots(unacked'[d]) = Slots(unacked[d])
  <2>1. CASE m.own
    <3>1. {Head(unacked[d]).slot} \cup Slots(Tail(unacked[d])) = Slots(unacked[d])
      BY <1>1, <1>2, <2>1, SlotsToTail
    <3>2. Head(unacked[d]) = m.write /\ unacked'[d] = Tail(unacked[d])
      BY <1>1, <1>5, <2>1
    <3>. QED BY <2>1, <3>1, <3>2
  <2>2. CASE ~m.own
    BY <1>5, <2>2
  <2>. QED BY <2>1, <2>2
<1>. HIDE DEF i, m
<1>8. /\ Listening(d) => Known(d)' = Known(d) \cup (IF m.own THEN {} ELSE {i})
      /\ \A e \in Devices : e # d => Known(e)' = Known(e)
      /\ \A e \in Devices : Listening(e)' = Listening(e)
  BY <1>1, <1>5, <1>6, <1>7 DEF Known, Listening
<1>9. Len(inbox[d]) \in Nat /\ Len(Tail(inbox[d])) \in Nat
  BY <1>2, <1>3
<1>10. Listening(d) => IsSegment(Known(d)')
  <2>1. OtherSlotsTo(Tail(inbox[d]), 0) = {}
    <3>1. 1..0 = {}
      OBVIOUS
    <3>. QED BY <3>1 DEF OtherSlotsTo
  <2>2. OtherSlotsTo(inbox[d], 0 + 1)
          = OtherSlotsTo(Tail(inbox[d]), 0) \cup (IF m.own THEN {} ELSE {i})
    BY <1>3, <1>9
  <2>3. 0 + 1 \in 0..Len(inbox[d])
    BY <1>3, <1>9
  <2>4. Listening(d) => IsSegment(Known(d) \cup OtherSlotsTo(inbox[d], 0 + 1))
    BY <2>3 DEF NoHolesInv, MessagesFillUp
  <2>. QED BY <1>8, <2>1, <2>2, <2>4
<1>11. ServerIsSegment'
  BY <1>1 DEF NoHolesInv, ServerIsSegment
<1>12. WritesFillUp'
  <2>. SUFFICES ASSUME NEW e \in Devices
                PROVE  /\ Slots(unacked'[e]) \subseteq DOMAIN server
                       /\ \A k \in 0..Len(outbox[e]) : Listening(e) =>
                             IsSegment(Known(e)' \cup SlotsTo(outbox[e], k))
    BY <1>1, <1>8 DEF NoHolesInv, WritesFillUp
  <2>1. CASE e # d
    BY <1>5, <1>8, <2>1 DEF NoHolesInv, WritesFillUp
  <2>2. CASE e = d
    <3>1. Slots(unacked'[d]) \subseteq DOMAIN server
      <4>1. Slots(unacked[d]) \subseteq DOMAIN server
        BY DEF NoHolesInv, WritesFillUp
      <4>. QED BY <1>7, <4>1
    <3>2. ASSUME NEW k \in 0..Len(outbox[d]), Listening(d)
          PROVE  IsSegment(Known(d)' \cup SlotsTo(outbox[d], k))
      <4>1. IsSegment(Known(d) \cup SlotsTo(outbox[d], k))
        BY <3>2 DEF NoHolesInv, WritesFillUp
      <4>2. Known(d)' \cup SlotsTo(outbox[d], k)
              = Known(d)' \cup (Known(d) \cup SlotsTo(outbox[d], k))
        BY <1>8, <3>2
      <4>. QED BY <1>10, <3>2, <4>1, <4>2, SegmentUnion
    <3>. QED BY <2>2, <3>1, <3>2
  <2>. QED BY <2>1, <2>2
<1>13. MessagesFillUp'
  <2>. SUFFICES ASSUME NEW e \in Devices, Listening(e)
                PROVE  /\ \A k \in 0..Len(inbox'[e]) :
                            IsSegment(Known(e)' \cup OtherSlotsTo(inbox'[e], k))
                       /\ DOMAIN server
                            = Known(e)' \cup OtherSlotsTo(inbox'[e], Len(inbox'[e]))
    BY <1>1, <1>8 DEF MessagesFillUp
  <2>1. CASE e # d
    BY <1>5, <1>8, <2>1 DEF NoHolesInv, MessagesFillUp
  <2>2. CASE e = d
    <3>1. \A k \in 0..Len(Tail(inbox[d])) :
            /\ k + 1 \in 0..Len(inbox[d])
            /\ Known(d)' \cup OtherSlotsTo(Tail(inbox[d]), k)
                 = Known(d) \cup OtherSlotsTo(inbox[d], k + 1)
      <4>1. \A k \in 0..Len(Tail(inbox[d])) : k + 1 \in 0..Len(inbox[d])
        BY <1>3, <1>9
      <4>. QED BY <1>3, <1>8, <2>2, <4>1
    <3>2. \A k \in 0..Len(inbox[d]) : IsSegment(Known(d) \cup OtherSlotsTo(inbox[d], k))
      BY <2>2 DEF NoHolesInv, MessagesFillUp
    <3>3. DOMAIN server = Known(d) \cup OtherSlotsTo(inbox[d], Len(inbox[d]))
      BY <2>2 DEF NoHolesInv, MessagesFillUp
    <3>4. /\ Len(Tail(inbox[d])) \in 0..Len(Tail(inbox[d]))
          /\ Len(Tail(inbox[d])) + 1 = Len(inbox[d])
      BY <1>3, <1>9
    <3>5. Known(d)' \cup OtherSlotsTo(Tail(inbox[d]), Len(Tail(inbox[d]))) = DOMAIN server
      BY <3>1, <3>3, <3>4
    <3>. QED BY <1>5, <2>2, <3>1, <3>2, <3>5
  <2>. QED BY <2>1, <2>2
<1>14. AddsAreSeen'
  <2>1. \A e \in Devices : Seen(e) \subseteq Seen(e)'
    BY <1>1, <1>8 DEF Seen
  <2>. QED BY <1>1, <2>1, AddsStaySeen DEF NoHolesInv
<1>. QED BY <1>11, <1>12, <1>13, <1>14 DEF NoHolesInv

\* A device reconnects: the writes it sends again are in slots in use.
LEMMA LoseConnectionStep ==
  ASSUME TypeOK, NoHolesInv, NEW d \in Devices, LoseConnection(d)
  PROVE  NoHolesInv'
<1>1. /\ cache' = [cache EXCEPT ![d] = IF Listening(d) THEN server ELSE cache[d]]
      /\ inbox' = [inbox EXCEPT ![d] = << >>]
      /\ outbox' = [outbox EXCEPT ![d] = Pending(d)]
      /\ unacked' = [unacked EXCEPT ![d] = << >>]
      /\ server' = server /\ observers' = observers /\ adding' = adding
  BY DEF LoseConnection, Reconnect
<1>2. unacked[d] \in Seq(Write) /\ outbox[d] \in Seq(Write)
  BY DEF TypeOK, DBTypeOK
<1>3. /\ cache'[d] = (IF Listening(d) THEN server ELSE cache[d])
      /\ inbox'[d] = << >> /\ unacked'[d] = << >> /\ outbox'[d] = Pending(d)
      /\ \A e \in Devices : e # d => /\ cache'[e] = cache[e] /\ inbox'[e] = inbox[e]
                                     /\ unacked'[e] = unacked[e] /\ outbox'[e] = outbox[e]
  BY <1>1 DEF TypeOK, DBTypeOK
<1>4. Slots(<< >>) = {} /\ Len(<< >>) = 0 /\ OtherSlotsTo(<< >>, 0) = {}
  <2>1. << >> \in Seq(Write) /\ Len(<< >>) = 0 /\ 1..0 = {}
    OBVIOUS
  <2>2. SlotsTo(<< >>, 0) = {}
    BY <2>1, SlotsToEnds
  <2>3. Slots(<< >>) = {}
    BY <2>1, <2>2, SlotsToEnds
  <2>. QED BY <2>1, <2>3 DEF OtherSlotsTo
<1>5. /\ Listening(d) => Known(d)' = DOMAIN server
      /\ \A e \in Devices : e # d => Known(e)' = Known(e)
      /\ \A e \in Devices : Listening(e)' = Listening(e)
  BY <1>1, <1>3, <1>4 DEF Known, Listening
<1>6. Slots(unacked[d]) \subseteq DOMAIN server
  BY DEF NoHolesInv, WritesFillUp
<1>7. ASSUME NEW k \in 0..Len(Pending(d))
      PROVE  IsSegment(DOMAIN server \cup SlotsTo(Pending(d), k))
  <2>1. /\ Len(Pending(d)) = Len(unacked[d]) + Len(outbox[d])
        /\ Len(unacked[d]) \in Nat /\ Len(outbox[d]) \in Nat
    BY <1>2, SlotsToConcat DEF Pending
  <2>2. CASE k \in 0..Len(unacked[d])
    <3>1. SlotsTo(Pending(d), k) \subseteq Slots(unacked[d])
      BY <1>2, <2>2, SlotsToConcat DEF Pending
    <3>2. DOMAIN server \cup SlotsTo(Pending(d), k) = DOMAIN server
      BY <1>6, <3>1
    <3>. QED BY <3>2 DEF NoHolesInv, ServerIsSegment
  <2>3. CASE k - Len(unacked[d]) \in 0..Len(outbox[d])
    <3>. DEFINE j == k - Len(unacked[d])
    <3>1. k = Len(unacked[d]) + j
      BY <2>1
    <3>2. SlotsTo(Pending(d), Len(unacked[d]) + j)
            = Slots(unacked[d]) \cup SlotsTo(outbox[d], j)
      <4>. HIDE DEF j
      <4>1. j \in 0..Len(outbox[d])
        BY <2>3 DEF j
      <4>. QED BY <1>2, <4>1, SlotsToConcat DEF Pending
    <3>3. IsSegment(DOMAIN server \cup SlotsTo(outbox[d], j))
      BY <2>3 DEF NoHolesInv, WritesFillUp
    <3>. HIDE DEF j
    <3>4. DOMAIN server \cup SlotsTo(Pending(d), k) = DOMAIN server \cup SlotsTo(outbox[d], j)
      BY <1>6, <3>1, <3>2
    <3>. QED BY <3>3, <3>4
  <2>4. k \in 0..Len(unacked[d]) \/ k - Len(unacked[d]) \in 0..Len(outbox[d])
    <3>1. \A a, b \in Nat : \A j \in 0..(a + b) : j \in 0..a \/ j - a \in 0..b
      OBVIOUS
    <3>2. k \in 0..(Len(unacked[d]) + Len(outbox[d]))
      BY <2>1
    <3>. QED BY <2>1, <3>1, <3>2, Zenon
  <2>. QED BY <2>2, <2>3, <2>4
<1>8. ServerIsSegment'
  BY <1>1 DEF NoHolesInv, ServerIsSegment
<1>9. WritesFillUp'
  <2>. SUFFICES ASSUME NEW e \in Devices
                PROVE  /\ Slots(unacked'[e]) \subseteq DOMAIN server
                       /\ \A k \in 0..Len(outbox'[e]) :
                            /\ IsSegment(DOMAIN server \cup SlotsTo(outbox'[e], k))
                            /\ Listening(e) => IsSegment(Known(e)' \cup SlotsTo(outbox'[e], k))
    BY <1>1, <1>5 DEF WritesFillUp
  <2>1. CASE e # d
    BY <1>3, <1>5, <2>1 DEF NoHolesInv, WritesFillUp
  <2>2. CASE e = d
    BY <1>3, <1>4, <1>5, <1>7, <2>2
  <2>. QED BY <2>1, <2>2
<1>10. MessagesFillUp'
  <2>. SUFFICES ASSUME NEW e \in Devices, Listening(e)
                PROVE  /\ \A k \in 0..Len(inbox'[e]) :
                            IsSegment(Known(e)' \cup OtherSlotsTo(inbox'[e], k))
                       /\ DOMAIN server
                            = Known(e)' \cup OtherSlotsTo(inbox'[e], Len(inbox'[e]))
    BY <1>1, <1>5 DEF MessagesFillUp
  <2>1. CASE e # d
    BY <1>3, <1>5, <2>1 DEF NoHolesInv, MessagesFillUp
  <2>2. CASE e = d
    <3>1. \A k \in 0..0 : k = 0
      OBVIOUS
    <3>. QED BY <1>3, <1>4, <1>5, <2>2, <3>1 DEF NoHolesInv, ServerIsSegment
  <2>. QED BY <2>1, <2>2
<1>11. AddsAreSeen'
  <2>1. Slots(Pending(d)) = Slots(unacked[d]) \cup Slots(outbox[d])
    BY <1>2, SlotsToConcat DEF Pending
  <2>2. Listening(d) => Known(d) \subseteq DOMAIN server
    BY SeenIsSegment
  <2>3. \A e \in Devices : Seen(e) \subseteq Seen(e)'
    BY <1>1, <1>3, <1>5, <2>1, <2>2 DEF Seen
  <2>. QED BY <1>1, <2>3, AddsStaySeen DEF NoHolesInv
<1>. QED BY <1>8, <1>9, <1>10, <1>11 DEF NoHolesInv

\* The app of a device dies.
LEMMA RestartStep ==
  ASSUME TypeOK, NoHolesInv, NEW d \in Devices, Restart(d)
  PROVE  NoHolesInv'
<1>1. /\ cache' = [cache EXCEPT ![d] = EmptyQueue]
      /\ inbox' = [inbox EXCEPT ![d] = << >>]
      /\ outbox' = [outbox EXCEPT ![d] = << >>]
      /\ unacked' = [unacked EXCEPT ![d] = << >>]
      /\ observers' = [observers EXCEPT ![d] = 0]
      /\ server' = server
      /\ adding' = [adding EXCEPT ![d] = << >>]
  BY DEF Restart, AppDies, Forget
<1>2. /\ inbox'[d] = << >> /\ outbox'[d] = << >> /\ unacked'[d] = << >>
      /\ observers'[d] = 0 /\ adding'[d] = << >>
      /\ \A e \in Devices : e # d =>
            /\ cache'[e] = cache[e] /\ inbox'[e] = inbox[e] /\ outbox'[e] = outbox[e]
            /\ unacked'[e] = unacked[e] /\ observers'[e] = observers[e]
            /\ adding'[e] = adding[e]
  BY <1>1 DEF TypeOK, DBTypeOK
<1>3. /\ ~Listening(d)'
      /\ \A e \in Devices : e # d => /\ Known(e)' = Known(e) /\ Seen(e)' = Seen(e)
                                     /\ Listening(e)' = Listening(e)
  BY <1>1, <1>2 DEF Known, Seen, Listening
<1>4. ServerIsSegment'
  BY <1>1 DEF NoHolesInv, ServerIsSegment
<1>5. WritesFillUp'
  <2>. SUFFICES ASSUME NEW e \in Devices
                PROVE  /\ Slots(unacked'[e]) \subseteq DOMAIN server
                       /\ \A k \in 0..Len(outbox'[e]) :
                            /\ IsSegment(DOMAIN server \cup SlotsTo(outbox'[e], k))
                            /\ Listening(e)' => IsSegment(Known(e)' \cup SlotsTo(outbox'[e], k))
    BY <1>1 DEF WritesFillUp
  <2>1. CASE e # d
    BY <1>2, <1>3, <2>1 DEF NoHolesInv, WritesFillUp
  <2>2. CASE e = d
    <3>1. << >> \in Seq(Write) /\ Len(<< >>) = 0
      OBVIOUS
    <3>2. Slots(<< >>) = {} /\ SlotsTo(<< >>, 0) = {}
      BY <3>1, SlotsToEnds
    <3>3. \A k \in 0..Len(outbox'[d]) : k = 0
      BY <1>2, <3>1
    <3>. QED BY <1>2, <1>3, <2>2, <3>2, <3>3 DEF NoHolesInv, ServerIsSegment
  <2>. QED BY <2>1, <2>2
<1>6. MessagesFillUp'
  BY <1>1, <1>2, <1>3 DEF NoHolesInv, MessagesFillUp
<1>7. AddsAreSeen'
  BY <1>2, <1>3 DEF NoHolesInv, AddsAreSeen
<1>. QED BY <1>4, <1>5, <1>6, <1>7 DEF NoHolesInv

\* Every step keeps the queues without holes.
LEMMA NoHolesStep == TypeOK /\ NoHolesInv /\ [Next]_vars => NoHolesInv'
<1>. SUFFICES ASSUME TypeOK, NoHolesInv, [Next]_vars PROVE NoHolesInv'
  OBVIOUS
<1>1. CASE UNCHANGED vars
  BY <1>1 DEF vars, dbVars, NoHolesInv, ServerIsSegment, WritesFillUp, MessagesFillUp,
              AddsAreSeen, Known, Seen, Listening
<1>2. CASE Next
  BY <1>2, AddSongStep, RefuseDuplicateStep, StoreSongStep, SubscribeStep, DidFinishStep,
     TransmitStep, ReceiveStep, LoseConnectionStep, RestartStep DEF Next
<1>. QED BY <1>1, <1>2

\* The strengthened invariant implies that there are no holes, at the server
\* and in the view of every device that listens.
LEMMA NoHolesFromInv == TypeOK /\ NoHolesInv => NoHoles
<1>. SUFFICES ASSUME TypeOK, NoHolesInv PROVE NoHoles
  OBVIOUS
<1>1. IsInitialSegment(DOMAIN server)
  BY SegmentIsInitial DEF NoHolesInv, ServerIsSegment
<1>2. ASSUME NEW d \in Devices, Listening(d)
      PROVE  IsInitialSegment(DOMAIN View(d))
  <2>1. DOMAIN View(d) = Seen(d)
    BY <1>2, ViewSlots DEF Seen
  <2>. QED BY <2>1, SeenIsSegment, SegmentIsInitial
<1>. QED BY <1>1, <1>2 DEF NoHoles

-----------------------------------------------------------------------------
(***************************************************************************)
(* The theorems.                                                           *)
(***************************************************************************)

\* The types and the inductive invariant hold always: between the read and the
\* write of every addSong, whatever is lost or sent again, the slots in use, and
\* those every device knows or has written, are 0, 1, ..., n - 1 for some n.
THEOREM NoHolesInvHolds == Spec => [](TypeOK /\ NoHolesInv)
<1>1. Init => TypeOK /\ NoHolesInv
  BY TypeInit, NoHolesInit
<1>2. TypeOK /\ NoHolesInv /\ [Next]_vars => (TypeOK /\ NoHolesInv)'
  BY TypeStep, NoHolesStep
<1>. QED BY <1>1, <1>2, PTL DEF Spec

\* Every variable of the datastore always holds values of its kind: what addSong
\* counts and reads is a number and a song, or no song.
THEOREM TypeCorrect == Spec => []TypeOK
BY NoHolesInvHolds, PTL

\* The queue of a party never has a hole, at the server or in what a subscribed
\* device sees: the slot addSong writes to is never beyond the end of the queue,
\* whatever other devices did since it was read.
THEOREM NoHolesHolds == Spec => []NoHoles
BY NoHolesInvHolds, NoHolesFromInv, PTL

-----------------------------------------------------------------------------
(***************************************************************************)
(* Sequences of writes whose marks follow songs.                           *)
(***************************************************************************)

\* More slots in use.
LEMMA MarksMono ==
  ASSUME NEW S, NEW T, S \subseteq T, NEW ws, MarksFollowSongs(S, ws)
  PROVE  MarksFollowSongs(T, ws)
BY DEF MarksFollowSongs

\* No writes.
LEMMA MarksEmpty ==
  ASSUME NEW S
  PROVE  MarksFollowSongs(S, << >>)
BY DEF MarksFollowSongs

\* A slot in use or written to has a song, or is written one.
LEMMA MarkedSlot ==
  ASSUME NEW S, NEW ws \in Seq(Write), MarksFollowSongs(S, ws),
         NEW i \in S \cup Slots(ws)
  PROVE  i \in S \/ \E j \in DOMAIN ws : ws[j].slot = i /\ ws[j].song # NoSong
<1>. SUFFICES ASSUME i \notin S
              PROVE  \E j \in DOMAIN ws : ws[j].slot = i /\ ws[j].song # NoSong
  OBVIOUS
<1>1. PICK k \in DOMAIN ws : ws[k].slot = i
  BY DEF Slots
<1>2. DOMAIN ws = 1..Len(ws) /\ Len(ws) \in Nat
  OBVIOUS
<1>3. CASE ws[k].song # NoSong
  BY <1>1, <1>3
<1>4. CASE ws[k].song = NoSong
  <2>1. PICK j \in 1..(k - 1) : ws[j].slot = i /\ ws[j].song # NoSong
    BY <1>1, <1>4 DEF MarksFollowSongs
  <2>2. j \in DOMAIN ws
    BY <1>2
  <2>. QED BY <2>1, <2>2
<1>. QED BY <1>3, <1>4

\* One write more: a song, or a mark in a slot in use or written to.
LEMMA MarksAppend ==
  ASSUME NEW S, NEW ws \in Seq(Write), MarksFollowSongs(S, ws), NEW w \in Write,
         w.song = NoSong => w.slot \in S \cup Slots(ws)
  PROVE  MarksFollowSongs(S, Append(ws, w))
<1>. DEFINE n == Len(ws)
            vs == Append(ws, w)
<1>1. /\ n \in Nat /\ DOMAIN ws = 1..n /\ DOMAIN vs = 1..(n + 1)
      /\ \A k \in 1..n : vs[k] = ws[k]
      /\ vs[n + 1] = w
  OBVIOUS
<1>. HIDE DEF n, vs
<1>. SUFFICES ASSUME NEW k \in DOMAIN vs, vs[k].song = NoSong, vs[k].slot \notin S
              PROVE  \E j \in 1..(k - 1) : vs[j].slot = vs[k].slot /\ vs[j].song # NoSong
  BY DEF MarksFollowSongs, vs
<1>2. CASE k \in 1..n
  <2>1. PICK j \in 1..(k - 1) : ws[j].slot = ws[k].slot /\ ws[j].song # NoSong
    BY <1>1, <1>2 DEF MarksFollowSongs
  <2>2. j \in 1..n
    BY <1>1, <1>2
  <2>. QED BY <1>1, <1>2, <2>1, <2>2
<1>3. CASE k = n + 1
  <2>1. w.slot \in Slots(ws) /\ w.slot \notin S
    BY <1>1, <1>3
  <2>2. PICK j \in DOMAIN ws : ws[j].slot = w.slot /\ ws[j].song # NoSong
    BY <2>1, MarkedSlot
  <2>3. j \in 1..(k - 1)
    BY <1>1, <1>3
  <2>. QED BY <1>1, <1>3, <2>2, <2>3
<1>. QED BY <1>1, <1>2, <1>3

\* The oldest write is done.
LEMMA MarksTail ==
  ASSUME NEW S, NEW ws \in Seq(Write), ws # << >>, MarksFollowSongs(S, ws)
  PROVE  /\ MarksFollowSongs(S \cup {Head(ws).slot}, Tail(ws))
         /\ Head(ws).song = NoSong => Head(ws).slot \in S
<1>1. /\ Head(ws) = ws[1] /\ 1 \in DOMAIN ws
      /\ Tail(ws) \in Seq(Write)
      /\ Len(Tail(ws)) = Len(ws) - 1
      /\ \A j \in 1..Len(Tail(ws)) : Tail(ws)[j] = ws[j + 1]
      /\ Len(ws) \in Nat /\ DOMAIN ws = 1..Len(ws) /\ DOMAIN Tail(ws) = 1..(Len(ws) - 1)
  BY HeadTailProperties
<1>2. Head(ws).song = NoSong => Head(ws).slot \in S
  <2>1. 1..(1 - 1) = {}
    OBVIOUS
  <2>. QED BY <1>1, <2>1 DEF MarksFollowSongs
<1>3. ASSUME NEW k \in DOMAIN Tail(ws), Tail(ws)[k].song = NoSong,
             Tail(ws)[k].slot \notin S \cup {Head(ws).slot}
      PROVE  \E j \in 1..(k - 1) :
                Tail(ws)[j].slot = Tail(ws)[k].slot /\ Tail(ws)[j].song # NoSong
  <2>1. k + 1 \in DOMAIN ws /\ Tail(ws)[k] = ws[k + 1]
    BY <1>1
  <2>2. PICK j \in 1..((k + 1) - 1) : ws[j].slot = ws[k + 1].slot /\ ws[j].song # NoSong
    BY <1>3, <2>1 DEF MarksFollowSongs
  <2>3. j # 1
    BY <1>1, <1>3, <2>1, <2>2
  <2>4. j - 1 \in 1..(k - 1) /\ j - 1 \in 1..Len(Tail(ws)) /\ (j - 1) + 1 = j
    BY <1>1, <2>3
  <2>5. Tail(ws)[j - 1] = ws[j]
    BY <1>1, <2>4
  <2>. QED BY <2>1, <2>2, <2>4, <2>5
<1>. QED BY <1>2, <1>3 DEF MarksFollowSongs

\* Writes sent again, to slots in use, before the others.
LEMMA MarksConcat ==
  ASSUME NEW S, NEW us \in Seq(Write), NEW ws \in Seq(Write), Slots(us) \subseteq S,
         MarksFollowSongs(S, ws)
  PROVE  MarksFollowSongs(S, us \o ws)
<1>. DEFINE m == Len(us)
            n == Len(ws)
            vs == us \o ws
<1>1. /\ m \in Nat /\ n \in Nat /\ DOMAIN us = 1..m /\ DOMAIN ws = 1..n
      /\ DOMAIN vs = 1..(m + n)
      /\ \A k \in 1..m : vs[k] = us[k]
      /\ \A k \in 1..n : vs[m + k] = ws[k]
  <2>1. vs \in Seq(Write) /\ Len(vs) = m + n
    BY ConcatProperties
  <2>2. DOMAIN vs = 1..(m + n)
    BY <2>1
  <2>. QED BY <2>2, ConcatProperties
<1>. HIDE DEF m, n, vs
<1>. SUFFICES ASSUME NEW k \in DOMAIN vs, vs[k].song = NoSong, vs[k].slot \notin S
              PROVE  \E j \in 1..(k - 1) : vs[j].slot = vs[k].slot /\ vs[j].song # NoSong
  BY DEF MarksFollowSongs, vs
<1>2. k \notin 1..m
  BY <1>1 DEF Slots
<1>3. PICK i \in 1..n : k = m + i
  <2>1. k - m \in 1..n /\ k = m + (k - m)
    BY <1>1, <1>2
  <2>. QED BY <2>1
<1>4. PICK j \in 1..(i - 1) : ws[j].slot = ws[i].slot /\ ws[j].song # NoSong
  BY <1>1, <1>3 DEF MarksFollowSongs
<1>5. j \in 1..n /\ m + j \in 1..(k - 1)
  BY <1>1, <1>3
<1>. QED BY <1>1, <1>3, <1>4, <1>5

-----------------------------------------------------------------------------
(***************************************************************************)
(* The writes of messages, and pending writes as they move on.             *)
(***************************************************************************)

LEMMA WritesSeq ==
  ASSUME NEW ms \in Seq(Message)
  PROVE  /\ Writes(ms) \in Seq(Write)
         /\ Len(Writes(ms)) = Len(ms)
         /\ \A k \in 1..Len(ms) : Writes(ms)[k] = ms[k].write
<1>1. \A k \in 1..Len(ms) : ms[k] \in Message
  OBVIOUS
<1>2. \A k \in 1..Len(ms) : ms[k].write \in Write
  BY <1>1 DEF Message
<1>3. DOMAIN ms = 1..Len(ms) /\ Len(ms) \in Nat
  OBVIOUS
<1>4. Writes(ms) = [k \in 1..Len(ms) |-> ms[k].write]
  BY <1>3 DEF Writes
<1>. QED BY <1>2, <1>3, <1>4

\* One message more.
LEMMA WritesAppend ==
  ASSUME NEW ms \in Seq(Message), NEW m \in Message
  PROVE  Writes(Append(ms, m)) = Append(Writes(ms), m.write)
<1>1. Append(ms, m) \in Seq(Message) /\ Len(Append(ms, m)) = Len(ms) + 1
  OBVIOUS
<1>2. \A k \in 1..Len(ms) : Append(ms, m)[k] = ms[k]
  OBVIOUS
<1>3. Append(ms, m)[Len(ms) + 1] = m
  OBVIOUS
<1>4. m.write \in Write
  BY DEF Message
<1>. DEFINE us == Writes(ms)
            vs == Append(us, m.write)
<1>5. us \in Seq(Write) /\ Len(us) = Len(ms) /\ \A k \in 1..Len(ms) : us[k] = ms[k].write
  BY WritesSeq
<1>. HIDE DEF us
<1>6. /\ vs \in Seq(Write) /\ Len(vs) = Len(us) + 1
      /\ \A k \in 1..Len(us) : vs[k] = us[k]
      /\ vs[Len(us) + 1] = m.write
  BY <1>4, <1>5
<1>. HIDE DEF vs
<1>7. /\ Writes(Append(ms, m)) \in Seq(Write)
      /\ Len(Writes(Append(ms, m))) = Len(ms) + 1
      /\ \A k \in 1..(Len(ms) + 1) : Writes(Append(ms, m))[k] = Append(ms, m)[k].write
  BY <1>1, WritesSeq
<1>8. \A k \in 1..(Len(ms) + 1) : Writes(Append(ms, m))[k] = vs[k]
  <2>. SUFFICES ASSUME NEW k \in 1..(Len(ms) + 1)
                PROVE  Append(ms, m)[k].write = vs[k]
    BY <1>7
  <2>1. CASE k \in 1..Len(ms)
    BY <1>2, <1>5, <1>6, <2>1
  <2>2. CASE k = Len(ms) + 1
    BY <1>3, <1>5, <1>6, <2>2
  <2>. QED BY <2>1, <2>2
<1>9. Len(vs) = Len(ms) + 1
  BY <1>5, <1>6
<1>10. Writes(Append(ms, m)) = vs
  BY <1>6, <1>7, <1>8, <1>9, SeqEqual
<1>. QED BY <1>10 DEF vs, us

\* The oldest message less.
LEMMA WritesTail ==
  ASSUME NEW ms \in Seq(Message), ms # << >>
  PROVE  /\ Writes(ms) # << >>
         /\ Head(Writes(ms)) = Head(ms).write
         /\ Tail(Writes(ms)) = Writes(Tail(ms))
<1>1. /\ Head(ms) = ms[1] /\ Len(ms) \in Nat /\ Len(ms) > 0
      /\ Tail(ms) \in Seq(Message)
      /\ Len(Tail(ms)) = Len(ms) - 1
      /\ \A j \in 1..Len(Tail(ms)) : Tail(ms)[j] = ms[j + 1]
  BY HeadTailProperties
<1>. DEFINE us == Writes(ms)
<1>2. us \in Seq(Write) /\ Len(us) = Len(ms) /\ \A k \in 1..Len(ms) : us[k] = ms[k].write
  BY WritesSeq
<1>. HIDE DEF us
<1>3. us # << >> /\ Head(us) = us[1]
  BY <1>1, <1>2
<1>4. /\ Tail(us) \in Seq(Write)
      /\ Len(Tail(us)) = Len(us) - 1
      /\ \A j \in 1..Len(Tail(us)) : Tail(us)[j] = us[j + 1]
  BY <1>2, <1>3, HeadTailProperties
<1>. DEFINE vs == Writes(Tail(ms))
<1>5. /\ vs \in Seq(Write) /\ Len(vs) = Len(Tail(ms))
      /\ \A k \in 1..Len(Tail(ms)) : vs[k] = Tail(ms)[k].write
  BY <1>1, WritesSeq
<1>. HIDE DEF vs
<1>6. Len(Tail(us)) = Len(vs)
  BY <1>1, <1>2, <1>4, <1>5
<1>7. \A k \in 1..Len(vs) : Tail(us)[k] = vs[k]
  <2>. SUFFICES ASSUME NEW k \in 1..Len(vs) PROVE Tail(us)[k] = vs[k]
    OBVIOUS
  <2>1. k \in 1..Len(Tail(us)) /\ k \in 1..Len(Tail(ms)) /\ k + 1 \in 1..Len(ms)
    <3>1. Len(Tail(ms)) \in Nat /\ Len(vs) = Len(ms) - 1
      BY <1>1, <1>5
    <3>. HIDE DEF us
    <3>. QED BY <1>1, <1>5, <1>6, <3>1
  <2>2. Tail(us)[k] = us[k + 1] /\ us[k + 1] = ms[k + 1].write
    BY <1>2, <1>4, <2>1
  <2>3. vs[k] = Tail(ms)[k].write /\ Tail(ms)[k] = ms[k + 1]
    BY <1>1, <1>5, <2>1
  <2>. QED BY <2>2, <2>3
<1>8. Tail(us) = vs
  BY <1>4, <1>5, <1>6, <1>7, SeqEqual
<1>9. Head(us) = Head(ms).write
  <2>1. 1 \in 1..Len(ms)
    BY <1>1
  <2>. QED BY <1>1, <1>2, <1>3, <2>1
<1>. QED BY <1>3, <1>8, <1>9 DEF us, vs

\* A sequence that is not empty is its head and its tail.
LEMMA HeadThenTail ==
  ASSUME NEW S, NEW s \in Seq(S), s # << >>
  PROVE  /\ Head(s) \in S /\ Tail(s) \in Seq(S)
         /\ << Head(s) >> \in Seq(S)
         /\ s = << Head(s) >> \o Tail(s)
<1>1. Head(s) \in S /\ Tail(s) \in Seq(S) /\ << Head(s) >> \in Seq(S)
  BY HeadTailProperties
<1>2. 1 \in 1..Len(s) /\ Len(s) \in 1..Len(s) /\ Head(s) = s[1]
  OBVIOUS
<1>3. SubSeq(s, 1, Len(s)) = << s[1] >> \o SubSeq(s, 1 + 1, Len(s))
  BY <1>2, SubSeqRecursiveFirst
<1>4. SubSeq(s, 1, Len(s)) = s
  BY SubSeqFull
<1>5. Tail(s) = SubSeq(s, 1 + 1, Len(s))
  BY TailIsSubSeq, 1 + 1 = 2
<1>. QED BY <1>1, <1>2, <1>3, <1>4, <1>5, Zenon

\* The head and the tail of a sequence put after one element.
LEMMA TailOfCons ==
  ASSUME NEW S, NEW e \in S, NEW s \in Seq(S)
  PROVE  /\ << e >> \o s # << >>
         /\ Head(<< e >> \o s) = e
         /\ Tail(<< e >> \o s) = s
<1>1. PICK xs \in Seq(S) : xs = << e >> \o s
  BY << e >> \in Seq(S), ConcatProperties
<1>2. Len(xs) = 1 + Len(s) /\ xs[1] = e
  <2>1. << e >> \in Seq(S) /\ Len(<< e >>) = 1 /\ << e >>[1] = e /\ Len(s) \in Nat
    OBVIOUS
  <2>2. 1 \in 1..(Len(<< e >>) + Len(s)) /\ 1 <= Len(<< e >>)
    BY <2>1
  <2>. QED BY <1>1, <2>1, <2>2, ConcatProperties
<1>3. xs # << >> /\ Head(xs) = e
  BY <1>2
<1>4. Tail(xs) \in Seq(S) /\ xs = << Head(xs) >> \o Tail(xs)
  BY <1>3, HeadThenTail
<1>5. << e >> \o s = << e >> \o Tail(xs)
  BY <1>1, <1>3, <1>4, Zenon
<1>6. << e >> \in Seq(S)
  OBVIOUS
<1>7. s = Tail(xs)
  BY <1>4, <1>5, <1>6, ConcatSimplifications
<1>. QED BY <1>1, <1>3, <1>7, Zenon

\* A write that is applied is pending as before.
LEMMA PendingApplied ==
  ASSUME NEW us \in Seq(Write), NEW ws \in Seq(Write), ws # << >>
  PROVE  Append(us, Head(ws)) \o Tail(ws) = us \o ws
<1>. DEFINE h == Head(ws)
            ts == Tail(ws)
<1>1. h \in Write /\ ts \in Seq(Write) /\ << h >> \in Seq(Write) /\ ws = << h >> \o ts
  BY HeadThenTail
<1>. HIDE DEF h, ts
<1>2. Append(us, h) = us \o << h >>
  BY <1>1, AppendIsConcat
<1>3. (us \o << h >>) \o ts = us \o (<< h >> \o ts)
  BY <1>1, ConcatAssociative
<1>4. Append(us, h) \o ts = us \o ws
  BY <1>1, <1>2, <1>3, Zenon
<1>. QED BY <1>4, Zenon DEF h, ts

\* A write that is acknowledged is the oldest one pending.
LEMMA PendingAcknowledged ==
  ASSUME NEW us \in Seq(Write), us # << >>, NEW ws \in Seq(Write)
  PROVE  /\ us \o ws # << >>
         /\ Head(us \o ws) = Head(us)
         /\ Tail(us \o ws) = Tail(us) \o ws
<1>. DEFINE h == Head(us)
            ts == Tail(us)
<1>1. h \in Write /\ ts \in Seq(Write) /\ << h >> \in Seq(Write) /\ us = << h >> \o ts
  BY HeadThenTail
<1>. HIDE DEF h, ts
<1>2. ts \o ws \in Seq(Write)
  BY <1>1, ConcatProperties
<1>3. (<< h >> \o ts) \o ws = << h >> \o (ts \o ws)
  BY <1>1, ConcatAssociative
<1>4. us \o ws = << h >> \o (ts \o ws)
  BY <1>1, <1>3, Zenon
<1>5. /\ << h >> \o (ts \o ws) # << >>
      /\ Head(<< h >> \o (ts \o ws)) = h
      /\ Tail(<< h >> \o (ts \o ws)) = ts \o ws
  BY <1>1, <1>2, TailOfCons
<1>. QED BY <1>4, <1>5, Zenon DEF h, ts

\* A new write is the last one pending.
LEMMA PendingWritten ==
  ASSUME NEW us \in Seq(Write), NEW ws \in Seq(Write), NEW w \in Write
  PROVE  us \o Append(ws, w) = Append(us \o ws, w)
<1>1. << w >> \in Seq(Write) /\ us \o ws \in Seq(Write)
  BY ConcatProperties
<1>2. Append(ws, w) = ws \o << w >>
  BY AppendIsConcat
<1>3. Append(us \o ws, w) = (us \o ws) \o << w >>
  BY <1>1, AppendIsConcat
<1>4. (us \o ws) \o << w >> = us \o (ws \o << w >>)
  BY <1>1, ConcatAssociative
<1>. QED BY <1>2, <1>3, <1>4, Zenon

-----------------------------------------------------------------------------
(***************************************************************************)
(* Queues in which every child has a song.                                 *)
(***************************************************************************)

\* A queue with one write more.
LEMMA PutSongs ==
  ASSUME NEW q, AllSongs(q), NEW w \in Write, w.song = NoSong => w.slot \in DOMAIN q
  PROVE  AllSongs(Put(q, w))
<1>. SUFFICES ASSUME NEW i \in DOMAIN q \cup {w.slot}
              PROVE  Put(q, w)[i].song # NoSong
  BY DEF AllSongs, Put
<1>1. CASE i # w.slot
  <2>1. Put(q, w)[i] = q[i] /\ i \in DOMAIN q
    BY <1>1 DEF Put
  <2>. QED BY <2>1 DEF AllSongs
<1>2. CASE i = w.slot /\ w.song # NoSong
  <2>1. Put(q, w)[i] = Fresh(w.song)
    BY <1>2 DEF Put
  <2>. QED BY <1>2, <2>1 DEF Fresh
<1>3. CASE i = w.slot /\ w.song = NoSong
  <2>1. Put(q, w)[i].song = q[i].song
    BY <1>3 DEF Put
  <2>. QED BY <1>3, <2>1 DEF AllSongs
<1>. QED BY <1>1, <1>2, <1>3

\* A queue seen under pending writes: the song of a slot is the last one written
\* to it, or the queue's own.
LEMMA OverlaySongs ==
  ASSUME NEW q, AllSongs(q), IsQueue(q), NEW ws \in Seq(Write),
         MarksFollowSongs(DOMAIN q, ws)
  PROVE  AllSongs(Overlay(q, ws))
<1>. SUFFICES ASSUME NEW i \in DOMAIN q \cup Slots(ws)
              PROVE  Overlay(q, ws)[i].song # NoSong
  BY DEF AllSongs, Overlay
<1>. DEFINE T == {k \in DOMAIN ws : ws[k].slot = i /\ ws[k].song # NoSong}
            last == LastSongWrite(ws, i)
<1>1. DOMAIN ws = 1..Len(ws) /\ Len(ws) \in Nat
  OBVIOUS
<1>2. last \in {0} \cup T /\ \A y \in {0} \cup T : y <= last
  <2>1. {0} \cup T \subseteq Nat /\ \A y \in {0} \cup T : y <= Len(ws)
    BY <1>1
  <2>2. last = Max({0} \cup T)
    BY DEF LastSongWrite
  <2>. HIDE DEF T, last
  <2>. QED BY <1>1, <2>1, <2>2, MaxOfBounded
<1>3. Overlay(q, ws)[i].song
        = (IF last > 0 THEN Fresh(ws[last].song)
           ELSE IF i \in DOMAIN q THEN q[i] ELSE Fresh(NoSong)).song
  BY Zenon DEF Overlay
<1>4. last = 0 => i \in DOMAIN q
  <2>. SUFFICES ASSUME last = 0, i \notin DOMAIN q PROVE FALSE
    OBVIOUS
  <2>1. PICK j \in DOMAIN ws : ws[j].slot = i /\ ws[j].song # NoSong
    BY MarkedSlot
  <2>2. j \in T /\ j > 0
    BY <1>1, <2>1
  <2>. HIDE DEF T, last
  <2>. QED BY <1>1, <1>2, <2>2
<1>. HIDE DEF last
<1>5. CASE last \in T
  <2>1. last > 0 /\ ws[last].song # NoSong
    BY <1>1, <1>5
  <2>. QED BY <1>3, <2>1 DEF Fresh
<1>6. CASE last = 0
  <2>1. ~(last > 0) /\ i \in DOMAIN q
    BY <1>4, <1>6
  <2>. QED BY <1>3, <2>1 DEF AllSongs
<1>. HIDE DEF T
<1>. QED BY <1>2, <1>5, <1>6

\* The song that addSong reads at the end of a queue that is not empty.
LEMMA LastHasSong ==
  ASSUME NEW q, IsQueue(q), IsSegment(DOMAIN q), AllSongs(q), ArrayCount(q) > 0
  PROVE  LastURL(q) # NoSong
<1>1. ArrayCount(q) \in Nat /\ DOMAIN q = 0..(ArrayCount(q) - 1)
  BY CountOfSegment
<1>2. IsArray(q) /\ ArrayCount(q) = Max(DOMAIN q) + 1
  BY DEF ArrayCount
<1>3. Max(DOMAIN q) \in DOMAIN q
  <2>1. DOMAIN q # {} /\ DOMAIN q \subseteq Nat
    BY <1>2 DEF IsArray, IsQueue
  <2>2. \A y \in DOMAIN q : y <= ArrayCount(q)
    BY <1>1
  <2>. QED BY <1>1, <2>1, <2>2, MaxOfBounded
<1>4. DOMAIN q = 0..Max(DOMAIN q)
  <2>1. Max(DOMAIN q) \in Nat
    BY <1>3 DEF IsQueue
  <2>. QED BY <1>1, <1>2, <2>1
<1>5. ~HasHole(q)
  BY <1>4 DEF HasHole
<1>6. LastURL(q) = q[Max(DOMAIN q)].song
  BY <1>2, <1>5 DEF LastURL
<1>. QED BY <1>3, <1>6 DEF AllSongs

-----------------------------------------------------------------------------
(***************************************************************************)
(* What each action does to the songs and marks under way.                 *)
(***************************************************************************)

\* Every read gives songs alone.
LEMMA ReadSongs ==
  ASSUME TypeOK, NoHolesInv, CastsInv, NEW d \in Devices
  PROVE  AllSongs(ReadQueue(d))
<1>1. /\ IsQueue(server) /\ IsQueue(cache[d])
      /\ unacked[d] \in Seq(Write) /\ outbox[d] \in Seq(Write)
  BY DEF TypeOK, DBTypeOK
<1>2. Pending(d) \in Seq(Write)
  BY <1>1, ConcatProperties DEF Pending
<1>3. CASE Listening(d)
  <2>1. AllSongs(cache[d]) /\ MarksFollowSongs(DOMAIN cache[d], Pending(d))
    BY <1>3 DEF CastsInv, SongsCome, SongsShow
  <2>. QED BY <1>1, <1>2, <1>3, <2>1, OverlaySongs DEF ReadQueue, View
<1>4. CASE ~Listening(d)
  <2>1. AllSongs(server) /\ MarksFollowSongs(DOMAIN server, outbox[d])
    BY DEF CastsInv, SongsSent
  <2>2. Slots(unacked[d]) \subseteq DOMAIN server
    BY DEF NoHolesInv, WritesFillUp
  <2>3. MarksFollowSongs(DOMAIN server, Pending(d))
    BY <1>1, <2>1, <2>2, MarksConcat DEF Pending
  <2>. QED BY <1>1, <1>2, <1>4, <2>1, <2>3, OverlaySongs DEF ReadQueue
<1>. QED BY <1>3, <1>4

\* The answer to a read of addSong can be cast.
LEMMA ReadCasts ==
  ASSUME TypeOK, NoHolesInv, CastsInv, NEW d \in Devices
  PROVE  ArrayCount(ReadQueue(d)) > 0 => LastURL(ReadQueue(d)) # NoSong
BY ReadSlots, SeenIsSegment, ReadSongs, LastHasSong

\* A device writes a song, or marks a slot that it shows.
LEMMA SetValueSongs ==
  ASSUME TypeOK, NoHolesInv, CastsInv, NEW d \in Devices, NEW w \in Write, SetValue(d, w),
         w.song = NoSong => Listening(d) /\ w.slot \in DOMAIN View(d)
  PROVE  SongsSent' /\ SongsCome' /\ SongsShow'
<1>1. /\ outbox' = [outbox EXCEPT ![d] = Append(outbox[d], w)]
      /\ server' = server /\ cache' = cache /\ inbox' = inbox
      /\ unacked' = unacked /\ observers' = observers
  BY DEF SetValue
<1>2. /\ outbox[d] \in Seq(Write) /\ unacked[d] \in Seq(Write)
      /\ outbox'[d] = Append(outbox[d], w)
      /\ \A e \in Devices : e # d => outbox'[e] = outbox[e]
  BY <1>1 DEF TypeOK, DBTypeOK
<1>3. w.song = NoSong => w.slot \in Known(d) \cup Slots(outbox[d])
  BY ViewSlots
<1>4. SongsSent'
  <2>1. w.song = NoSong => w.slot \in DOMAIN server \cup Slots(outbox[d])
    BY <1>3, SeenIsSegment
  <2>2. MarksFollowSongs(DOMAIN server, outbox[d])
    BY DEF CastsInv, SongsSent
  <2>3. MarksFollowSongs(DOMAIN server, outbox'[d])
    BY <1>2, <2>1, <2>2, MarksAppend
  <2>. QED BY <1>1, <1>2, <2>3 DEF CastsInv, SongsSent
<1>5. SongsCome'
  BY <1>1 DEF CastsInv, SongsCome, Listening
<1>6. SongsShow'
  <2>. SUFFICES ASSUME NEW e \in Devices, Listening(e)
                PROVE  MarksFollowSongs(DOMAIN cache[e], Pending(e)')
    BY <1>1 DEF SongsShow, Listening
  <2>1. CASE e # d
    <3>1. Pending(e)' = Pending(e)
      BY <1>1, <1>2, <2>1 DEF Pending
    <3>. QED BY <3>1 DEF CastsInv, SongsShow
  <2>2. CASE e = d
    <3>1. Pending(d)' = Append(Pending(d), w)
      <4>1. Pending(d)' = unacked[d] \o Append(outbox[d], w)
        BY <1>1, <1>2 DEF Pending
      <4>. QED BY <1>2, <4>1, PendingWritten DEF Pending
    <3>2. /\ Pending(d) \in Seq(Write)
          /\ Slots(Pending(d)) = Slots(unacked[d]) \cup Slots(outbox[d])
      BY <1>2, SlotsToConcat DEF Pending
    <3>3. w.song = NoSong => w.slot \in DOMAIN cache[d] \cup Slots(Pending(d))
      BY <1>3, <3>2 DEF Known
    <3>4. MarksFollowSongs(DOMAIN cache[d], Pending(d))
      BY <2>2 DEF CastsInv, SongsShow
    <3>5. MarksFollowSongs(DOMAIN cache[d], Append(Pending(d), w))
      BY <3>2, <3>3, <3>4, MarksAppend
    <3>. QED BY <2>2, <3>1, <3>5
  <2>. QED BY <2>1, <2>2
<1>. QED BY <1>4, <1>5, <1>6

\* When the callback of an add has run, the casts of the others still succeed.
LEMMA OldCastsSucceed ==
  ASSUME TypeOK, CastsSucceed, NEW d \in Devices, adding[d] # << >>,
         adding' = [adding EXCEPT ![d] = Tail(@)]
  PROVE  CastsSucceed'
<1>. SUFFICES ASSUME NEW e \in Devices, NEW k \in DOMAIN adding'[e]
              PROVE  ~CastFails(adding'[e][k])
  BY DEF CastsSucceed
<1>1. CASE e # d
  <2>1. adding'[e] = adding[e]
    BY <1>1 DEF TypeOK
  <2>. QED BY <2>1 DEF CastsSucceed
<1>2. CASE e = d
  <2>1. adding[d] \in Seq(Add) /\ adding'[d] = Tail(adding[d])
    BY DEF TypeOK
  <2>2. /\ Tail(adding[d]) \in Seq(Add)
        /\ Len(Tail(adding[d])) = Len(adding[d]) - 1
        /\ \A j \in 1..Len(Tail(adding[d])) : Tail(adding[d])[j] = adding[d][j + 1]
    BY <2>1, HeadTailProperties
  <2>3. k + 1 \in DOMAIN adding[d] /\ Tail(adding[d])[k] = adding[d][k + 1]
    <3>1. k \in DOMAIN Tail(adding[d])
      BY <1>2, <2>1
    <3>. QED BY <2>1, <2>2, <3>1
  <2>. QED BY <1>2, <2>1, <2>3 DEF CastsSucceed
<1>. QED BY <1>1, <1>2

\* addSong reads the queue.
LEMMA AddSongSongs ==
  ASSUME TypeOK, NoHolesInv, CastsInv, NEW d \in Devices, NEW s \in Songs, AddSong(d, s)
  PROVE  CastsInv'
<1>. DEFINE add == [song |-> s, size |-> ArrayCount(ReadQueue(d)),
                    last |-> LastURL(ReadQueue(d))]
<1>1. /\ UNCHANGED dbVars
      /\ adding' = [adding EXCEPT ![d] = Append(adding[d], add)]
  BY DEF AddSong
<1>2. SongsSent' /\ SongsCome' /\ SongsShow'
  BY <1>1 DEF dbVars, CastsInv, SongsSent, SongsCome, SongsShow, Listening, Pending
<1>3. CastsSucceed'
  <2>. SUFFICES ASSUME NEW e \in Devices, NEW k \in DOMAIN adding'[e]
                PROVE  ~CastFails(adding'[e][k])
    BY DEF CastsSucceed
  <2>1. ~CastFails(add)
    BY ReadCasts DEF CastFails
  <2>. HIDE DEF add
  <2>2. CASE e # d
    <3>1. adding'[e] = adding[e]
      BY <1>1, <2>2 DEF TypeOK
    <3>. QED BY <3>1 DEF CastsInv, CastsSucceed
  <2>3. CASE e = d
    <3>1. adding'[d] = Append(adding[d], add) /\ adding[d] \in Seq(Add)
      BY <1>1 DEF TypeOK
    <3>2. \/ k \in DOMAIN adding[d] /\ adding'[d][k] = adding[d][k]
          \/ adding'[d][k] = add
      BY <2>3, <3>1
    <3>. QED BY <2>1, <2>3, <3>2 DEF CastsInv, CastsSucceed
  <2>. QED BY <2>2, <2>3
<1>. QED BY <1>2, <1>3 DEF CastsInv

\* The callback of addSong refuses a duplicate.
LEMMA RefuseDuplicateSongs ==
  ASSUME TypeOK, CastsInv, NEW d \in Devices, RefuseDuplicate(d)
  PROVE  CastsInv'
<1>1. SongsSent' /\ SongsCome' /\ SongsShow'
  BY DEF RefuseDuplicate, dbVars, CastsInv, SongsSent, SongsCome, SongsShow, Listening, Pending
<1>2. CastsSucceed'
  BY OldCastsSucceed DEF RefuseDuplicate, CastsInv
<1>. QED BY <1>1, <1>2 DEF CastsInv

\* The callback of addSong writes the song.
LEMMA StoreSongSongs ==
  ASSUME TypeOK, NoHolesInv, CastsInv, NEW d \in Devices, StoreSong(d)
  PROVE  CastsInv'
<1>. DEFINE add == Head(adding[d])
            w == SongWrite(add)
<1>1. adding[d] \in Seq(Add) /\ adding[d] # << >> /\ SetValue(d, w)
  BY DEF StoreSong, TypeOK
<1>2. add \in Add
  BY <1>1
<1>. HIDE DEF add
<1>3. w \in Write /\ w.song # NoSong
  BY <1>2, TypesAssumption DEF Add, Write, SongWrite, SongAt, MaybeSongs
<1>. HIDE DEF w
<1>4. SongsSent' /\ SongsCome' /\ SongsShow'
  BY <1>1, <1>3, SetValueSongs
<1>5. CastsSucceed'
  BY <1>1, OldCastsSucceed DEF StoreSong, CastsInv
<1>. QED BY <1>4, <1>5 DEF CastsInv

\* A device marks a song that it sees as played.
LEMMA DidFinishSongs ==
  ASSUME TypeOK, NoHolesInv, CastsInv, NEW d \in Devices, NEW i \in DOMAIN View(d),
         Listening(d), DidFinish(d, i)
  PROVE  CastsInv'
<1>1. i \in Nat
  BY ViewSlots DEF IsQueue
<1>2. PlayedAt(i) \in Write /\ PlayedAt(i).slot = i
  BY <1>1 DEF PlayedAt, Write, MaybeSongs
<1>3. SongsSent' /\ SongsCome' /\ SongsShow'
  BY <1>2, SetValueSongs DEF DidFinish
<1>4. CastsSucceed'
  BY DEF DidFinish, CastsInv, CastsSucceed
<1>. QED BY <1>3, <1>4 DEF CastsInv

\* A device that did not listen subscribes: what it has not sent follows songs at
\* the server.
LEMMA SubscribeSongs ==
  ASSUME TypeOK, CastsInv, NEW d \in Devices, ~Listening(d), SubscribeToUpdates(d)
  PROVE  CastsInv'
<1>1. /\ cache' = [cache EXCEPT ![d] = server]
      /\ inbox' = [inbox EXCEPT ![d] = << >>]
      /\ unacked' = [unacked EXCEPT ![d] = << >>]
      /\ observers' = [observers EXCEPT ![d] = @ + 1]
      /\ server' = server /\ outbox' = outbox /\ adding' = adding
  BY DEF SubscribeToUpdates, Observe
<1>2. /\ cache'[d] = server /\ inbox'[d] = << >> /\ unacked'[d] = << >>
      /\ outbox[d] \in Seq(Write)
      /\ \A e \in Devices : e # d => /\ cache'[e] = cache[e] /\ inbox'[e] = inbox[e]
                                     /\ unacked'[e] = unacked[e]
                                     /\ observers'[e] = observers[e]
  BY <1>1 DEF TypeOK, DBTypeOK
<1>3. SongsSent' /\ CastsSucceed'
  BY <1>1 DEF CastsInv, SongsSent, CastsSucceed
<1>4. SongsCome'
  <2>. SUFFICES ASSUME NEW e \in Devices, Listening(e)'
                PROVE  /\ AllSongs(cache'[e])
                       /\ MarksFollowSongs(DOMAIN cache'[e], Writes(inbox'[e]))
                       /\ DOMAIN server = DOMAIN cache'[e] \cup Slots(Writes(inbox'[e]))
    BY <1>1 DEF SongsCome
  <2>1. CASE e # d
    BY <1>2, <2>1 DEF CastsInv, SongsCome, Listening
  <2>2. CASE e = d
    <3>1. Writes(<< >>) = << >>
      BY DEF Writes
    <3>2. Slots(<< >>) = {}
      BY DEF Slots
    <3>3. AllSongs(server)
      BY DEF CastsInv, SongsSent
    <3>. QED BY <1>2, <2>2, <3>1, <3>2, <3>3, MarksEmpty
  <2>. QED BY <2>1, <2>2
<1>5. SongsShow'
  <2>. SUFFICES ASSUME NEW e \in Devices, Listening(e)'
                PROVE  MarksFollowSongs(DOMAIN cache'[e], Pending(e)')
    BY DEF SongsShow
  <2>1. CASE e # d
    BY <1>1, <1>2, <2>1 DEF CastsInv, SongsShow, Listening, Pending
  <2>2. CASE e = d
    <3>1. Pending(d)' = outbox[d]
      BY <1>1, <1>2, ConcatEmptySeq DEF Pending
    <3>. QED BY <1>2, <2>2, <3>1 DEF CastsInv, SongsSent
  <2>. QED BY <2>1, <2>2
<1>. QED BY <1>3, <1>4, <1>5 DEF CastsInv

\* The server applies a write: a mark is in a slot with a song.
LEMMA TransmitSongs ==
  ASSUME TypeOK, CastsInv, NEW d \in Devices, Transmit(d)
  PROVE  CastsInv'
<1>. DEFINE w == Head(outbox[d])
            i == w.slot
            note(e) == [write |-> w, own |-> e = d]
<1>1. /\ outbox[d] # << >>
      /\ server' = Put(server, w)
      /\ unacked' = [unacked EXCEPT ![d] = Append(unacked[d], w)]
      /\ inbox' = [e \in Devices |-> IF e = d \/ Listening(e)
                                     THEN Append(inbox[e], note(e)) ELSE inbox[e]]
      /\ outbox' = [outbox EXCEPT ![d] = Tail(outbox[d])]
      /\ cache' = cache /\ observers' = observers /\ adding' = adding
  BY DEF Transmit, ServerApply
<1>2. /\ IsQueue(server)
      /\ \A e \in Devices : /\ outbox[e] \in Seq(Write) /\ unacked[e] \in Seq(Write)
                            /\ inbox[e] \in Seq(Message)
  BY DEF TypeOK, DBTypeOK
<1>3. w \in Write
  BY <1>1, <1>2
<1>4. /\ MarksFollowSongs(DOMAIN server \cup {i}, Tail(outbox[d]))
      /\ w.song = NoSong => i \in DOMAIN server
  <2>1. MarksFollowSongs(DOMAIN server, outbox[d])
    BY DEF CastsInv, SongsSent
  <2>. QED BY <1>1, <1>2, <2>1, MarksTail
<1>5. /\ outbox'[d] = Tail(outbox[d]) /\ unacked'[d] = Append(unacked[d], w)
      /\ \A e \in Devices : e # d => outbox'[e] = outbox[e] /\ unacked'[e] = unacked[e]
      /\ \A e \in Devices : Listening(e) => inbox'[e] = Append(inbox[e], note(e))
      /\ \A e \in Devices : Listening(e)' = Listening(e)
  <2>. HIDE DEF w, note
  <2>. QED BY <1>1 DEF TypeOK, DBTypeOK, Listening
<1>6. Append(unacked[d], w) \o Tail(outbox[d]) = unacked[d] \o outbox[d]
  BY <1>1, <1>2, PendingApplied
<1>7. \A e \in Devices : note(e) \in Message /\ note(e).write = w
  <2>. HIDE DEF w
  <2>. QED BY <1>3 DEF Message
<1>. HIDE DEF w, note
<1>8. DOMAIN server' = DOMAIN server \cup {i} /\ AllSongs(server')
  BY <1>1, <1>2, <1>3, <1>4, PutQueue, PutSongs DEF CastsInv, SongsSent
<1>. HIDE DEF i
<1>9. SongsSent'
  <2>. SUFFICES ASSUME NEW e \in Devices
                PROVE  MarksFollowSongs(DOMAIN server \cup {i}, outbox'[e])
    BY <1>8 DEF SongsSent
  <2>1. CASE e = d
    BY <1>4, <1>5, <2>1
  <2>2. CASE e # d
    <3>1. MarksFollowSongs(DOMAIN server, outbox[e])
      BY DEF CastsInv, SongsSent
    <3>. QED BY <1>5, <2>2, <3>1, MarksMono
  <2>. QED BY <2>1, <2>2
<1>10. SongsCome'
  <2>. SUFFICES ASSUME NEW e \in Devices, Listening(e)
                PROVE  /\ AllSongs(cache[e])
                       /\ MarksFollowSongs(DOMAIN cache[e], Writes(inbox'[e]))
                       /\ DOMAIN server \cup {i} = DOMAIN cache[e] \cup Slots(Writes(inbox'[e]))
    BY <1>1, <1>5, <1>8 DEF SongsCome
  <2>1. /\ AllSongs(cache[e])
        /\ MarksFollowSongs(DOMAIN cache[e], Writes(inbox[e]))
        /\ DOMAIN server = DOMAIN cache[e] \cup Slots(Writes(inbox[e]))
    BY DEF CastsInv, SongsCome
  <2>2. Writes(inbox'[e]) = Append(Writes(inbox[e]), w) /\ Writes(inbox[e]) \in Seq(Write)
    <3>1. Writes(Append(inbox[e], note(e))) = Append(Writes(inbox[e]), note(e).write)
      BY <1>2, <1>7, WritesAppend
    <3>2. Writes(inbox[e]) \in Seq(Write)
      BY <1>2, WritesSeq
    <3>. QED BY <1>5, <1>7, <3>1, <3>2
  <2>3. Slots(Append(Writes(inbox[e]), w)) = Slots(Writes(inbox[e])) \cup {i}
    BY <1>3, <2>2, SlotsToAppend DEF i
  <2>4. w.song = NoSong => w.slot \in DOMAIN cache[e] \cup Slots(Writes(inbox[e]))
    BY <1>4, <2>1 DEF i
  <2>5. MarksFollowSongs(DOMAIN cache[e], Append(Writes(inbox[e]), w))
    BY <1>3, <2>1, <2>2, <2>4, MarksAppend
  <2>. QED BY <2>1, <2>2, <2>3, <2>5
<1>11. SongsShow'
  <2>. SUFFICES ASSUME NEW e \in Devices, Listening(e)
                PROVE  MarksFollowSongs(DOMAIN cache[e], Pending(e)')
    BY <1>1, <1>5 DEF SongsShow
  <2>1. Pending(e)' = Pending(e)
    <3>1. CASE e = d
      BY <1>5, <1>6, <3>1 DEF Pending
    <3>2. CASE e # d
      BY <1>5, <3>2 DEF Pending
    <3>. QED BY <3>1, <3>2
  <2>. QED BY <2>1 DEF CastsInv, SongsShow
<1>12. CastsSucceed'
  BY <1>1 DEF CastsInv, CastsSucceed
<1>. QED BY <1>9, <1>10, <1>11, <1>12 DEF CastsInv

\* A device receives a message: a mark in it is in a slot with a song.
LEMMA ReceiveSongs ==
  ASSUME TypeOK, CastsInv, NEW d \in Devices, Receive(d)
  PROVE  CastsInv'
<1>. DEFINE m == Head(inbox[d])
            w == m.write
            i == w.slot
<1>1. /\ inbox[d] # << >>
      /\ m.own => unacked[d] # << >> /\ Head(unacked[d]) = m.write
      /\ cache' = [cache EXCEPT ![d] =
                     IF Listening(d) THEN Put(cache[d], w) ELSE cache[d]]
      /\ unacked' = [unacked EXCEPT ![d] = IF m.own THEN Tail(unacked[d]) ELSE unacked[d]]
      /\ inbox' = [inbox EXCEPT ![d] = Tail(inbox[d])]
      /\ server' = server /\ outbox' = outbox /\ observers' = observers
      /\ adding' = adding
  BY DEF Receive, Deliver
<1>2. /\ IsQueue(cache[d]) /\ unacked[d] \in Seq(Write) /\ outbox[d] \in Seq(Write)
      /\ inbox[d] \in Seq(Message)
  BY DEF TypeOK, DBTypeOK
<1>3. m \in Message
  BY <1>1, <1>2
<1>4. w \in Write
  <2>. HIDE DEF m
  <2>. QED BY <1>3 DEF Message
<1>5. /\ cache'[d] = (IF Listening(d) THEN Put(cache[d], w) ELSE cache[d])
      /\ unacked'[d] = (IF m.own THEN Tail(unacked[d]) ELSE unacked[d])
      /\ inbox'[d] = Tail(inbox[d])
      /\ \A e \in Devices : e # d => /\ cache'[e] = cache[e] /\ inbox'[e] = inbox[e]
                                     /\ unacked'[e] = unacked[e]
      /\ \A e \in Devices : Listening(e)' = Listening(e)
  <2>. HIDE DEF m
  <2>. QED BY <1>1 DEF TypeOK, DBTypeOK, Listening
<1>6. /\ Writes(inbox[d]) \in Seq(Write) /\ Writes(inbox[d]) # << >>
      /\ Head(Writes(inbox[d])) = w
      /\ Tail(Writes(inbox[d])) = Writes(Tail(inbox[d]))
  BY <1>1, <1>2, WritesSeq, WritesTail
<1>7. {i} \cup Slots(Writes(Tail(inbox[d]))) = Slots(Writes(inbox[d]))
  <2>. HIDE DEF m
  <2>1. {Head(Writes(inbox[d])).slot} \cup Slots(Tail(Writes(inbox[d])))
          = Slots(Writes(inbox[d]))
    BY <1>6, SlotsToTail
  <2>. QED BY <1>6, <2>1
<1>8. m.own => /\ Pending(d) # << >> /\ Head(Pending(d)) = w
               /\ Pending(d)' = Tail(Pending(d))
  <2>. SUFFICES ASSUME m.own
                PROVE  /\ Pending(d) # << >> /\ Head(Pending(d)) = w
                       /\ Pending(d)' = Tail(Pending(d))
    OBVIOUS
  <2>1. unacked[d] # << >> /\ Head(unacked[d]) = w /\ unacked'[d] = Tail(unacked[d])
    BY <1>1, <1>5
  <2>2. /\ unacked[d] \o outbox[d] # << >>
        /\ Head(unacked[d] \o outbox[d]) = Head(unacked[d])
        /\ Tail(unacked[d] \o outbox[d]) = Tail(unacked[d]) \o outbox[d]
    BY <1>2, <2>1, PendingAcknowledged
  <2>. HIDE DEF m, w
  <2>. QED BY <1>1, <2>1, <2>2 DEF Pending
<1>9. ~m.own => Pending(d)' = Pending(d)
  <2>. HIDE DEF m
  <2>. QED BY <1>1, <1>5 DEF Pending
<1>. HIDE DEF m, w
<1>10. Listening(d) => /\ MarksFollowSongs(DOMAIN cache[d] \cup {i}, Writes(Tail(inbox[d])))
                       /\ w.song = NoSong => i \in DOMAIN cache[d]
  <2>. SUFFICES ASSUME Listening(d)
                PROVE  /\ MarksFollowSongs(DOMAIN cache[d] \cup {i}, Writes(Tail(inbox[d])))
                       /\ w.song = NoSong => i \in DOMAIN cache[d]
    OBVIOUS
  <2>1. MarksFollowSongs(DOMAIN cache[d], Writes(inbox[d]))
    BY DEF CastsInv, SongsCome
  <2>2. /\ MarksFollowSongs(DOMAIN cache[d] \cup {Head(Writes(inbox[d])).slot},
                            Tail(Writes(inbox[d])))
        /\ Head(Writes(inbox[d])).song = NoSong
             => Head(Writes(inbox[d])).slot \in DOMAIN cache[d]
    BY <1>6, <2>1, MarksTail
  <2>. QED BY <1>6, <2>2
<1>11. Listening(d) => /\ DOMAIN cache'[d] = DOMAIN cache[d] \cup {i}
                       /\ AllSongs(cache'[d])
  <2>. SUFFICES ASSUME Listening(d)
                PROVE  /\ DOMAIN cache'[d] = DOMAIN cache[d] \cup {i}
                       /\ AllSongs(cache'[d])
    OBVIOUS
  <2>1. cache'[d] = Put(cache[d], w) /\ AllSongs(cache[d])
    BY <1>5 DEF CastsInv, SongsCome
  <2>2. DOMAIN Put(cache[d], w) = DOMAIN cache[d] \cup {i}
    BY <1>2, <1>4, PutQueue
  <2>3. AllSongs(Put(cache[d], w))
    BY <1>4, <1>10, <2>1, PutSongs
  <2>. QED BY <2>1, <2>2, <2>3
<1>12. SongsSent' /\ CastsSucceed'
  BY <1>1 DEF CastsInv, SongsSent, CastsSucceed
<1>13. SongsCome'
  <2>. SUFFICES ASSUME NEW e \in Devices, Listening(e)
                PROVE  /\ AllSongs(cache'[e])
                       /\ MarksFollowSongs(DOMAIN cache'[e], Writes(inbox'[e]))
                       /\ DOMAIN server = DOMAIN cache'[e] \cup Slots(Writes(inbox'[e]))
    BY <1>1, <1>5 DEF SongsCome
  <2>1. /\ AllSongs(cache[e])
        /\ MarksFollowSongs(DOMAIN cache[e], Writes(inbox[e]))
        /\ DOMAIN server = DOMAIN cache[e] \cup Slots(Writes(inbox[e]))
    BY DEF CastsInv, SongsCome
  <2>2. CASE e # d
    BY <1>5, <2>1, <2>2
  <2>3. CASE e = d
    <3>1. DOMAIN server = (DOMAIN cache[d] \cup {i}) \cup Slots(Writes(Tail(inbox[d])))
      BY <1>7, <2>1, <2>3
    <3>. QED BY <1>5, <1>10, <1>11, <2>3, <3>1
  <2>. QED BY <2>2, <2>3
<1>14. SongsShow'
  <2>. SUFFICES ASSUME NEW e \in Devices, Listening(e)
                PROVE  MarksFollowSongs(DOMAIN cache'[e], Pending(e)')
    BY <1>1, <1>5 DEF SongsShow
  <2>1. MarksFollowSongs(DOMAIN cache[e], Pending(e))
    BY DEF CastsInv, SongsShow
  <2>2. CASE e # d
    BY <1>1, <1>5, <2>1, <2>2 DEF Pending
  <2>3. CASE e = d /\ m.own
    <3>1. Pending(d) \in Seq(Write)
      BY <1>2, ConcatProperties DEF Pending
    <3>2. MarksFollowSongs(DOMAIN cache[d] \cup {Head(Pending(d)).slot}, Tail(Pending(d)))
      BY <1>8, <2>1, <2>3, <3>1, MarksTail
    <3>. QED BY <1>8, <1>11, <2>3, <3>2
  <2>4. CASE e = d /\ ~m.own
    <3>1. DOMAIN cache[d] \subseteq DOMAIN cache'[d]
      BY <1>11, <2>4
    <3>. QED BY <1>9, <2>1, <2>4, <3>1, MarksMono
  <2>. QED BY <2>2, <2>3, <2>4
<1>. QED BY <1>12, <1>13, <1>14 DEF CastsInv

\* A device reconnects: what it sends again are writes to slots in use.
LEMMA LoseConnectionSongs ==
  ASSUME TypeOK, NoHolesInv, CastsInv, NEW d \in Devices, LoseConnection(d)
  PROVE  CastsInv'
<1>1. /\ cache' = [cache EXCEPT ![d] = IF Listening(d) THEN server ELSE cache[d]]
      /\ inbox' = [inbox EXCEPT ![d] = << >>]
      /\ outbox' = [outbox EXCEPT ![d] = Pending(d)]
      /\ unacked' = [unacked EXCEPT ![d] = << >>]
      /\ server' = server /\ observers' = observers /\ adding' = adding
  BY DEF LoseConnection, Reconnect
<1>2. unacked[d] \in Seq(Write) /\ outbox[d] \in Seq(Write)
  BY DEF TypeOK, DBTypeOK
<1>3. /\ cache'[d] = (IF Listening(d) THEN server ELSE cache[d])
      /\ inbox'[d] = << >> /\ unacked'[d] = << >> /\ outbox'[d] = Pending(d)
      /\ \A e \in Devices : e # d => /\ cache'[e] = cache[e] /\ inbox'[e] = inbox[e]
                                     /\ unacked'[e] = unacked[e] /\ outbox'[e] = outbox[e]
      /\ \A e \in Devices : Listening(e)' = Listening(e)
  BY <1>1 DEF TypeOK, DBTypeOK, Listening
<1>4. MarksFollowSongs(DOMAIN server, Pending(d))
  <2>1. Slots(unacked[d]) \subseteq DOMAIN server
    BY DEF NoHolesInv, WritesFillUp
  <2>2. MarksFollowSongs(DOMAIN server, outbox[d])
    BY DEF CastsInv, SongsSent
  <2>. QED BY <1>2, <2>1, <2>2, MarksConcat DEF Pending
<1>5. SongsSent' /\ CastsSucceed'
  <2>1. CastsSucceed'
    BY <1>1 DEF CastsInv, CastsSucceed
  <2>2. \A e \in Devices : MarksFollowSongs(DOMAIN server, outbox'[e])
    BY <1>3, <1>4 DEF CastsInv, SongsSent
  <2>. QED BY <1>1, <2>1, <2>2 DEF CastsInv, SongsSent
<1>6. SongsCome'
  <2>. SUFFICES ASSUME NEW e \in Devices, Listening(e)
                PROVE  /\ AllSongs(cache'[e])
                       /\ MarksFollowSongs(DOMAIN cache'[e], Writes(inbox'[e]))
                       /\ DOMAIN server = DOMAIN cache'[e] \cup Slots(Writes(inbox'[e]))
    BY <1>1, <1>3 DEF SongsCome
  <2>1. CASE e # d
    BY <1>3, <2>1 DEF CastsInv, SongsCome
  <2>2. CASE e = d
    <3>1. Writes(<< >>) = << >>
      BY DEF Writes
    <3>2. Slots(<< >>) = {}
      BY DEF Slots
    <3>3. AllSongs(server)
      BY DEF CastsInv, SongsSent
    <3>. QED BY <1>3, <2>2, <3>1, <3>2, <3>3, MarksEmpty
  <2>. QED BY <2>1, <2>2
<1>7. SongsShow'
  <2>. SUFFICES ASSUME NEW e \in Devices, Listening(e)
                PROVE  MarksFollowSongs(DOMAIN cache'[e], Pending(e)')
    BY <1>1, <1>3 DEF SongsShow
  <2>1. CASE e # d
    BY <1>3, <2>1 DEF CastsInv, SongsShow, Pending
  <2>2. CASE e = d
    <3>1. Pending(d)' = << >> \o Pending(d)
      BY <1>3 DEF Pending
    <3>2. << >> \o Pending(d) = Pending(d)
      BY <1>2, ConcatProperties, ConcatEmptySeq DEF Pending
    <3>. QED BY <1>3, <1>4, <2>2, <3>1, <3>2
  <2>. QED BY <2>1, <2>2
<1>. QED BY <1>5, <1>6, <1>7 DEF CastsInv

\* The app of a device dies.
LEMMA RestartSongs ==
  ASSUME TypeOK, CastsInv, NEW d \in Devices, Restart(d)
  PROVE  CastsInv'
<1>1. /\ cache' = [cache EXCEPT ![d] = EmptyQueue]
      /\ inbox' = [inbox EXCEPT ![d] = << >>]
      /\ outbox' = [outbox EXCEPT ![d] = << >>]
      /\ unacked' = [unacked EXCEPT ![d] = << >>]
      /\ observers' = [observers EXCEPT ![d] = 0]
      /\ server' = server
      /\ adding' = [adding EXCEPT ![d] = << >>]
  BY DEF Restart, AppDies, Forget
<1>2. /\ outbox'[d] = << >> /\ observers'[d] = 0 /\ adding'[d] = << >>
      /\ \A e \in Devices : e # d =>
            /\ cache'[e] = cache[e] /\ inbox'[e] = inbox[e] /\ outbox'[e] = outbox[e]
            /\ unacked'[e] = unacked[e] /\ observers'[e] = observers[e]
            /\ adding'[e] = adding[e]
  BY <1>1 DEF TypeOK, DBTypeOK
<1>3. ~Listening(d)' /\ \A e \in Devices : e # d => Listening(e)' = Listening(e)
  BY <1>2 DEF Listening
<1>4. SongsSent'
  <2>1. \A e \in Devices : MarksFollowSongs(DOMAIN server, outbox'[e])
    BY <1>2, MarksEmpty DEF CastsInv, SongsSent
  <2>. QED BY <1>1, <2>1 DEF CastsInv, SongsSent
<1>5. SongsCome' /\ SongsShow'
  BY <1>1, <1>2, <1>3 DEF CastsInv, SongsCome, SongsShow, Pending
<1>6. CastsSucceed'
  BY <1>2 DEF CastsInv, CastsSucceed
<1>. QED BY <1>4, <1>5, <1>6 DEF CastsInv

-----------------------------------------------------------------------------
\* Nothing is under way at the start.
LEMMA CastsInit == Init => CastsInv
<1>. SUFFICES ASSUME Init PROVE CastsInv
  OBVIOUS
<1>1. /\ server = EmptyQueue
      /\ \A d \in Devices : ~Listening(d) /\ outbox[d] = << >> /\ adding[d] = << >>
  BY DEF Init, DBInit, Listening
<1>2. AllSongs(EmptyQueue)
  BY DEF AllSongs, EmptyQueue
<1>. QED BY <1>1, <1>2, MarksEmpty
         DEF CastsInv, SongsSent, SongsCome, SongsShow, CastsSucceed

\* Every step keeps the marks behind their songs.
LEMMA CastsStep == TypeOK /\ NoHolesInv /\ CastsInv /\ [Next]_vars => CastsInv'
<1>. SUFFICES ASSUME TypeOK, NoHolesInv, CastsInv, [Next]_vars PROVE CastsInv'
  OBVIOUS
<1>1. CASE UNCHANGED vars
  BY <1>1 DEF vars, dbVars, CastsInv, SongsSent, SongsCome, SongsShow, CastsSucceed,
              Listening, Pending
<1>2. CASE Next
  BY <1>2, AddSongSongs, RefuseDuplicateSongs, StoreSongSongs, SubscribeSongs,
     DidFinishSongs, TransmitSongs, ReceiveSongs, LoseConnectionSongs, RestartSongs DEF Next
<1>. QED BY <1>1, <1>2

-----------------------------------------------------------------------------
(***************************************************************************)
(* The theorems.                                                           *)
(***************************************************************************)

\* In every slot the first write is a song, in what each device sends, is sent
\* and shows: a "played" never comes to a slot before the song it marks.
THEOREM CastsInvHolds == Spec => []CastsInv
<1>1. Init => CastsInv
  BY CastsInit
<1>2. TypeOK /\ NoHolesInv /\ CastsInv /\ [Next]_vars => CastsInv'
  BY CastsStep
<1>. QED BY <1>1, <1>2, NoHolesInvHolds, PTL DEF Spec

\* "as! Array" and "as! String" in addSong never fail, so the app never dies of
\* the answer to a read, whatever is added, marked, lost or sent again meanwhile.
THEOREM CastsSucceedHolds == Spec => []CastsSucceed
<1>1. CastsInv => CastsSucceed
  BY DEF CastsInv
<1>. QED BY <1>1, CastsInvHolds, PTL

=============================================================================

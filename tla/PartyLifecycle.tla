---------------------------- MODULE PartyLifecycle ----------------------------
(***************************************************************************)
(* How parties begin and end: creating one under an unused ID, joining one *)
(* by its code or a link, closing it, and coming back to it from the       *)
(* session stored on the phone.  What happens inside of a party is the     *)
(* subject of PartyPlayer; here a party is what createNewParty writes of   *)
(* it, and whether there are songs in its queue.                           *)
(*                                                                         *)
(* The database client sends reads and writes in the order in which they   *)
(* are made.  After a lost connection it sends all that is unanswered      *)
(* again, the reads first and in any order; a read shows the device's own  *)
(* writes, whether the server has them or not.                             *)
(***************************************************************************)
EXTENDS Integers, Sequences, SequencesExt

CONSTANTS
    Devices,        \* the phones
    IDs,            \* party IDs: six random characters
    NoSession,      \* no party: nothing stored, or nothing shown
    MaxRequests,    \* bound: requests that wait when a device makes one more
    MaxAsks,        \* bound: taps and links that ask for a party, all devices together
    MaxFaults       \* bound: lost connections and restarts, all devices together

Session == [partyID : IDs, type : {"host", "attendee"}]

ASSUME LifecycleAssumption ==
    /\ NoSession \notin Session
    /\ MaxRequests \in Nat \ {0} /\ MaxAsks \in Nat /\ MaxFaults \in Nat

VARIABLES
    fields,         \* fields[id]: what the server has of the party
    filled,         \* the parties with songs in their queue at the server
    requests,       \* requests[d]: what d has sent and the server not handled
    answers,        \* answers[d]: what the server has answered and d not handled
    screen,         \* screen[d]: what d shows
    shown,          \* shown[d]: the party of the player that is shown
    loaded,         \* loaded[d]: that player has read its party
    session,        \* session[d]: the party stored on the phone
    asks,           \* taps and links that asked for a party so far
    faults,         \* lost connections and restarts so far
    cut,            \* the parties whose creation an app's death cut short, kept
                    \*   for the properties
    drawnTwice      \* the IDs drawn again before the server knew of them, kept for
                    \*   the properties

lifecycleVars ==
    <<fields, filled, requests, answers, screen, shown, loaded, session, asks, faults,
      cut, drawnTwice>>
serverVars == <<fields, filled>>
history == <<cut, drawnTwice>>

PartyFields == {"host", "streamingProvider"}
WriteKinds == PartyFields \cup {"queue", "song"}
AskKinds == {"generatePartyID", "joinParty"}
ReadKinds == AskKinds \cup {"load"}

Requests == [kind : WriteKinds \cup ReadKinds, id : IDs]
Answers == [kind : WriteKinds \cup ReadKinds, id : IDs, found : SUBSET PartyFields]

Request(kind, id) == [kind |-> kind, id |-> id]
IsRead(r) == r.kind \in ReadKinds
Unsent(d) == answers[d] \o requests[d]

Complete(found) == PartyFields \subseteq found

\* What a read of a party gives to device d.
FieldsAtServer(d, id) == fields[id]                                 \* a mutant
Fields(d, id) ==
    fields[id] \cup {k \in PartyFields :
                        \E i \in DOMAIN requests[d] : requests[d][i] = Request(k, id)}

-----------------------------------------------------------------------------
Init ==
    /\ fields = [id \in IDs |-> {}] /\ filled = {}
    /\ requests = [d \in Devices |-> << >>]
    /\ answers = [d \in Devices |-> << >>]
    /\ screen = [d \in Devices |-> "launching"]
    /\ shown = [d \in Devices |-> NoSession]
    /\ loaded = [d \in Devices |-> FALSE]
    /\ session = [d \in Devices |-> NoSession]
    /\ asks = 0 /\ faults = 0 /\ cut = {} /\ drawnTwice = {}

Send(d, rs) == requests' = [requests EXCEPT ![d] = @ \o rs]

\* What device e has drawn, writes, hosts or has joined.
HeldBy(e) ==
    {r.id : r \in Range(Unsent(e))}
        \cup (IF session[e] = NoSession THEN {} ELSE {session[e].partyID})

\* generatePartyID: randomString may give any ID, also one that somebody else, or
\* the device itself, has drawn and the server does not know of.
GeneratePartyID(d) ==
    \E id \in IDs :
        /\ Send(d, <<Request("generatePartyID", id)>>)
        /\ drawnTwice' = IF fields[id] = {} /\ \E e \in Devices : id \in HeldBy(e)
                         THEN drawnTwice \cup {id} ELSE drawnTwice

\* Nothing keeps a user from asking while a party is shown or another request is
\* under way, by tapping twice or by a link.
Ask(d) ==
    /\ Len(Unsent(d)) < MaxRequests
    /\ asks < MaxAsks /\ asks' = asks + 1

\* The codes that can be read from a screen, or sent as a link.
ShownCodes == {shown[e].partyID : e \in {e \in Devices : loaded[e]}}

\* didTapSpotify and didTapAppleMusic: createNewParty, generatePartyID.
TapCreate(d) ==
    /\ screen[d] = "menu" /\ Ask(d)
    /\ GeneratePartyID(d)
    /\ UNCHANGED <<serverVars, answers, screen, shown, loaded, session, faults, cut>>

\* A code is typed.
TapJoin(d) ==
    /\ screen[d] = "menu" /\ Ask(d)
    /\ \E id \in ShownCodes : Send(d, <<Request("joinParty", id)>>)
    /\ UNCHANGED <<serverVars, answers, screen, shown, loaded, session, faults, history>>

\* A mixed:// link is opened: a new menu is the root of the app.
OpenLink(d) ==
    /\ Ask(d)
    /\ \E id \in ShownCodes : Send(d, <<Request("joinParty", id)>>)
    /\ screen' = [screen EXCEPT ![d] = "launching"]
    /\ shown' = [shown EXCEPT ![d] = NoSession]
    /\ loaded' = [loaded EXCEPT ![d] = FALSE]
    /\ UNCHANGED <<serverVars, answers, session, faults, history>>

\* The player is shown, and reads its party.  requests are those already made.
LoadedAtOnce(d, party, sent) ==                                     \* a mutant
    /\ screen' = [screen EXCEPT ![d] = "player"]
    /\ shown' = [shown EXCEPT ![d] = party]
    /\ loaded' = [loaded EXCEPT ![d] = TRUE]
    /\ Send(d, sent)

OpenPlayer(d, party, sent) ==
    /\ screen' = [screen EXCEPT ![d] = "player"]
    /\ shown' = [shown EXCEPT ![d] = party]
    /\ loaded' = [loaded EXCEPT ![d] = FALSE]
    /\ Send(d, sent \o <<Request("load", party.partyID)>>)

\* setActiveSession and the segue, which only a menu that is shown can perform.
EnterParty(d, party, sent) ==
    /\ session' = [session EXCEPT ![d] = party]
    /\ IF screen[d] = "menu"
       THEN OpenPlayer(d, party, sent)
       ELSE Send(d, sent) /\ UNCHANGED <<screen, shown, loaded>>

-----------------------------------------------------------------------------
(***************************************************************************)
(* The answers device d handles, oldest first.                             *)
(***************************************************************************)
Answered(d, kind) ==
    /\ answers[d] # << >>
    /\ Head(answers[d]).kind = kind
    /\ answers' = [answers EXCEPT ![d] = Tail(@)]

NeverUsed(found) == FALSE                                           \* a mutant
IsUsed(found) == found # {}

\* generatePartyID: the ID is used, and another one is drawn.
DrawAgain(d) ==
    /\ Answered(d, "generatePartyID")
    /\ IsUsed(Head(answers[d]).found)
    /\ GeneratePartyID(d)
    /\ UNCHANGED <<serverVars, screen, shown, loaded, session, asks, faults, cut>>

\* createNewParty: three writes, none of which is waited for, and the callback.
\* The queue is set to [], which the database takes as none.
CreateNewParty(d) ==
    /\ Answered(d, "generatePartyID")
    /\ LET id == Head(answers[d]).id
       IN /\ ~IsUsed(Head(answers[d]).found)
          /\ EnterParty(d, [partyID |-> id, type |-> "host"],
                        <<Request("host", id), Request("streamingProvider", id),
                          Request("queue", id)>>)
    /\ UNCHANGED <<serverVars, asks, faults, history>>

\* joinParty, from the code or the link: found, and not found.
JoinParty(d) ==
    /\ Answered(d, "joinParty")
    /\ Complete(Head(answers[d]).found)
    /\ EnterParty(d, [partyID |-> Head(answers[d]).id, type |-> "attendee"], << >>)
    /\ UNCHANGED <<serverVars, asks, faults, history>>

NoPartyFound(d) ==
    /\ Answered(d, "joinParty")
    /\ ~Complete(Head(answers[d]).found)
    /\ UNCHANGED <<serverVars, requests, screen, shown, loaded, session, asks, faults, history>>

\* viewDidAppear of the player: its party is read.  The player may be gone, and
\* an answer without a party leaves the player empty.
PartyIsRead(d) ==
    /\ Answered(d, "load")
    /\ LET read == Head(answers[d])
       IN loaded' = [loaded EXCEPT ![d] =
              @ \/ /\ screen[d] = "player" /\ shown[d].partyID = read.id
                   /\ Complete(read.found)]
    /\ UNCHANGED <<serverVars, requests, screen, shown, session, asks, faults, history>>

\* A write is acknowledged.
Acknowledged(d) ==
    /\ \E kind \in WriteKinds : Answered(d, kind)
    /\ UNCHANGED <<serverVars, requests, screen, shown, loaded, session, asks, faults, history>>

-----------------------------------------------------------------------------
\* viewDidAppear of the menu: a session is resumed, when it is not too old, else
\* cleared.
ResumeSession(d) ==
    /\ screen[d] = "launching" /\ session[d] # NoSession
    /\ OpenPlayer(d, session[d], << >>)
    /\ UNCHANGED <<serverVars, answers, session, asks, faults, history>>

ShowMenu(d) ==
    /\ screen[d] = "launching"
    /\ screen' = [screen EXCEPT ![d] = "menu"]
    /\ session' = [session EXCEPT ![d] = NoSession]
    /\ UNCHANGED <<serverVars, requests, answers, shown, loaded, asks, faults, history>>

\* A song is added to the party that is shown.
AddSong(d) ==
    /\ screen[d] = "player" /\ loaded[d]
    /\ Len(Unsent(d)) < MaxRequests
    /\ Send(d, <<Request("song", shown[d].partyID)>>)
    /\ UNCHANGED <<serverVars, answers, screen, shown, loaded, session, asks, faults, history>>

\* didTapClose.  Nothing is taken from the database.
CloseKeepsSession(d) ==                                             \* a mutant
    /\ screen[d] = "player"
    /\ screen' = [screen EXCEPT ![d] = "menu"]
    /\ shown' = [shown EXCEPT ![d] = NoSession]
    /\ loaded' = [loaded EXCEPT ![d] = FALSE]
    /\ UNCHANGED <<serverVars, requests, answers, session, asks, faults, history>>

CloseKeepsLoaded(d) ==                                              \* a mutant
    /\ screen[d] = "player"
    /\ screen' = [screen EXCEPT ![d] = "menu"]
    /\ shown' = [shown EXCEPT ![d] = NoSession]
    /\ session' = [session EXCEPT ![d] = NoSession]
    /\ UNCHANGED <<serverVars, requests, answers, loaded, asks, faults, history>>

TapClose(d) ==
    /\ screen[d] = "player"
    /\ screen' = [screen EXCEPT ![d] = "menu"]
    /\ shown' = [shown EXCEPT ![d] = NoSession]
    /\ loaded' = [loaded EXCEPT ![d] = FALSE]
    /\ session' = [session EXCEPT ![d] = NoSession]
    /\ UNCHANGED <<serverVars, requests, answers, asks, faults, history>>

\* The app dies, and is started again: only the session is left.  What was sent
\* may have reached the server; here it has not.
AppDies(d) ==
    /\ requests' = [requests EXCEPT ![d] = << >>]
    /\ answers' = [answers EXCEPT ![d] = << >>]
    /\ screen' = [screen EXCEPT ![d] = "launching"]
    /\ shown' = [shown EXCEPT ![d] = NoSession]
    /\ loaded' = [loaded EXCEPT ![d] = FALSE]
    /\ cut' = cut \cup {r.id : r \in {r \in Range(requests[d]) : r.kind \in PartyFields}}
    /\ UNCHANGED <<serverVars, session, asks, drawnTwice>>

Restart(d) ==
    /\ faults < MaxFaults
    /\ faults' = faults + 1
    /\ AppDies(d)

\* The search is opened before the party is read: it has no party, and traps.
SearchTooEarly(d) ==
    /\ screen[d] = "player" /\ ~loaded[d]
    /\ AppDies(d)
    /\ UNCHANGED faults

-----------------------------------------------------------------------------
\* The server handles the oldest request of d.
Serve(d) ==
    /\ requests[d] # << >>
    /\ LET r == Head(requests[d])
       IN /\ fields' = [fields EXCEPT ![r.id] =
                           IF r.kind \in PartyFields THEN @ \cup {r.kind} ELSE @]
          /\ filled' = CASE r.kind = "song" -> filled \cup {r.id}
                         [] r.kind = "queue" -> filled \ {r.id}
                         [] OTHER -> filled
          /\ answers' = [answers EXCEPT ![d] =
                 Append(@, [kind |-> r.kind, id |-> r.id,
                            found |-> IF IsRead(r) THEN Fields(d, r.id) ELSE {}])]
    /\ requests' = [requests EXCEPT ![d] = Tail(@)]
    /\ UNCHANGED <<screen, shown, loaded, session, asks, faults, history>>

\* What the client may send again: the reads in any order, then the writes in
\* theirs.
Reads(sent) == {i \in DOMAIN sent : IsRead(sent[i])}
Places(sent) == Injection(Reads(sent), 1..Cardinality(Reads(sent)))
Place(sent, reads, i) ==
    IF i \in Reads(sent) THEN reads[i] ELSE i + Cardinality({j \in Reads(sent) : j > i})

Again(sent) ==
    {[k \in DOMAIN sent |->
        LET i == CHOOSE i \in DOMAIN sent : Place(sent, reads, i) = k
        IN Request(sent[i].kind, sent[i].id)] : reads \in Places(sent)}

\* The connection of d is lost and comes back.
LoseConnection(d) ==
    /\ faults < MaxFaults
    /\ faults' = faults + 1
    /\ \E sent \in Again(Unsent(d)) : requests' = [requests EXCEPT ![d] = sent]
    /\ answers' = [answers EXCEPT ![d] = << >>]
    /\ UNCHANGED <<serverVars, screen, shown, loaded, session, asks, history>>

HandleAnswer(d) ==
    \/ DrawAgain(d) \/ CreateNewParty(d) \/ JoinParty(d) \/ NoPartyFound(d)
    \/ PartyIsRead(d) \/ Acknowledged(d)

Next ==
    \E d \in Devices :
        \/ TapCreate(d) \/ TapJoin(d) \/ OpenLink(d)
        \/ HandleAnswer(d) \/ Serve(d)
        \/ ResumeSession(d) \/ ShowMenu(d)
        \/ AddSong(d) \/ TapClose(d)
        \/ Restart(d) \/ SearchTooEarly(d) \/ LoseConnection(d)

(***************************************************************************)
(* Requests reach the server in the end, and answers are handled.          *)
(***************************************************************************)
Fairness == \A d \in Devices : WF_lifecycleVars(Serve(d)) /\ WF_lifecycleVars(HandleAnswer(d))

Spec == Init /\ [][Next]_lifecycleVars /\ Fairness

-----------------------------------------------------------------------------
(***************************************************************************)
(* Every variable holds values of its kind, and only a player that is      *)
(* shown has a party.                                                      *)
(***************************************************************************)
LifecycleTypeOK ==
    /\ fields \in [IDs -> SUBSET PartyFields]
    /\ filled \subseteq IDs /\ cut \subseteq IDs /\ drawnTwice \subseteq IDs
    /\ requests \in [Devices -> Seq(Requests)] /\ answers \in [Devices -> Seq(Answers)]
    /\ screen \in [Devices -> {"launching", "menu", "player"}]
    /\ shown \in [Devices -> Session \cup {NoSession}]
    /\ loaded \in [Devices -> BOOLEAN]
    /\ session \in [Devices -> Session \cup {NoSession}]
    /\ \A d \in Devices : (shown[d] # NoSession) <=> (screen[d] = "player")
    /\ \A d \in Devices : loaded[d] => screen[d] = "player"
    /\ asks \in 0..MaxAsks /\ faults \in 0..MaxFaults

(***************************************************************************)
(* testJoinParty: whoever has created or joined a party finds it, with all *)
(* that joinParty needs of it, when the player reads it, be it before the  *)
(* server has the writes, after a lost connection, or in a session resumed *)
(* later.  Excepted are parties whose creator's app died before it had     *)
(* sent them.                                                              *)
(***************************************************************************)
PartyIsFound ==
    \A d \in Devices : \A a \in Range(answers[d]) :
        a.kind = "load" => Complete(a.found) \/ a.id \in cut

(***************************************************************************)
(* Why it is found.  The party of the session, or of a player that is to   *)
(* read it, is complete in the eyes of its device, at the server or in the *)
(* writes on their way there; and what a device was answered it still      *)
(* sees, until its app dies with the writes.                               *)
(***************************************************************************)
IsThere(d, id) == Complete(Fields(d, id)) \/ id \in cut

PartiesAreThere ==
    \A d \in Devices :
        /\ session[d] # NoSession => IsThere(d, session[d].partyID)
        /\ \A r \in Range(Unsent(d)) : r.kind = "load" => IsThere(d, r.id)
        /\ \A a \in Range(answers[d]) : IsRead(a) => a.found \subseteq Fields(d, a.id)

(***************************************************************************)
(* What the next launch resumes.  While a player is shown a session is     *)
(* stored, so that the end of the app loses no party; in the menu none is, *)
(* so that a party that was left is not resumed.  This holds also when a   *)
(* user taps twice or opens a link while another party is on its way or    *)
(* shown, and the answers come after the screen has changed.  The session  *)
(* may then be of a later party than the one shown.                        *)
(***************************************************************************)
SessionIsKept ==
    \A d \in Devices :
        /\ screen[d] = "player" => session[d] # NoSession
        /\ screen[d] = "menu" => session[d] = NoSession

(***************************************************************************)
(* When two devices can host the same party: only when its ID was drawn    *)
(* again before the first write of whoever drew it first had reached the   *)
(* server.  All other IDs are hosted once, whatever order, loss or second  *)
(* sending the reads and writes of createNewParty meet.                    *)
(***************************************************************************)
OneHostPerParty ==
    \A d, e \in Devices :
        d # e /\ session[d] # NoSession /\ session[d] = session[e]
            => session[d].type = "attendee" \/ session[d].partyID \in drawnTwice

(***************************************************************************)
(* Why they do not.  A device claims an ID that it has drawn, writes or    *)
(* hosts, and wins it with the answer that nobody uses it.  While the      *)
(* server knows nothing of an ID that was drawn once, one device at most   *)
(* claims it, and no such ID is won twice.                                 *)
(***************************************************************************)
CreationKinds == PartyFields \cup {"generatePartyID", "queue"}
HostOf(id) == [partyID |-> id, type |-> "host"]

Claims(d, id) ==
    \/ session[d] = HostOf(id)
    \/ \E r \in Range(Unsent(d)) : r.kind \in CreationKinds /\ r.id = id

Won(d, id) ==
    \/ session[d] = HostOf(id)
    \/ \E a \in Range(answers[d]) :
          a.kind = "generatePartyID" /\ a.id = id /\ ~IsUsed(a.found)

IDsAreApart ==
    \A d, e \in Devices : \A id \in IDs \ drawnTwice : d # e =>
        /\ fields[id] = {} => ~(Claims(d, id) /\ Claims(e, id))
        /\ ~(Won(d, id) /\ Won(e, id))

(***************************************************************************)
(* A new party's empty queue, written last and not waited for, wipes out   *)
(* no song of somebody who joined, as long as no connection is lost and    *)
(* the ID was not drawn again before the server knew of it.                *)
(***************************************************************************)
SongsStay == [][faults = 0 => filled \subseteq filled' \cup drawnTwice]_lifecycleVars

(***************************************************************************)
(* A code that is shown can be joined in the end, though the player may    *)
(* show it before the server has the party.                                *)
(***************************************************************************)
ShownCodesWork ==
    \A d \in Devices : \A id \in IDs :
        loaded[d] /\ shown[d].partyID = id ~> Complete(fields[id]) \/ ~loaded[d]

=============================================================================

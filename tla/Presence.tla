------------------------------ MODULE Presence ------------------------------
(***************************************************************************)
(* Who is online, as Me's page shows it: the hub's 'presence' events, the  *)
(* server's handler that awaits two stores before it pushes them           *)
(* (backend/src/server.js), and the page that hears pushes and asks GET    *)
(* /presence (frontend contexts/chat-context.tsx).  Everybody is in a      *)
(* conversation with Me.                                                   *)
(***************************************************************************)
EXTENDS Inbox, FiniteSetsExt, SequencesExt

CONSTANTS MaxMoves, MaxOpens  \* bounds: how often the others come and go, and
                              \* how often a conversation is opened

ASSUME MovesAssumption == MaxMoves \in Nat /\ MaxOpens \in Nat

VARIABLES
    handlers,  \* the onPresence handlers that wait for the stores
    queue,     \* the pushes on their way to the page
    asks,      \* the page's GETs /presence
    met,       \* whether the page has rendered the conversations' members
    shown,     \* presence: what the page has been told of the others
    moves, opens,
    since,     \* history: how often each came or went
    heard,     \* history: the latest of it that was shown,
    lost,      \* history: and the latest of which news was lost
    belated    \* history: who is shown as older news says, over newer news

toldVars == <<shown, heard, belated>>
presenceVars == <<handlers, queue, asks, met, toldVars, moves, opens, since, lost>>

PresenceTypeOK ==
    /\ InboxTypeOK
    /\ \A i \in DOMAIN handlers : handlers[i] \in
         [type : {"presence"}, who : Others, online : BOOLEAN, at : 1..MaxMoves]
    /\ \A i \in DOMAIN asks : asks[i].online \subseteq Others
    /\ met \in BOOLEAN
    /\ shown \in [Others -> {"unknown", "online", "offline"}]
    /\ heard \in [Others -> 0..MaxMoves] /\ lost \in [Others -> 0..MaxMoves]
    /\ belated \in SUBSET Others
    /\ \A u \in Users : at[u] => room[u]
    /\ \A u \in Users : sub[u] => at[u]

PresenceInit ==
    /\ InboxInit
    /\ handlers = <<>> /\ queue = <<>> /\ asks = <<>>
    /\ met = FALSE
    /\ shown = [u \in Others |-> "unknown"]
    /\ moves = 0 /\ opens = 0
    /\ since = [u \in Others |-> 0] /\ heard = since /\ lost = since /\ belated = {}

(***************************************************************************)
(* The hub's events, and the handler of each.                              *)
(***************************************************************************)
\* bind(): roomCreated and peerJoined each say online, peerLeft says offline.
\* Pushes about Me go to others: those handlers are of no concern here.
Emits(u, created) ==
    LET news == [type |-> "presence", who |-> u, online |-> ~at[u], at |-> since[u] + 1] IN
    /\ since' = [since EXCEPT ![u] = @ + 1]
    /\ handlers' = handlers \o (IF created THEN <<news, news>> ELSE <<news>>)

Move(u) ==
    /\ moves < MaxMoves /\ moves' = moves + 1
    /\ OtherJoins(u) \/ OtherLeaves(u)
    /\ Emits(u, ~room[u])
    /\ UNCHANGED <<queue, asks, met, toldVars, opens, lost>>

Empties(u) == RoomCloses(u) /\ UNCHANGED presenceVars

\* The handler has what it awaited, in whatever order the disk answers, and
\* pushes to contacts and conversation peers.
Loses(events) == lost' = [u \in Others |-> Max({lost[u]} \cup
    {events[i].at : i \in {j \in DOMAIN events : events[j].type = "presence" /\ events[j].who = u}})]

Notify(i) ==
    /\ handlers' = RemoveAt(handlers, i)
    /\ IF Reaches THEN queue' = Append(queue, handlers[i]) /\ UNCHANGED lost
                  ELSE Loses(<<handlers[i]>>) /\ UNCHANGED queue
    /\ UNCHANGED <<inboxVars, asks, met, toldVars, moves, opens, since>>

(***************************************************************************)
(* The page.                                                               *)
(***************************************************************************)
Told(online) == IF online THEN "online" ELSE "offline"

Latest(m, n) == IF m > n THEN m ELSE n

\* Mutant: whoever is heard of is online.
HearOnline(who, online, when) ==
    /\ shown' = [shown EXCEPT ![who] = "online"]
    /\ heard' = [heard EXCEPT ![who] = Latest(@, when)]
    /\ belated' = IF when < heard[who] THEN belated \cup {who} ELSE belated \ {who}

\* set-presence, of one user
Hear(who, online, when) ==
    /\ shown' = [shown EXCEPT ![who] = Told(online)]
    /\ heard' = [heard EXCEPT ![who] = Latest(@, when)]
    /\ belated' = IF when < heard[who] THEN belated \cup {who} ELSE belated \ {who}

ReceivePresence ==
    /\ queue # <<>> /\ Head(queue).type = "presence"
    /\ queue' = Tail(queue)
    /\ Hear(Head(queue).who, Head(queue).online, Head(queue).at)
    /\ UNCHANGED <<inboxVars, handlers, asks, met, moves, opens, since, lost>>

\* refreshPresence() asks about the members it has rendered: none, when the list
\* of conversations has just come for the first time.
NewAsk == [answered |-> FALSE, online |-> {}, at |-> [u \in Others |-> 0]]
refreshPresence == IF met THEN Append(asks, NewAsk) ELSE asks

\* loadConversations, at the sign-in and after a drop.  Its answer is rendered.
ListLoaded == asks' = refreshPresence /\ met' = TRUE

\* open(), of a conversation in the list
OpenConversation ==
    /\ page # "out" /\ met /\ opens < MaxOpens
    /\ opens' = opens + 1
    /\ asks' = refreshPresence
    /\ UNCHANGED <<inboxVars, handlers, queue, met, toldVars, moves, since, lost>>

\* GET /presence
AnswerPresence(i) ==
    /\ ~asks[i].answered
    /\ asks' = [asks EXCEPT ![i] =
         [answered |-> TRUE, online |-> {u \in Others : isOnline(u)}, at |-> since]]
    /\ UNCHANGED <<inboxVars, handlers, queue, met, toldVars, moves, opens, since, lost>>

\* The answer says how things were when it was made: it makes up for news lost
\* before, and comes too late after newer news.
Refreshed(i) ==
    /\ asks[i].answered
    /\ asks' = RemoveAt(asks, i)
    /\ shown' = [u \in Others |-> Told(u \in asks[i].online)]
    /\ heard' = [u \in Others |-> Latest(heard[u], asks[i].at[u])]
    /\ belated' = {u \in Others : asks[i].at[u] < heard[u]}
    /\ UNCHANGED <<inboxVars, handlers, queue, met, moves, opens, since, lost>>

\* It fails, and is ignored.
RefreshFails(i) ==
    /\ asks' = RemoveAt(asks, i)
    /\ Trouble
    /\ UNCHANGED <<room, at, sub, page, token, wire, stale>>
    /\ UNCHANGED <<handlers, queue, met, toldVars, moves, opens, since, lost>>

\* What the connection does to this.
Connection ==
    /\ PageStep
    /\ queue' = IF wire' THEN queue ELSE <<>>
    /\ IF wire' THEN UNCHANGED lost ELSE Loses(queue)
    /\ IF <<page, page'>> \in {<<"out", "connecting">>, <<"reconnecting", "connected">>}
       THEN ListLoaded ELSE UNCHANGED <<asks, met>>
    /\ UNCHANGED <<handlers, toldVars, moves, opens, since>>

\* Everything but the connection.
PresenceChanges ==
    \/ \E u \in Others : Move(u) \/ Empties(u)
    \/ \E i \in DOMAIN handlers : Notify(i)
    \/ ReceivePresence \/ OpenConversation
    \/ \E i \in DOMAIN asks : AnswerPresence(i) \/ Refreshed(i) \/ RefreshFails(i)
----------------------------------------------------------------------------
\* When no news is on its way, a connected page shows everybody as they are,
\* those it has not heard of as offline: unless news was lost and nothing asked
\* since, or older news came last (two handlers, or a push and an answer).
PresenceTrue ==
    handlers = <<>> /\ queue = <<>> /\ asks = <<>> /\ page = "connected" /\ sub[Me] =>
        \A u \in Others : (shown[u] = "online" <=> isOnline(u)) \/ u \in belated \/ lost[u] > heard[u]

\* Who signs out is offline to everybody soon after, whatever join was under way.
GoesOffline == <>[](page = "out") => <>[]~isOnline(Me)
=============================================================================

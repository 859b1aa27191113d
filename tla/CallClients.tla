---------------------------- MODULE CallClients ----------------------------
(***************************************************************************)
(* The call pages of the chat frontend (apps/chat/frontend/src/app/        *)
(* contexts/call-context.tsx) composed with the backend's CallService: how *)
(* the requests a page makes, the inbox events it is pushed and the        *)
(* members of the media room cross each other.                             *)
(*                                                                         *)
(* Events reach a page in the order they were pushed; requests, replies    *)
(* and the notices of the media room each take their own time.  A page     *)
(* joins one call at a time, also if it has given up the one it joins.     *)
(***************************************************************************)
EXTENDS CallService, FiniteSets, Sequences, SequencesExt

CONSTANT NoCall  \* no call

ASSUME NoCallAssumption == NoCall \notin CallIds

VARIABLES
    inbox,     \* inbox[u]: the pushes on their way to u's page
    requests,  \* the declines and ends on their way to the server
    notices,   \* <<u, c>>: u is about to hear that the broadcaster left c's room
    pending,   \* pendingRef: the call that rings
    inCall,    \* inCallRef
    ui,        \* ui.mode: which buttons the page shows
    session,   \* sessionRef: the call the page is in
    rooms,     \* rooms[u]: the media rooms u is a peer of
    joining,   \* the call u's placeCall or acceptCall is about
    flow,      \* how far it is
    crossed    \* history: a join failed, or was given up or ended under way

serverVars == <<calls, call, accepting, sent, tokens, left>>
pageVars == <<pending, inCall, ui, session, rooms, crossed>>
flowVars == <<joining, flow>>
callsVars == <<serverVars, inbox, requests, notices, pageVars, flowVars>>

Calls == CallIds \cup {NoCall}
Modes == {"idle", "outgoing", "incoming", "connecting", "active"}
Flows == {"idle", "accepting", "accepted", "refused", "answered", "loading"}

CallsTypeOK ==
    /\ TypeOK
    /\ inbox \in [Users -> Seq(Event)]
    /\ requests \in SUBSET [what : {"decline", "end"}, by : Users, call : CallIds]
    /\ notices \in SUBSET (Users \X CallIds)
    /\ pending \in [Users -> Calls] /\ session \in [Users -> Calls]
    /\ inCall \in [Users -> BOOLEAN] /\ ui \in [Users -> Modes]
    /\ rooms \in [Users -> SUBSET CallIds]
    /\ joining \in [Users -> Calls] /\ flow \in [Users -> Flows]
    /\ crossed \in BOOLEAN

CallsInit ==
    /\ Init
    /\ inbox = [u \in Users |-> <<>>]
    /\ requests = {} /\ notices = {}
    /\ pending = [u \in Users |-> NoCall] /\ session = pending /\ joining = pending
    /\ inCall = [u \in Users |-> FALSE]
    /\ ui = [u \in Users |-> "idle"]
    /\ rooms = [u \in Users |-> {}]
    /\ flow = [u \in Users |-> "idle"]
    /\ crossed = FALSE

\* What the server has just pushed, as far as a page acts on it.
Matters == {"call-incoming"} \cup Over
Pushed == inbox' = [u \in Users |->
    inbox[u] \o SetToSeq({e \in sent' \ sent : e.to = u /\ e.type \in Matters})]

Goes(u, step) == flow' = [flow EXCEPT ![u] = step]
Show(u, mode) == ui' = [ui EXCEPT ![u] = mode]
Idle(u) == Goes(u, "idle") /\ joining' = [joining EXCEPT ![u] = NoCall]
Post(what, u, c) == requests' = requests \cup {[what |-> what, by |-> u, call |-> c]}

\* cleanup(): forget everything, and leave the media room of the session, if there
\* is one yet; from a room that has been left nothing more is heard.  A join under
\* way goes on.  Its cause may be a notice, `heard`.
CleanUpOn(u, heard) ==
    /\ pending' = [pending EXCEPT ![u] = NoCall]
    /\ inCall' = [inCall EXCEPT ![u] = FALSE]
    /\ Show(u, "idle")
    /\ session' = [session EXCEPT ![u] = NoCall]
    /\ rooms' = [rooms EXCEPT ![u] = @ \ {session[u]}]
    /\ notices' = (notices \ (heard \cup {<<u, session[u]>>})) \cup
         {n \in Users \X CallIds :
             /\ n[2] = session[u] /\ call[n[2]].mode = "broadcast" /\ call[n[2]].from = u
             /\ n[1] # u /\ n[2] \in rooms[n[1]]}
    /\ crossed' = (crossed \/ flow[u] # "idle")

CleanUp(u) == CleanUpOn(u, {})

(***************************************************************************)
(* Placing and accepting a call                                            *)
(***************************************************************************)
\* placeCall: the server has placed the call, its answer is on the way.
PlaceCall(u, v, c) ==
    /\ ui[u] = "idle" /\ ~inCall[u] /\ flow[u] = "idle"
    /\ Place(u, v, c)
    /\ Pushed
    /\ inCall' = [inCall EXCEPT ![u] = TRUE]
    /\ joining' = [joining EXCEPT ![u] = c]
    /\ Show(u, "outgoing")
    /\ Goes(u, "answered")
    /\ UNCHANGED <<requests, notices, pending, session, rooms, crossed>>

AcceptCall(u) ==
    /\ ui[u] = "incoming" /\ pending[u] # NoCall /\ flow[u] = "idle"
    /\ joining' = [joining EXCEPT ![u] = pending[u]]
    /\ Goes(u, "accepting")
    /\ pending' = [pending EXCEPT ![u] = NoCall]
    /\ inCall' = [inCall EXCEPT ![u] = TRUE]
    /\ Show(u, "connecting")
    /\ UNCHANGED <<serverVars, inbox, requests, notices, session, rooms, crossed>>

\* The server's accept(): refused at once, or suspended at its await.
ServerAccepts(u) ==
    LET c == joining[u] IN
    /\ flow[u] = "accepting"
    /\ \/ Accept(u, c) /\ Goes(u, "accepted")
       \/ /\ ~(c \in calls /\ u \in call[c].callees)
          /\ Goes(u, "refused")
          /\ UNCHANGED serverVars
    /\ UNCHANGED <<inbox, requests, notices, pageVars, joining>>

Accepted(u) ==
    /\ flow[u] = "accepted"
    /\ \/ AcceptResume(u, joining[u]) /\ Goes(u, "answered")
       \/ AcceptFail(u, joining[u]) /\ Goes(u, "refused")
    /\ UNCHANGED <<inbox, requests, notices, pageVars, joining>>

\* joinCall(): into the media room, then load the SFU device, publish, consume, and
\* only then is there a session.  Nothing looks whether the call is still wanted.
JoinRoom(u) ==
    /\ flow[u] = "answered"
    /\ rooms' = [rooms EXCEPT ![u] = @ \cup {joining[u]}]
    /\ Goes(u, "loading")
    /\ UNCHANGED <<serverVars, inbox, requests, notices, pending, inCall, ui, session, crossed, joining>>

Joined(u) ==
    /\ flow[u] = "loading"
    /\ session' = [session EXCEPT ![u] = joining[u]]
    /\ Show(u, "active")
    /\ Idle(u)
    /\ UNCHANGED <<serverVars, inbox, requests, notices, pending, inCall, rooms, crossed>>

\* The catch of placeCall and acceptCall: a refusal, or any of their awaits throws.
JoinFails(u) ==
    /\ flow[u] \in {"refused", "answered", "loading"}
    /\ CleanUp(u)
    /\ Idle(u)
    /\ UNCHANGED <<serverVars, inbox, requests>>

(***************************************************************************)
(* The other buttons                                                       *)
(***************************************************************************)
DeclineCall(u) ==
    /\ ui[u] = "incoming" /\ pending[u] # NoCall
    /\ Post("decline", u, pending[u])
    /\ CleanUp(u)
    /\ UNCHANGED <<serverVars, inbox, flowVars>>

\* Mutant: the page leaves, the server is not told.
EndCallSilently(u) ==
    /\ ui[u] \notin {"idle", "incoming"}
    /\ CleanUp(u)
    /\ UNCHANGED <<serverVars, inbox, requests, flowVars>>

EndCall(u) ==
    /\ ui[u] \notin {"idle", "incoming"}
    /\ IF session[u] # NoCall THEN Post("end", u, session[u]) ELSE UNCHANGED requests
    /\ CleanUp(u)
    /\ UNCHANGED <<serverVars, inbox, flowVars>>

(***************************************************************************)
(* Inbox events and notices of the media room                              *)
(***************************************************************************)
Ring(u, c) ==
    /\ pending' = [pending EXCEPT ![u] = c]
    /\ Show(u, "incoming")
    /\ UNCHANGED requests

\* Mutant: busy is who is being rung, not who is in a call.
IncomingOver(u, c) ==
    /\ IF pending[u] # NoCall THEN Post("decline", u, c) /\ UNCHANGED <<pending, ui>> ELSE Ring(u, c)
    /\ UNCHANGED <<notices, inCall, session, rooms, crossed>>

Incoming(u, c) ==
    /\ IF inCall[u] \/ pending[u] # NoCall
       THEN Post("decline", u, c) /\ UNCHANGED <<pending, ui>>  \* busy
       ELSE Ring(u, c)
    /\ UNCHANGED <<notices, inCall, session, rooms, crossed>>

\* Mutant: only the call that the page is in can be over.
OverOfSession(u, c) ==
    /\ IF session[u] = c
       THEN CleanUp(u)
       ELSE crossed' = (crossed \/ joining[u] = c)
            /\ UNCHANGED <<notices, pending, inCall, ui, session, rooms>>
    /\ UNCHANGED requests

\* The end of a call that the page is just joining goes unnoticed.
HearOver(u, c) ==
    /\ IF c \in {session[u], pending[u]}
       THEN CleanUp(u)
       ELSE crossed' = (crossed \/ joining[u] = c)
            /\ UNCHANGED <<notices, pending, inCall, ui, session, rooms>>
    /\ UNCHANGED requests

Deliver(u) ==
    /\ inbox[u] # <<>>
    /\ inbox' = [inbox EXCEPT ![u] = Tail(@)]
    /\ LET e == Head(inbox[u]) IN
         IF e.type = "call-incoming" THEN Incoming(u, e.call) ELSE HearOver(u, e.call)
    /\ UNCHANGED <<serverVars, flowVars>>

\* PeerLeft of the broadcaster, heard by a viewer since it is in the room.
BroadcasterLeft(u, c) ==
    /\ <<u, c>> \in notices
    /\ CleanUpOn(u, {<<u, c>>})
    /\ UNCHANGED <<serverVars, inbox, requests, flowVars>>

(***************************************************************************)
(* The server                                                              *)
(***************************************************************************)
Serve(r) ==
    /\ r \in requests
    /\ requests' = requests \ {r}
    /\ \/ r.what = "decline" /\ Decline(r.by, r.call)
       \/ r.what = "end" /\ End(r.by, r.call)
       \/ r.call \notin calls /\ UNCHANGED serverVars
    /\ Pushed
    /\ UNCHANGED <<notices, pageVars, flowVars>>

\* .catch(() => undefined)
LoseRequest(r) ==
    /\ r \in requests
    /\ requests' = requests \ {r}
    /\ crossed' = TRUE
    /\ UNCHANGED <<serverVars, inbox, notices, pending, inCall, ui, session, rooms, flowVars>>

RingTimeout(c) ==
    /\ Expire(c)
    /\ Pushed
    /\ UNCHANGED <<requests, notices, pageVars, flowVars>>

CallsNext ==
    \/ \E u \in Users, v \in Convs, c \in CallIds : PlaceCall(u, v, c)
    \/ \E u \in Users :
          \/ AcceptCall(u)
          \/ ServerAccepts(u)
          \/ Accepted(u)
          \/ JoinRoom(u)
          \/ Joined(u)
          \/ JoinFails(u)
          \/ DeclineCall(u)
          \/ EndCall(u)
          \/ Deliver(u)
    \/ \E u \in Users, c \in CallIds : BroadcasterLeft(u, c)
    \/ \E r \in requests : Serve(r) \/ LoseRequest(r)
    \/ \E c \in CallIds : RingTimeout(c)

CallsSpec == CallsInit /\ [][CallsNext]_callsVars
----------------------------------------------------------------------------
(***************************************************************************)
(* Properties                                                              *)
(***************************************************************************)
\* Nothing is under way between the pages and the server.
Quiet ==
    /\ \A u \in Users : flow[u] = "idle" /\ inbox[u] = <<>>
    /\ requests = {} /\ notices = {}

\* No phone rings for a dead call: once everything sent has arrived, a call that a
\* page shows as incoming exists and can be accepted by its user, whatever was
\* declined as busy, given up, lost, failed or expired before.
NobodyRingsDead ==
    Quiet => \A u \in Users : pending[u] # NoCall =>
        pending[u] \in calls /\ u \in call[pending[u]].callees

\* The pages and the server agree on who is in which call, and a page is a peer of
\* exactly that call's media room and lets no other call ring: unless a join failed,
\* or the call was given up or over while it was being joined.
Agreement ==
    Quiet /\ ~crossed => \A u \in Users :
        /\ \A c \in CallIds : session[u] = c <=> c \in calls /\ u \in call[c].joined
        /\ rooms[u] = {session[u]} \ {NoCall}
        /\ inCall[u] <=> session[u] # NoCall

\* Nothing takes a page out of its call but its user, whose server is then told, and the
\* end of that call: not another call that rings, is declined or over, unless a join was
\* crossed or a request lost.
StaysInCall == [][\A u \in Users : session[u] # NoCall /\ session'[u] # session[u] =>
    \/ [what |-> "end", by |-> u, call |-> session[u]] \in requests'
    \/ session[u] \notin calls \/ <<u, session[u]>> \in notices \/ crossed']_callsVars
=============================================================================

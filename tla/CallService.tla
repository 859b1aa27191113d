---------------------------- MODULE CallService ----------------------------
(***************************************************************************)
(* The call and live-broadcast lifecycle of the chat backend               *)
(* (apps/chat/backend/src/services/callService.js): the in-memory map of   *)
(* calls, the ring timer, and the events pushed to the users' inboxes.     *)
(*                                                                         *)
(* Node runs a handler without interruption up to its next await, so every *)
(* synchronous stretch is one action.  place() awaits only before it       *)
(* touches any state, so it is one action; accept() changes the roster,    *)
(* awaits the user store, and then notifies and mints the token, so it is  *)
(* two (Accept, then AcceptResume or AcceptFail), with any other handler   *)
(* between them.                                                           *)
(***************************************************************************)

CONSTANTS
    Users,
    NoUser,    \* stands for the caller of a call that was not placed
    CallIds,   \* the ids newId('c_') may mint, each at most once
    Convs,     \* the conversations of the conversation store
    Mode,      \* Mode[v]: "broadcast" for a broadcast list, else "call"
    Members,   \* Members[v]: conv.members (the recipients of a broadcast)
    Admins     \* Admins[v]: conv.admins (the owner of a broadcast)

ASSUME ConvAssumption ==
    /\ NoUser \notin Users
    /\ Mode \in [Convs -> {"call", "broadcast"}]
    /\ Members \in [Convs -> SUBSET Users]
    /\ Admins \in [Convs -> SUBSET Users]
    \* createBroadcast filters the owner out of the recipients
    /\ \A v \in Convs : Mode[v] = "broadcast" => Members[v] \cap Admins[v] = {}

VARIABLES
    calls,     \* the keys of the Map: the ids of the calls that exist
    call,      \* the call objects; one outlives its Map entry in a handler
    accepting, \* accept() handlers suspended at the await: <<call, user>>
    sent,      \* history: the events pushed to the inboxes
    tokens,    \* history: the call tokens handed out
    left       \* history: who gave up a call by an own decline or end

vars == <<calls, call, accepting, sent, tokens, left>>

\* Pushes that report the end of a call.  The code sends 'call-ended' for all
\* three and tells them apart by `reason`: none, 'broadcaster-left', 'missed'.
Over == {"call-ended", "broadcaster-left", "missed"}
EventTypes == {"call-incoming", "call-accepted", "call-declined"} \cup Over

Call == [mode: {"call", "broadcast"}, from: Users \cup {NoUser},
         callees: SUBSET Users, joined: SUBSET Users,
         status: {"unplaced", "ringing", "active"}, timer: BOOLEAN]
Event == [to: Users, type: EventTypes, call: CallIds]
Token == [user: Users, call: CallIds, role: {"broadcaster", "member", "viewer"}]

Unplaced == [mode |-> "call", from |-> NoUser, callees |-> {}, joined |-> {},
             status |-> "unplaced", timer |-> FALSE]

\* hub.pushToUsers: one event for every user of a set.
Push(users, type, c) == {[to |-> u, type |-> type, call |-> c] : u \in users}

Disarm(r) == [r EXCEPT !.timer = FALSE]

\* size <= 1, without counting.
AtMostOne(S) == \A x, y \in S : x = y

\* conversationService.isMember
IsMember(v, u) == IF Mode[v] = "broadcast" THEN u \in Admins[v] ELSE u \in Members[v]
Invitees(v, u) == IF Mode[v] = "broadcast" THEN Members[v] ELSE Members[v] \ {u}

TypeOK ==
    /\ calls \in SUBSET CallIds
    /\ call \in [CallIds -> Call]
    /\ accepting \in SUBSET (CallIds \X Users)
    /\ sent \in SUBSET Event
    /\ tokens \in SUBSET Token
    /\ left \in SUBSET (CallIds \X Users)

Init ==
    /\ calls = {}
    /\ call = [c \in CallIds |-> Unplaced]
    /\ accepting = {}
    /\ sent = {}
    /\ tokens = {}
    /\ left = {}

(***************************************************************************)
(* POST /calls: ring everyone invited and arm the ring timer.              *)
(***************************************************************************)
Place(u, v, c) ==
    /\ call[c].status = "unplaced"
    /\ IsMember(v, u)
    /\ Invitees(v, u) # {}
    /\ calls' = calls \cup {c}
    /\ call' = [call EXCEPT ![c] =
         [mode |-> Mode[v], from |-> u, callees |-> Invitees(v, u), joined |-> {u},
          status |-> "ringing", timer |-> TRUE]]
    /\ sent' = sent \cup Push(Invitees(v, u), "call-incoming", c)
    /\ tokens' = tokens \cup {[user |-> u, call |-> c, role |->
                    IF Mode[v] = "broadcast" THEN "broadcaster" ELSE "member"]}
    /\ UNCHANGED <<accepting, left>>

(***************************************************************************)
(* POST /calls/:id/accept, up to the await of the user store.              *)
(***************************************************************************)
Join(r, u) == [r EXCEPT !.timer = FALSE, !.status = "active",
                        !.callees = r.callees \ {u}, !.joined = r.joined \cup {u}]

\* Mutant: whoever was rung may accept, also after declining or leaving.
AcceptAgain(u, c) ==
    /\ c \in calls
    /\ u \in call[c].callees \/ \E e \in sent : e.to = u /\ e.type = "call-incoming"
    /\ call' = [call EXCEPT ![c] = Join(call[c], u)]
    /\ accepting' = accepting \cup {<<c, u>>}
    /\ UNCHANGED <<calls, sent, tokens, left>>

Accept(u, c) ==
    /\ c \in calls
    /\ u \in call[c].callees
    /\ call' = [call EXCEPT ![c] = Join(call[c], u)]
    /\ accepting' = accepting \cup {<<c, u>>}
    /\ UNCHANGED <<calls, sent, tokens, left>>

\* The rest of accept(), on the object captured before the await: the call may
\* have been removed from the Map meanwhile, and nothing looks again.
AcceptResume(u, c) ==
    /\ <<c, u>> \in accepting
    /\ accepting' = accepting \ {<<c, u>>}
    /\ sent' = sent \cup Push(call[c].joined \ {u}, "call-accepted", c)
    /\ tokens' = tokens \cup {[user |-> u, call |-> c, role |->
                    IF call[c].mode = "broadcast" THEN "viewer" ELSE "member"]}
    /\ UNCHANGED <<calls, call, left>>

\* The user store throws or has no such user: the handler answers an error and
\* leaves the roster as Accept changed it.
AcceptFail(u, c) ==
    /\ <<c, u>> \in accepting
    /\ accepting' = accepting \ {<<c, u>>}
    /\ UNCHANGED <<calls, call, sent, tokens, left>>

(***************************************************************************)
(* end(): the actor leaves; whether the session ends depends on the mode.  *)
(* decline() may go on into it, so it works on the object `r` and on the   *)
(* events `told` that its caller already pushed.                           *)
(***************************************************************************)
Leave(r, u) == [r EXCEPT !.callees = r.callees \ {u}, !.joined = r.joined \ {u}]

\* Mutant: the last participant stays.
StaysUpAlone(r, u) == IF r.mode = "broadcast" THEN u # r.from ELSE r.joined # {}

StaysUp(r, u) == IF r.mode = "broadcast" THEN u # r.from ELSE ~AtMostOne(r.joined)

\* Mutant: those still ringing are not told.
AudienceJoined(r, u) == ({r.from} \cup r.joined) \ {u}

Audience(r, u) == ({r.from} \cup r.joined \cup r.callees) \ {u}

EndFor(u, c, r, told) ==
    LET s == Leave(r, u) IN
    /\ left' = left \cup {<<c, u>>}
    /\ IF StaysUp(s, u)
       THEN /\ call' = [call EXCEPT ![c] = s]
            /\ sent' = sent \cup told
            /\ calls' = calls
       ELSE /\ call' = [call EXCEPT ![c] = Disarm(s)]
            /\ sent' = sent \cup told \cup Push(Audience(s, u),
                  IF s.mode = "broadcast" THEN "broadcaster-left" ELSE "call-ended", c)
            /\ calls' = calls \ {c}

\* POST /calls/:id/end, by anyone: the service checks no membership.
End(u, c) ==
    /\ c \in calls
    /\ EndFor(u, c, call[c], {})
    /\ UNCHANGED <<accepting, tokens>>

(***************************************************************************)
(* POST /calls/:id/decline, by anyone.  The last one to decline a call     *)
(* that only its caller is in goes on to end it.                           *)
(***************************************************************************)
Decline(u, c) ==
    LET r == [call[c] EXCEPT !.callees = call[c].callees \ {u}]
        told == Push({r.from}, "call-declined", c)
    IN
    /\ c \in calls
    /\ IF r.callees = {} /\ AtMostOne(r.joined)
       THEN EndFor(u, c, r, told)
       ELSE /\ call' = [call EXCEPT ![c] = r]
            /\ sent' = sent \cup told
            /\ left' = IF u \in r.joined THEN left ELSE left \cup {<<c, u>>}
            /\ calls' = calls
    /\ UNCHANGED <<accepting, tokens>>

\* Mutant: an expired call stays in the map.
ExpireKept(c) ==
    /\ call[c].timer
    /\ call' = [call EXCEPT ![c] = Disarm(call[c])]
    /\ sent' = sent \cup Push({call[c].from} \cup call[c].callees, "missed", c)
    /\ UNCHANGED <<calls, accepting, tokens, left>>

(***************************************************************************)
(* The ring timer fires: nobody has answered within config.callRingMs.     *)
(***************************************************************************)
Expire(c) ==
    /\ call[c].timer
    /\ call' = [call EXCEPT ![c] = Disarm(call[c])]
    /\ IF c \in calls
       THEN /\ sent' = sent \cup Push({call[c].from} \cup call[c].callees, "missed", c)
            /\ calls' = calls \ {c}
       ELSE UNCHANGED <<sent, calls>>
    /\ UNCHANGED <<accepting, tokens, left>>

Next ==
    \/ \E u \in Users, v \in Convs, c \in CallIds : Place(u, v, c)
    \/ \E u \in Users, c \in CallIds :
          \/ Accept(u, c)
          \/ AcceptResume(u, c)
          \/ AcceptFail(u, c)
          \/ Decline(u, c)
          \/ End(u, c)
    \/ \E c \in CallIds : Expire(c)

\* The event loop fires due timers and resumes awaited promises; nothing makes
\* a user answer, decline or hang up.
Fairness ==
    /\ \A c \in CallIds : WF_vars(Expire(c))
    /\ \A u \in Users, c \in CallIds :
          WF_vars(AcceptResume(u, c) \/ AcceptFail(u, c))

Spec == Init /\ [][Next]_vars /\ Fairness
----------------------------------------------------------------------------
(***************************************************************************)
(* Properties                                                              *)
(***************************************************************************)
ToldOver(c, u) == \E e \in sent : e.call = c /\ e.to = u /\ e.type \in Over
Rung(c, u) == \E e \in sent : e.call = c /\ e.to = u /\ e.type = "call-incoming"
Placed(c) == call[c].status # "unplaced"

\* Nobody is left in a dead call: once a call has left the map, whoever was
\* rung for it or placed it was told so, or gave it up by an own request
\* (end(), expire() and the doc comment "every remaining invitee is told").
EveryoneTold ==
    \A c \in CallIds : Placed(c) /\ c \notin calls =>
        \A u \in Users : Rung(c, u) \/ u = call[c].from =>
            ToldOver(c, u) \/ <<c, u>> \in left

\* And nobody is told too early: an end is reported only for a call that is gone.
NoEarlyEnd == \A c \in calls, u \in Users : ~ToldOver(c, u)

\* "A group call stays up while >= 2 participants remain": an answered call
\* that is still in the map has two participants or more, whatever leaves,
\* declines and suspended accepts were interleaved; a live broadcast still
\* has its broadcaster.
LiveCallHasParticipants ==
    \A c \in calls :
        /\ call[c].mode = "call" /\ call[c].status = "active" => ~AtMostOne(call[c].joined)
        /\ call[c].mode = "broadcast" => call[c].from \in call[c].joined

\* No call leaks while it rings: the ring timer is armed exactly on the live
\* calls that nobody has answered, so none of them stays in the map for ever
\* and none that was answered is cut off by it.
TimerGuardsRinging ==
    \A c \in CallIds : call[c].timer <=> c \in calls /\ call[c].status = "ringing"

\* A call reported as missed was never answered, not even by an accept() that
\* was suspended when the timer was due.
MissedMeansUnanswered ==
    \A e \in sent : e.type = "missed" =>
        /\ call[e.call].status = "ringing"
        /\ \A u \in Users : <<e.call, u>> \notin accepting

\* A token that lets its holder publish in a broadcast is only ever its
\* owner's, and every other token belongs to someone who was rung.
TokensOnlyForInvited ==
    \A t \in tokens :
        \/ t.user = call[t.call].from
        \/ Rung(t.call, t.user) /\ (call[t.call].mode = "broadcast" => t.role = "viewer")

\* Every call keeps to CallLife, for those who are in it and whom it rings, whatever
\* handlers are interleaved and whoever posts a decline or an end.
Lives == INSTANCE CallLife WITH
    People <- Users, Ids <- CallIds,
    phase <- [c \in CallIds |-> IF c \in calls THEN call[c].status
                                ELSE IF Placed(c) THEN "over" ELSE "none"],
    ringing <- [c \in CallIds |-> IF c \in calls THEN call[c].callees ELSE {}],
    talking <- [c \in CallIds |-> IF c \in calls THEN call[c].joined ELSE {}],
    told <- [c \in CallIds |-> {u \in Users : ToldOver(c, u)}]
KeepsToCallLife == Lives!Spec

\* Every call stops ringing: it is answered, declined, ended or missed.
RingingStops ==
    \A c \in CallIds : c \in calls /\ call[c].status = "ringing"
                     ~> c \notin calls \/ call[c].status = "active"
=============================================================================

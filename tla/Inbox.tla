------------------------------- MODULE Inbox -------------------------------
(***************************************************************************)
(* The inbox of the chat: the one signaling connection a user's page holds *)
(* (frontend contexts/auth-context.tsx, contexts/realtime-context.tsx,     *)
(* features/realtime/infrastructure/inbox-client.ts) and the hub that      *)
(* subscribes a user's topic while its room is in use                      *)
(* (backend/src/realtime/hub.js).                                          *)
(*                                                                         *)
(* Every user has a room on the server; the page is that of Me.  Whatever  *)
(* is pushed comes in order down the page's socket, or is lost: nothing is *)
(* buffered.  What is pushed and what the page does with it are in the     *)
(* modules that extend this one.                                           *)
(***************************************************************************)
EXTENDS Naturals, Sequences

CONSTANTS
    Users,
    Me,       \* the user whose page is modelled
    MaxTroubles  \* bound: sockets that break, requests that fail, tokens that
                 \* expire and users who sign out

ASSUME InboxAssumption == Me \in Users /\ MaxTroubles \in Nat

Others == Users \ {Me}

VARIABLES
    room,   \* room[u]: whether rtcforge has the room inbox:<u>
    at,     \* at[u]: whether u is a peer of it
    sub,    \* sub[u]: _subs, the hub's subscription of u's topic
    page,   \* Me's page: signed out, or the state of its inbox's connection
    token,  \* fc_token: whether the session token can work
    wire,   \* whether the page's socket carries anything
    stale,  \* joins the page has given up, and will leave when they succeed
    troubles

inboxVars == <<room, at, sub, page, token, wire, stale, troubles>>

Pages == {"out", "connecting", "connected", "reconnecting", "terminated"}

InboxTypeOK ==
    /\ room \in [Users -> BOOLEAN] /\ at \in [Users -> BOOLEAN] /\ sub \in [Users -> BOOLEAN]
    /\ page \in Pages
    /\ token \in {"none", "valid", "expired"}
    /\ wire \in BOOLEAN
    /\ stale \in Nat /\ troubles \in 0..MaxTroubles

InboxInit ==
    /\ room = [u \in Users |-> FALSE] /\ at = room /\ sub = room
    /\ page = "out" /\ token = "none"
    /\ wire = FALSE
    /\ stale = 0 /\ troubles = 0

(***************************************************************************)
(* The server's side.                                                      *)
(***************************************************************************)
\* roomCreated subscribes; a peer that comes back to a room that emptied, and
\* that rtcforge has not closed yet, is not subscribed again.
Enters(u) ==
    /\ ~at[u]
    /\ at' = [at EXCEPT ![u] = TRUE]
    /\ room' = [room EXCEPT ![u] = TRUE]
    /\ sub' = [sub EXCEPT ![u] = @ \/ ~room[u]]

\* peerLeft, in a room that only its owner is ever in.
Leaves(u) ==
    /\ at[u]
    /\ at' = [at EXCEPT ![u] = FALSE]
    /\ sub' = [sub EXCEPT ![u] = FALSE]
    /\ UNCHANGED room

RoomCloses(u) ==
    /\ room[u] /\ ~at[u]
    /\ room' = [room EXCEPT ![u] = FALSE]
    /\ UNCHANGED <<at, sub, page, token, wire, stale, troubles>>

isOnline(u) == at[u]

\* pushToUser and _deliverLocal: whether an event reaches Me's page.
Reaches == sub[Me] /\ at[Me] /\ wire

\* Another user's page, of which only the connection matters.
OtherJoins(u) == u # Me /\ Enters(u) /\ UNCHANGED <<page, token, wire, stale, troubles>>
OtherLeaves(u) == u # Me /\ Leaves(u) /\ UNCHANGED <<page, token, wire, stale, troubles>>

\* One more thing goes wrong.
Trouble == troubles < MaxTroubles /\ troubles' = troubles + 1

(***************************************************************************)
(* The page's side.                                                        *)
(***************************************************************************)
\* register(), login() or a stored session: persist() and the provider's effect.
SignIn ==
    /\ page = "out"
    /\ page' = "connecting" /\ token' = "valid"
    /\ UNCHANGED <<room, at, sub, wire, stale, troubles>>

\* joinRoom succeeds, the first time or after a drop.
Join ==
    /\ page \in {"connecting", "reconnecting"} /\ token = "valid"
    /\ Enters(Me)
    /\ page' = "connected" /\ wire' = TRUE
    /\ UNCHANGED <<token, stale, troubles>>

\* It fails: the page says so, and does not try again.
JoinFails ==
    /\ page = "connecting"
    /\ page' = "terminated"
    /\ Trouble
    /\ UNCHANGED <<room, at, sub, token, wire, stale>>

\* Mutant: a connection that came too late is kept.
StaleJoinKept ==
    /\ stale > 0 /\ stale' = stale - 1
    /\ Enters(Me)
    /\ wire' = TRUE
    /\ UNCHANGED <<page, token, troubles>>

\* A join whose page has signed out meanwhile: the connection is closed as soon
\* as there is one, and the server sees it go.
StaleJoin ==
    /\ stale > 0 /\ stale' = stale - 1
    /\ ~at[Me]
    /\ room' = [room EXCEPT ![Me] = TRUE]
    /\ sub' = [sub EXCEPT ![Me] = FALSE]
    /\ UNCHANGED <<at, page, token, wire, troubles>>

\* The socket breaks: the page knows first, the server when the pong is missing.
Drop ==
    /\ wire /\ page = "connected"
    /\ wire' = FALSE /\ page' = "reconnecting"
    /\ Trouble
    /\ UNCHANGED <<room, at, sub, token, stale>>
Reap == ~wire /\ Leaves(Me) /\ UNCHANGED <<page, token, wire, stale, troubles>>

TokenExpires ==
    /\ token = "valid"
    /\ token' = "expired"
    /\ Trouble
    /\ UNCHANGED <<room, at, sub, page, wire, stale>>

\* logout(): the button, or the client gives up reconnecting.  The effect's
\* cleanup leaves the room, or will when the join is done.
SignOut ==
    /\ page # "out"
    /\ page' = "out" /\ token' = "none"
    /\ wire' = FALSE
    /\ stale' = IF page = "connecting" THEN stale + 1 ELSE stale
    /\ Trouble
    /\ UNCHANGED <<room, at, sub>>

\* Terminated: a token that cannot work signs the page out.
Refused ==
    /\ page \in {"connecting", "reconnecting"} /\ token = "expired"
    /\ page' = "out" /\ token' = "none"
    /\ UNCHANGED <<room, at, sub, wire, stale, troubles>>

\* The catch of a join that was given up sets the status that is shown of a session that
\* may be new to 'terminated' (realtime-context.tsx:72).  The connection is as it was, and
\* the status is read by the banner "Reconnecting" alone.
StaleFails ==
    /\ stale > 0 /\ stale' = stale - 1
    /\ UNCHANGED <<room, at, sub, page, token, wire, troubles>>

\* What the page, the network and the server do, whatever is pushed meanwhile.
PageStep ==
    \/ SignIn \/ Join \/ JoinFails \/ StaleJoin \/ StaleFails \/ Drop \/ Reap
    \/ TokenExpires \/ SignOut \/ Refused
    \/ RoomCloses(Me)
=============================================================================

----------------------------- MODULE Directory -----------------------------
(***************************************************************************)
(* The room directories of live-streaming, massive, meet and collaborative *)
(* (backend/src/server.js with streams.js, meetings.js, boards.js   *)
(* and auth.js): a registry in memory, tokens for one room, and the room   *)
(* itself, which rtcforge keeps and whose members the registry counts.     *)
(*                                                                         *)
(* One room of one backend.  Rooms share nothing: a token is for one room, *)
(* the identifiers are fresh.  rtcforge closes a room some time after its  *)
(* last member has left, or at once.                                       *)
(***************************************************************************)
EXTENDS Integers, FiniteSets

CONSTANTS Peers,     \* the identities the server may mint
          NoRecord,  \* the registry has no record of the room
          Apps       \* the backends to choose from

Streams == {"live-streaming", "massive"}
Meetings == {"call", "room", "webinar"}
Boards == {"board"}

ASSUME AppsAssumption == Apps \subseteq Streams \cup Meetings \cup Boards
ASSUME PeersAssumption == IsFiniteSet(Peers)
ASSUME NoRecordAssumption == NoRecord \notin [live : BOOLEAN, viewers : Nat] \cup [members : Nat]

VARIABLES
    app,      \* the backend and, of a meeting, its type
    rec,      \* the room's record in the registry
    token,    \* token[p]: the role in the token minted for p
    expired,  \* whose token's time is over
    open,     \* the signaling room exists
    peers,    \* its members
    closed,   \* history: it has been closed
    ghost     \* history: it was created again after that

serverVars == <<app, rec, token, expired, open, peers, closed, ghost>>

Roles == {"broadcaster", "viewer", "host", "participant", "audience", "member"}
Tokens == Roles \cup {"none"}

\* The role the signaling server reads in a token that was verified.
LiveAuth(t) == IF t = "broadcaster" THEN t ELSE "viewer"
MassiveAuth(t) == IF t = "broadcaster" THEN t ELSE "viewer"
MeetingAuth(t) == IF t \in {"host", "participant", "audience"} THEN t ELSE "participant"
BoardAuth(t) == "member"

RoleOf(p) == CASE app = "live-streaming" -> LiveAuth(token[p])
               [] app = "massive" -> MassiveAuth(token[p])
               [] app \in Meetings -> MeetingAuth(token[p])
               [] app \in Boards -> BoardAuth(token[p])

Broadcasters(ps) == {p \in ps : RoleOf(p) = "broadcaster"}

(***************************************************************************)
(* What each registry records                                              *)
(***************************************************************************)
NewLiveStream == [live |-> FALSE, viewers |-> 0]
NewMassiveStream == [live |-> FALSE, viewers |-> 0]
NewMeeting == [members |-> 0]
NewBoard == [members |-> 0]

NewRecord == CASE app = "live-streaming" -> NewLiveStream
               [] app = "massive" -> NewMassiveStream
               [] app \in Meetings -> NewMeeting
               [] app \in Boards -> NewBoard

\* refresh() of each server: the record of a room with the members ps.
LiveRefresh(ps) == [live |-> Broadcasters(ps) # {},
                    viewers |-> Cardinality(ps \ Broadcasters(ps))]
MassiveRefresh(ps) == [live |-> Broadcasters(ps) # {},
                       viewers |-> Cardinality(ps \ Broadcasters(ps))]
MeetingRefresh(ps) == [members |-> Cardinality(ps)]
BoardRefresh(ps) == [members |-> Cardinality(ps)]

Refreshed(ps) == CASE app = "live-streaming" -> LiveRefresh(ps)
                   [] app = "massive" -> MassiveRefresh(ps)
                   [] app \in Meetings -> MeetingRefresh(ps)
                   [] app \in Boards -> BoardRefresh(ps)

\* The registries change a record only if they have it.
Refresh(ps) == rec' = IF rec = NoRecord THEN NoRecord ELSE Refreshed(ps)

\* peerLeft: live-streaming ends the stream when its broadcaster goes.
LiveLeft(p, ps) == [LiveRefresh(ps) EXCEPT !.live = @ /\ RoleOf(p) # "broadcaster"]
\* Mutant: nobody counts on a leave.
RefreshLeftMissing(p, ps) == UNCHANGED rec
RefreshLeft(p, ps) ==
    IF app = "live-streaming"
    THEN rec' = IF rec = NoRecord THEN NoRecord ELSE LiveLeft(p, ps)
    ELSE Refresh(ps)

(***************************************************************************)
(* Tokens                                                                  *)
(***************************************************************************)
LiveRole(creator) == IF creator THEN "broadcaster" ELSE "viewer"
MassiveRole(creator) == IF creator THEN "broadcaster" ELSE "viewer"
MeetingRole(creator) == CASE creator -> "host"
                          [] ~creator /\ app = "webinar" -> "audience"
                          [] ~creator /\ app # "webinar" -> "participant"
BoardRole == "member"

RoleFor(creator) == CASE app = "live-streaming" -> LiveRole(creator)
                      [] app = "massive" -> MassiveRole(creator)
                      [] app \in Meetings -> MeetingRole(creator)
                      [] app \in Boards -> BoardRole

Mint(p, creator) == token' = [token EXCEPT ![p] = RoleFor(creator)]
Valid(p) == token[p] # "none" /\ p \notin expired

(***************************************************************************)
(* The requests and the room's events                                      *)
(***************************************************************************)
Init ==
    /\ app \in Apps
    /\ rec = NoRecord
    /\ token = [p \in Peers |-> "none"]
    /\ expired = {}
    /\ open = FALSE /\ peers = {}
    /\ closed = FALSE /\ ghost = FALSE

\* POST: the room is registered and p gets the creator's token.
Create(p) ==
    /\ \A q \in Peers : token[q] = "none"
    /\ rec' = NewRecord
    /\ Mint(p, TRUE)
    /\ UNCHANGED <<app, expired, open, peers, closed, ghost>>

\* POST .../watch or .../join: 404 unless the room is registered.
Issue(p) ==
    /\ rec # NoRecord /\ token[p] = "none"
    /\ Mint(p, FALSE)
    /\ UNCHANGED <<app, rec, expired, open, peers, closed, ghost>>

\* The socket of p joins the room of its token, which is created for the first.
Enter(p) ==
    /\ Valid(p) /\ p \notin peers
    /\ open' = TRUE
    /\ peers' = peers \cup {p}
    /\ Refresh(peers')
    /\ ghost' = (ghost \/ (~open /\ closed))
    /\ UNCHANGED <<app, token, expired, closed>>

Leave(p) ==
    /\ p \in peers
    /\ peers' = peers \ {p}
    /\ RefreshLeft(p, peers')
    /\ UNCHANGED <<app, token, expired, open, closed, ghost>>

\* The room has been empty: rtcforge closes it, the registry forgets it.
Close ==
    /\ open /\ peers = {}
    /\ open' = FALSE
    /\ rec' = NoRecord
    /\ closed' = TRUE
    /\ UNCHANGED <<app, token, expired, peers, ghost>>

\* POST .../kick with the host's token: 404 for a room that is not registered or
\* not open, 401 for a token whose time is over, 403 unless it is the host's.
Kick(h, p) ==
    /\ app \in Meetings
    /\ rec # NoRecord /\ open
    /\ h \notin expired /\ token[h] = "host"
    /\ Leave(p)

Expire(p) ==
    /\ Valid(p)
    /\ expired' = expired \cup {p}
    /\ UNCHANGED <<app, rec, token, open, peers, closed, ghost>>

Next == \/ \E p \in Peers : Create(p) \/ Issue(p) \/ Enter(p) \/ Leave(p) \/ Expire(p)
        \/ \E h, p \in Peers : Kick(h, p)
        \/ Close

Spec == Init /\ [][Next]_serverVars

(***************************************************************************)
(* Properties                                                              *)
(***************************************************************************)
Records == IF app \in Streams THEN [live : BOOLEAN, viewers : Nat] ELSE [members : Nat]

ServerTypeOK ==
    /\ app \in Apps
    /\ rec \in Records \cup {NoRecord}
    /\ token \in [Peers -> Tokens]
    /\ expired \subseteq Peers /\ peers \subseteq Peers
    /\ open \in BOOLEAN /\ closed \in BOOLEAN /\ ghost \in BOOLEAN

\* What the directory lists of a room is what is in it: a stream is shown live exactly
\* while its broadcaster is in the room, and nobody is counted twice or after he left.
DirectoryTrue ==
    rec # NoRecord =>
        IF app \in Streams
        THEN /\ rec.live <=> \E p \in peers : token[p] = "broadcaster"
             /\ rec.viewers = Cardinality({p \in peers : token[p] # "broadcaster"})
        ELSE rec.members = Cardinality(peers)

\* A room that is open is listed, so that others can join it and its host can remove
\* members, unless it was closed and then created again by a token that outlived it: the
\* directory has forgotten it for good.
OpenIsListed == open /\ rec = NoRecord => ghost
============================================================================

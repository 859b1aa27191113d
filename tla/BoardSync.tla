----------------------------- MODULE BoardSync -----------------------------
(***************************************************************************)
(* One board of the collaborative app: the engine of its pages             *)
(* (apps/collaborative/frontend/src/board-sync.ts) and the room that       *)
(* relays their messages.                                                  *)
(*                                                                         *)
(* A page's socket is first-in first-out in each direction.  The server    *)
(* relays one message at a time to everybody who is in the room, so that   *)
(* two pages see what others send in the same order, while each applies    *)
(* its own operations before they are sent.  What a page sends while it   *)
(* handles a message reaches the server at once, after all it has sent     *)
(* before: no order is lost, for a slow reply is as good as a slow         *)
(* reception.  A page joins once: every token is for a new member.        *)
(***************************************************************************)
EXTENDS Naturals, FiniteSets, Sequences, SequencesExt

CONSTANTS
    Members,    \* the members' ids, as numbers: start() sorts them
    FirstMembers,  \* those in the room at first, who know each other
    Strokes,  \* the strokes that may be drawn, each once
    MaxOps    \* bound on what the members do: strokes, clearings, edits, cursor moves, departures

ASSUME MembersAssumption == Members \subseteq Nat \ {0} /\ FirstMembers \subseteq Members

VARIABLES
    room,      \* the peers in the server's room
    up, down,  \* each page's socket, to and from the server
    tab,       \* tab[p]: how far p's page is: "none", "joining", "open" or "left"
    strokes,   \* strokes[p]: the strokes on p's canvas, in drawing order
    doc,       \* doc[p]: p's notes; version and author stand for the text
    roster,    \* roster[p]: whom p shows as present
    cursors,   \* cursors[p]: whose cursors p shows
    drawn,     \* history: the strokes used
    ops,       \* counts what the members have done
    synced,    \* history: the pages that started from the whole board
    crossed    \* history: a stroke met a clearing or a catching-up

canvasVars == <<strokes, doc, roster, cursors>>
historyVars == <<drawn, ops, synced, crossed>>
boardVars == <<room, up, down, tab, canvasVars, historyVars>>

MessageKinds == {"hello", "stroke", "clear", "doc", "cursor",       \* broadcasts
          "hi", "sync-request", "sync-state",                \* directed signals
          "welcome", "peer-left"}                            \* of the server
Broadcasts == {"hello", "stroke", "clear", "doc", "cursor"}
Doc == [version: 0..MaxOps, author: Members \cup {0}]
NoDoc == [version |-> 0, author |-> 0]

BoardTypeOK ==
    /\ room \in SUBSET Members /\ synced \in SUBSET Members /\ crossed \in BOOLEAN
    /\ \A p \in Members : \A m \in Range(up[p]) \cup Range(down[p]) : m.kind \in MessageKinds
    /\ tab \in [Members -> {"none", "joining", "open", "left"}]
    /\ \A p \in Members : Range(strokes[p]) \subseteq Strokes
    /\ doc \in [Members -> Doc]
    /\ roster \in [Members -> SUBSET Members] /\ cursors \in [Members -> SUBSET Members]
    /\ drawn \in SUBSET Strokes /\ ops \in 0..MaxOps

BoardInit ==
    /\ room = FirstMembers
    /\ up = [p \in Members |-> <<>>] /\ down = up
    /\ tab = [p \in Members |-> IF p \in FirstMembers THEN "open" ELSE "none"]
    /\ strokes = [p \in Members |-> <<>>]
    /\ doc = [p \in Members |-> NoDoc]
    /\ roster = [p \in Members |-> IF p \in FirstMembers THEN FirstMembers ELSE {p}]
    /\ cursors = [p \in Members |-> {}]
    /\ drawn = {} /\ ops = 0 /\ synced = FirstMembers /\ crossed = FALSE

Msg(kind, from, to, data) == [kind |-> kind, from |-> from, to |-> to, data |-> data]
Broadcast(p, kind, data) == Msg(kind, p, 0, data)
InFlight(kinds) ==
    \E p \in Members : \E m \in Range(up[p]) \cup Range(down[p]) : m.kind \in kinds
\* What the sockets d hold when the server has relayed m.
Gets(q, m) == q \in room /\ IF m.kind \in Broadcasts THEN q # m.from ELSE q = m.to
Relayed(d, m) == [q \in Members |-> IF Gets(q, m) THEN Append(d[q], m) ELSE d[q]]

AllSynced == room \subseteq synced

(***************************************************************************)
(* The room                                                                *)
(***************************************************************************)
JoinBoard(p) ==
    /\ tab[p] = "none"
    /\ room' = room \cup {p}
    /\ tab' = [tab EXCEPT ![p] = "joining"]
    /\ down' = [down EXCEPT ![p] = <<Msg("welcome", 0, p, room)>>]
    /\ crossed' = (crossed \/ InFlight({"stroke", "clear"}))
    /\ UNCHANGED <<up, canvasVars, drawn, ops, synced>>

\* p leaves, or its connection drops; what it had not sent yet is lost.
LeaveBoard(p) ==
    /\ p \in room /\ ops < MaxOps
    /\ ops' = ops + 1
    /\ room' = room \ {p}
    /\ tab' = [tab EXCEPT ![p] = "left"]
    /\ up' = [up EXCEPT ![p] = <<>>]
    /\ down' = [q \in Members |->
         IF q = p THEN <<>>
         ELSE IF q \in room THEN Append(down[q], Msg("peer-left", p, q, {})) ELSE down[q]]
    /\ UNCHANGED <<canvasVars, drawn, synced, crossed>>

Relay(p) ==
    /\ up[p] # <<>>
    /\ up' = [up EXCEPT ![p] = Tail(@)]
    /\ down' = Relayed(down, Head(up[p]))
    /\ UNCHANGED <<room, tab, canvasVars, historyVars>>

(***************************************************************************)
(* What the members do                                                     *)
(***************************************************************************)
Do(p, kind, data) ==
    /\ tab[p] = "open" /\ ops < MaxOps
    /\ ops' = ops + 1
    /\ up' = [up EXCEPT ![p] = Append(@, Broadcast(p, kind, data))]

AddStroke(p, s) ==
    /\ s \notin drawn
    /\ Do(p, "stroke", s)
    /\ strokes' = [strokes EXCEPT ![p] = Append(@, s)]
    /\ drawn' = drawn \cup {s}
    /\ crossed' = (crossed \/ InFlight({"clear"}) \/ ~AllSynced)
    /\ UNCHANGED <<room, down, tab, doc, roster, cursors, synced>>

Clear(p) ==
    /\ Do(p, "clear", {})
    /\ strokes' = [strokes EXCEPT ![p] = <<>>]
    /\ crossed' = (crossed \/ InFlight({"stroke"}) \/ ~AllSynced)
    /\ UNCHANGED <<room, down, tab, doc, roster, cursors, drawn, synced>>

SetDoc(p) ==
    /\ LET d == [version |-> doc[p].version + 1, author |-> p] IN
         /\ doc' = [doc EXCEPT ![p] = d]
         /\ Do(p, "doc", d)
    /\ UNCHANGED <<room, down, tab, strokes, roster, cursors, drawn, synced, crossed>>

MoveCursor(p) ==
    /\ Do(p, "cursor", {})
    /\ UNCHANGED <<room, down, tab, canvasVars, drawn, synced, crossed>>

(***************************************************************************)
(* What a page receives                                                   *)
(***************************************************************************)
Rest(p) == [down EXCEPT ![p] = Tail(@)]
Reply(p, m) == up[p] = <<>> /\ down' = Relayed(Rest(p), m)
NoReply(p) == down' = Rest(p)

\* start(): announce ourselves, ask the first of the others for the board.
Start(p, others) ==
    LET greeted == Relayed(Rest(p), Broadcast(p, "hello", {})) IN
    /\ tab' = [tab EXCEPT ![p] = "open"]
    /\ up[p] = <<>>
    /\ IF others = {} THEN down' = greeted /\ synced' = synced \cup {p}
       ELSE down' = Relayed(greeted, Msg("sync-request", p, Min(others), {})) /\ UNCHANGED synced
    /\ UNCHANGED <<canvasVars, crossed>>

Hello(p, from) ==
    /\ roster' = [roster EXCEPT ![p] = @ \cup {from}]
    /\ Reply(p, Msg("hi", p, from, {}))
    /\ UNCHANGED <<tab, strokes, doc, cursors, synced, crossed>>

Hi(p, from) ==
    /\ roster' = [roster EXCEPT ![p] = @ \cup {from}]
    /\ NoReply(p)
    /\ UNCHANGED <<tab, strokes, doc, cursors, synced, crossed>>

Draw(p, ss) ==
    /\ strokes' = [strokes EXCEPT ![p] = ss]
    /\ NoReply(p)
    /\ UNCHANGED <<tab, doc, roster, cursors, synced, crossed>>

Newer(mine, other) == other.version > mine.version

Write(p, d) ==
    /\ doc' = IF Newer(doc[p], d) THEN [doc EXCEPT ![p] = d] ELSE doc
    /\ NoReply(p)
    /\ UNCHANGED <<tab, strokes, roster, cursors, synced, crossed>>

Point(p, from) ==
    /\ cursors' = [cursors EXCEPT ![p] = @ \cup {from}]
    /\ NoReply(p)
    /\ UNCHANGED <<tab, strokes, doc, roster, synced, crossed>>

SyncRequest(p, from) ==
    /\ Reply(p, Msg("sync-state", p, from,
               [strokes |-> strokes[p], doc |-> doc[p], synced |-> p \in synced]))
    /\ UNCHANGED <<tab, canvasVars, synced, crossed>>

\* Mutant: the strokes are added to what the page has.
SyncStateAdds(p, data) ==
    /\ strokes' = [strokes EXCEPT ![p] = data.strokes \o @]
    /\ doc' = IF Newer(doc[p], data.doc) THEN [doc EXCEPT ![p] = data.doc] ELSE doc
    /\ synced' = IF data.synced THEN synced \cup {p} ELSE synced
    /\ NoReply(p)
    /\ UNCHANGED <<tab, roster, cursors, crossed>>

\* Mutant: catching up brings the strokes only.
SyncStateStrokes(p, data) ==
    /\ strokes' = [strokes EXCEPT ![p] = data.strokes]
    /\ synced' = IF data.synced THEN synced \cup {p} ELSE synced
    /\ NoReply(p)
    /\ UNCHANGED <<tab, doc, roster, cursors, crossed>>

SyncState(p, data) ==
    /\ strokes' = [strokes EXCEPT ![p] = data.strokes]
    /\ doc' = IF Newer(doc[p], data.doc) THEN [doc EXCEPT ![p] = data.doc] ELSE doc
    /\ synced' = IF data.synced THEN synced \cup {p} ELSE synced
    /\ NoReply(p)
    /\ UNCHANGED <<tab, roster, cursors, crossed>>

\* Mutant: a departed member's cursor stays.
PeerLeftCursor(p, q) ==
    /\ roster' = [roster EXCEPT ![p] = @ \ {q}]
    /\ NoReply(p)
    /\ UNCHANGED <<tab, strokes, doc, cursors, synced, crossed>>

PeerLeft(p, q) ==
    /\ roster' = [roster EXCEPT ![p] = @ \ {q}]
    /\ cursors' = [cursors EXCEPT ![p] = @ \ {q}]
    /\ NoReply(p)
    /\ UNCHANGED <<tab, strokes, doc, synced, crossed>>

Receive(p) ==
    /\ down[p] # <<>>
    /\ LET m == Head(down[p]) IN
         \/ m.kind = "welcome" /\ Start(p, m.data)
         \/ m.kind = "hello" /\ Hello(p, m.from)
         \/ m.kind = "hi" /\ Hi(p, m.from)
         \/ m.kind = "stroke" /\ Draw(p, Append(strokes[p], m.data))
         \/ m.kind = "clear" /\ Draw(p, <<>>)
         \/ m.kind = "doc" /\ Write(p, m.data)
         \/ m.kind = "cursor" /\ Point(p, m.from)
         \/ m.kind = "sync-request" /\ SyncRequest(p, m.from)
         \/ m.kind = "sync-state" /\ SyncState(p, m.data)
         \/ m.kind = "peer-left" /\ PeerLeft(p, m.from)
    /\ UNCHANGED <<room, up, drawn, ops>>

BoardNext ==
    \/ \E p \in Members :
          \/ JoinBoard(p)
          \/ LeaveBoard(p)
          \/ Relay(p)
          \/ Receive(p)
          \/ Clear(p)
          \/ SetDoc(p)
          \/ MoveCursor(p)
          \/ \E s \in Strokes : AddStroke(p, s)

BoardSpec == BoardInit /\ [][BoardNext]_boardVars
----------------------------------------------------------------------------
(***************************************************************************)
(* Properties                                                              *)
(***************************************************************************)
Quiet == \A p \in Members : up[p] = <<>> /\ down[p] = <<>>

\* Presence converges: once all messages have arrived, every page shows exactly
\* the members who are in the room, and cursors of those only, however their
\* arrivals, greetings and departures crossed.
PresenceAgrees ==
    Quiet => \A p \in room : roster[p] = room /\ cursors[p] \subseteq room \ {p}

\* No stroke is drawn twice: what a newcomer hears while it waits for the board is
\* replaced by the board, and what it hears after is not part of it.
NoStrokeTwice == \A p \in Members : IsInjective(strokes[p])

\* The boards converge: the members who caught up end with notes of the same version,
\* and see the same strokes unless a stroke was drawn while the board was being
\* cleared or somebody was catching up.
BoardsAgree ==
    Quiet => \A p, q \in room \cap synced :
        /\ doc[p].version = doc[q].version
        /\ crossed \/ Range(strokes[p]) = Range(strokes[q])
=============================================================================

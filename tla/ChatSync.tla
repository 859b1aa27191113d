------------------------------ MODULE ChatSync ------------------------------
(***************************************************************************)
(* The messages of a chat page and of the server: the reducer and the      *)
(* effects of apps/chat/frontend (contexts/chat-context.tsx), the inbox    *)
(* they listen to (realtime/infrastructure/inbox-client.ts), and the       *)
(* services/messageService.js and realtime/hub.js that feed it.            *)
(*                                                                         *)
(* One page, Me's, is followed; the others are alike.  Pushes come down    *)
(* one socket in order and are lost while it is down; answers over HTTP    *)
(* come in any order relative to them.  The server changes a message and   *)
(* pushes the change in one turn of its event loop, but a new message is   *)
(* in the store while the conversation's document is being written, and    *)
(* is pushed only then.  React's state is taken to be rendered at once.    *)
(* The store keeps every message: it cuts a conversation at 2000, which    *)
(* none is taken to have, and that is far beyond what a history answers.   *)
(***************************************************************************)
EXTENDS Naturals, Sequences, SequencesExt

CONSTANTS
    Users, Me,          \* the members of the conversations, and whose page this is
    Convs,
    Messages,           \* the messages that may be sent, each once
    Conv, Sender,       \* functions: a message's conversation and author
    NoConv,             \* no conversation is open
    Window,             \* how many messages a history answers (200 in message-gateway.ts)
    MaxOps,             \* bound on edits, deletions and reactions
    MaxFaults           \* bound on lost connections, failed requests and failed writes

ASSUME MessagesAssumption ==
    /\ Me \in Users /\ NoConv \notin Convs
    /\ Conv \in [Messages -> Convs] /\ Sender \in [Messages -> Users]
    /\ Window \in Nat \ {0} /\ MaxOps \in Nat /\ MaxFaults \in Nat

VARIABLES
    store,    \* store[m]: the message as the server has it
    stored,   \* stored[c]: how many messages c has got
    place,    \* place[m]: the place of m among them
    sending,  \* sending[m]: "unsent", "posted", "stored", "pushed" or "failed"
    pushes,   \* history: pushes[c] counts the changes of c that Me is owed
    link,     \* Me's inbox: "new" (never joined), "up", "deaf" (joined, and not
              \* subscribed) or "down"
    inbox,    \* the events on their way to the page
    shown,    \* shown[m]: the message as the page has it (state.messages)
    loaded,   \* the conversations whose history the page has fetched
    active,   \* the open conversation
    fetch,    \* fetch[i]: a history request: none, asked or answered
    reply,    \* reply[m]: the answer to the page's own sending of m
    seen,     \* history: seen[c] is the last change that reached the page, or was lost
    missed,   \* history: the conversations of which an event was lost
    overtaken,\* history: those where an answer came after newer events
    ops, faults

serverVars == <<store, stored, place, sending, pushes>>
pageVars == <<shown, loaded, active>>
historyVars == <<seen, missed, overtaken>>
vars == <<serverVars, link, inbox, pageVars, fetch, reply, historyVars, ops, faults>>

\* preview: whether a message shows what it replies to (replyPreview).
Record == [text: 0..MaxOps + 1, deleted: BOOLEAN, likes: SUBSET Users, preview: BOOLEAN]
Absent == [text |-> 0, deleted |-> FALSE, likes |-> {}, preview |-> FALSE]
Fresh(p) == [Absent EXCEPT !.text = 1, !.preview = p]
Gone == [Absent EXCEPT !.deleted = TRUE]
Of(c) == {m \in Messages : Conv[m] = c}

\* Window newer messages have come after m: no history has it any more.
Passed(m) == stored[Conv[m]] - place[m] >= Window

Slots == {1, 2}
Idle == [state |-> "idle", conv |-> NoConv, at |-> 0, data |-> <<>>]
Asked(c) == [Idle EXCEPT !.state = "asked", !.conv = c]
NoReply == [at |-> 0, data |-> Absent]

TypeOK ==
    /\ store \in [Messages -> Record] /\ shown \in [Messages -> Record]
    /\ sending \in [Messages -> {"unsent", "posted", "stored", "pushed", "failed"}]
    /\ pushes \in [Convs -> Nat] /\ \A c \in Convs : seen[c] \in 0..pushes[c]
    /\ stored \in [Convs -> Nat] /\ \A m \in Messages : place[m] \in 0..stored[Conv[m]]
    /\ link \in {"new", "up", "deaf", "down"} /\ (link # "up" => inbox = <<>>)
    /\ \A e \in Range(inbox) : e.kind \in {"message", "edited", "deleted", "reaction"}
    /\ loaded \in SUBSET Convs /\ active \in Convs \cup {NoConv}
    /\ \A i \in Slots : fetch[i].state \in {"idle", "asked", "answered"}
    /\ \A m \in Messages : reply[m].data \in Record
    /\ missed \in SUBSET Convs /\ overtaken \in SUBSET Convs
    /\ ops \in 0..MaxOps /\ faults \in 0..MaxFaults

Init ==
    /\ store = [m \in Messages |-> Absent] /\ shown = store
    /\ sending = [m \in Messages |-> "unsent"]
    /\ place = [m \in Messages |-> 0]
    /\ pushes = [c \in Convs |-> 0] /\ seen = pushes /\ stored = pushes
    /\ link = "new" /\ inbox = <<>>
    /\ loaded = {} /\ active = NoConv
    /\ fetch = [i \in Slots |-> Idle]
    /\ reply = [m \in Messages |-> NoReply]
    /\ missed = {} /\ overtaken = {}
    /\ ops = 0 /\ faults = 0

(***************************************************************************)
(* The hub                                                                 *)
(***************************************************************************)
\* pushToUsers: onto the inbox's socket if the hub is subscribed, or nowhere.
Push(kind, m, data) ==
    LET c == Conv[m] IN
    /\ pushes' = [pushes EXCEPT ![c] = @ + 1]
    /\ IF link = "up"
       THEN /\ inbox' = Append(inbox, [kind |-> kind, msg |-> m, at |-> pushes[c] + 1, data |-> data])
            /\ UNCHANGED <<seen, missed>>
       ELSE /\ seen' = [seen EXCEPT ![c] = pushes[c] + 1]
            /\ missed' = missed \cup {c}
            /\ UNCHANGED inbox
    /\ UNCHANGED overtaken

(***************************************************************************)
(* The message service                                                     *)
(***************************************************************************)
\* _deliver: the message, a reply or not, is the store's last of its conversation,
\* which is not yet touched.
Store(m) ==
    LET c == Conv[m] IN
    /\ sending[m] = IF Sender[m] = Me THEN "posted" ELSE "unsent"
    /\ \E p \in BOOLEAN : (p => stored[c] > 0) /\ store' = [store EXCEPT ![m] = Fresh(p)]
    /\ stored' = [stored EXCEPT ![c] = @ + 1]
    /\ place' = [place EXCEPT ![m] = stored[c] + 1]
    /\ sending' = [sending EXCEPT ![m] = "stored"]
    /\ UNCHANGED <<pushes, link, inbox, pageVars, fetch, reply, historyVars, ops, faults>>

\* Mutant: what is pushed is the message as it was sent.
DeliverCopy(m) ==
    /\ sending[m] = "stored"
    /\ sending' = [sending EXCEPT ![m] = "pushed"]
    /\ Push("message", m, Fresh(store[m].preview))
    /\ reply' = IF Sender[m] = Me
                THEN [reply EXCEPT ![m] = [at |-> pushes[Conv[m]] + 1, data |-> store[m]]] ELSE reply
    /\ UNCHANGED <<store, stored, place, link, pageVars, fetch, ops, faults>>

\* The rest of _deliver and the route's answer: both carry the store's own record,
\* with what happened to it since.
Deliver(m) ==
    /\ sending[m] = "stored"
    /\ sending' = [sending EXCEPT ![m] = "pushed"]
    /\ Push("message", m, store[m])
    /\ reply' = IF Sender[m] = Me
                THEN [reply EXCEPT ![m] = [at |-> pushes[Conv[m]] + 1, data |-> store[m]]] ELSE reply
    /\ UNCHANGED <<store, stored, place, link, pageVars, fetch, ops, faults>>

\* The conversation's document cannot be written: the sender gets an error, nobody
\* is told, and the message stays in the store.
DeliverFails(m) ==
    /\ sending[m] = "stored" /\ faults < MaxFaults
    /\ faults' = faults + 1
    /\ sending' = [sending EXCEPT ![m] = "failed"]
    /\ pushes' = [pushes EXCEPT ![Conv[m]] = @ + 1]
    /\ seen' = [seen EXCEPT ![Conv[m]] = pushes'[Conv[m]]]
    /\ missed' = missed \cup {Conv[m]}
    /\ UNCHANGED <<store, stored, place, link, inbox, pageVars, fetch, reply, overtaken, ops>>

\* A member changes m to r, which the hub reports as an event of this kind.
Change(m, r, kind) ==
    /\ store[m] # Absent /\ ops < MaxOps
    /\ ops' = ops + 1
    /\ store' = [store EXCEPT ![m] = r]
    /\ Push(kind, m, r)
    /\ UNCHANGED <<stored, place, sending, link, pageVars, fetch, reply, faults>>

Edit(m) ==
    ~store[m].deleted /\ Change(m, [store[m] EXCEPT !.text = @ + 1], "edited")

Delete(m) == Change(m, Gone, "deleted")

React(u, m) ==
    /\ ~store[m].deleted
    /\ Change(m, [store[m] EXCEPT !.likes = IF u \in @ THEN @ \ {u} ELSE @ \cup {u}], "reaction")

(***************************************************************************)
(* The page                                                                *)
(***************************************************************************)
Request(c) ==
    /\ \E i \in Slots : fetch[i] = Idle
    /\ LET i == CHOOSE i \in Slots : fetch[i] = Idle
       IN  fetch' = [fetch EXCEPT ![i] = Asked(c)]

Open(c) ==
    /\ active # c
    /\ active' = c
    /\ IF c \in loaded THEN UNCHANGED fetch ELSE Request(c)
    /\ UNCHANGED <<serverVars, link, inbox, shown, loaded, reply, historyVars, ops, faults>>

CloseActive ==
    /\ active' = NoConv
    /\ UNCHANGED <<serverVars, link, inbox, shown, loaded, fetch, reply, historyVars, ops, faults>>

SendText(m) ==
    /\ Sender[m] = Me /\ sending[m] = "unsent" /\ active = Conv[m]
    /\ sending' = [sending EXCEPT ![m] = "posted"]
    /\ UNCHANGED <<store, stored, place, pushes, link, inbox, pageVars, fetch, reply, historyVars, ops, faults>>

\* upsert-message
Sent(m) ==
    /\ reply[m] # NoReply
    /\ shown' = [shown EXCEPT ![m] = reply[m].data]
    /\ overtaken' = IF reply[m].at < seen[Conv[m]] THEN overtaken \cup {Conv[m]} ELSE overtaken
    /\ reply' = [reply EXCEPT ![m] = NoReply]
    /\ UNCHANGED <<serverVars, link, inbox, loaded, active, fetch, seen, missed, ops, faults>>

\* The last messages of the conversation; the page asks for no others.
History(i) ==
    /\ fetch[i].state = "asked"
    /\ LET c == fetch[i].conv IN
         fetch' = [fetch EXCEPT ![i] = [state |-> "answered", conv |-> c, at |-> pushes[c],
                                        data |-> [m \in Of(c) |-> IF Passed(m) THEN Absent ELSE store[m]]]]
    /\ UNCHANGED <<serverVars, link, inbox, pageVars, reply, historyVars, ops, faults>>

\* set-messages: the conversation's messages are replaced.
Fetched(i) ==
    /\ fetch[i].state = "answered"
    /\ LET f == fetch[i]
           late == f.at < seen[f.conv]
       IN  /\ shown' = [m \in Messages |-> IF m \in Of(f.conv) THEN f.data[m] ELSE shown[m]]
           /\ loaded' = loaded \cup {f.conv}
           /\ overtaken' = IF late THEN overtaken \cup {f.conv} ELSE overtaken \ {f.conv}
           /\ missed' = IF late THEN missed ELSE missed \ {f.conv}
    /\ fetch' = [fetch EXCEPT ![i] = Idle]
    /\ UNCHANGED <<serverVars, link, inbox, active, reply, seen, ops, faults>>

FetchFails(i) ==
    /\ fetch[i].state # "idle" /\ faults < MaxFaults
    /\ faults' = faults + 1
    /\ fetch' = [fetch EXCEPT ![i] = Idle]
    /\ UNCHANGED <<serverVars, link, inbox, pageVars, reply, historyVars, ops>>

\* The reducer's upsert-message and patch-message; a message that was deleted keeps
\* showing what it replied to.
Applied(e) ==
    LET old == shown[e.msg] IN
    CASE e.kind = "message" -> e.data
      [] e.kind # "message" /\ old = Absent -> Absent
      [] e.kind = "edited" /\ old # Absent -> [old EXCEPT !.text = e.data.text]
      [] e.kind = "deleted" /\ old # Absent -> [Gone EXCEPT !.preview = old.preview]
      [] e.kind = "reaction" /\ old # Absent -> [old EXCEPT !.likes = e.data.likes]

Receive ==
    /\ inbox # <<>>
    /\ LET e == Head(inbox) IN
         /\ shown' = [shown EXCEPT ![e.msg] = Applied(e)]
         /\ seen' = [seen EXCEPT ![Conv[e.msg]] = IF e.at > @ THEN e.at ELSE @]
    /\ inbox' = Tail(inbox)
    /\ UNCHANGED <<serverVars, link, loaded, active, fetch, reply, missed, overtaken, ops, faults>>

\* The connection is lost, and with it what is on its way.
Drop ==
    /\ link \in {"up", "deaf"} /\ faults < MaxFaults
    /\ faults' = faults + 1
    /\ link' = "down" /\ inbox' = <<>>
    /\ LET lost == {Conv[e.msg] : e \in Range(inbox)} IN
         /\ missed' = missed \cup lost
         /\ seen' = [c \in Convs |-> IF c \in lost THEN pushes[c] ELSE seen[c]]
    /\ UNCHANGED <<serverVars, pageVars, fetch, reply, overtaken, ops>>

\* The inbox is joined, the hub's subscription made or (if the room was there and had
\* emptied) not.  Nothing is fetched for the first time it is.
Joined ==
    /\ link = "new"
    /\ link' \in {"up", "deaf"}
    /\ UNCHANGED <<serverVars, inbox, pageVars, fetch, reply, historyVars, ops, faults>>

\* The inbox is back: the list and the open conversation are fetched again.
Reconnect ==
    /\ link = "down"
    /\ link' \in {"up", "deaf"}
    /\ IF active = NoConv THEN UNCHANGED fetch ELSE Request(active)
    /\ UNCHANGED <<serverVars, inbox, pageVars, reply, historyVars, ops, faults>>

Next ==
    \/ \E m \in Messages :
          \/ Store(m) \/ Deliver(m) \/ DeliverFails(m)
          \/ Edit(m) \/ Delete(m)
          \/ SendText(m) \/ Sent(m)
          \/ \E u \in Users : React(u, m)
    \/ \E c \in Convs : Open(c)
    \/ \E i \in Slots : History(i) \/ Fetched(i) \/ FetchFails(i)
    \/ CloseActive \/ Receive \/ Joined \/ Drop \/ Reconnect

Spec == Init /\ [][Next]_vars
----------------------------------------------------------------------------
(***************************************************************************)
(* Properties                                                              *)
(***************************************************************************)
\* Nothing is on its way between the page and the server.
Quiet ==
    /\ inbox = <<>>
    /\ \A i \in Slots : fetch[i] = Idle
    /\ \A m \in Messages : reply[m] = NoReply /\ sending[m] \notin {"posted", "stored"}

\* What the page shows of m is what the server has, but for what a deleted message
\* replied to: 'message-deleted' leaves replyPreview, which the store has cleared.
Same(m) ==
    \/ shown[m] = store[m]
    \/ store[m].deleted /\ shown[m] = [store[m] EXCEPT !.preview = shown[m].preview]

\* The page converges: once everything has arrived, a conversation it has loaded
\* shows the messages, edits, deletions and reactions the server has, however pushes
\* and answers interleaved.  Named exceptions: an event was lost (before the inbox was
\* first joined, while it was down or not subscribed, or of a failed request) and the
\* conversation was not fetched since; an answer came after newer events; a message
\* that Window newer ones have put out of every history is shown right or not at all.
PageConverges ==
    Quiet => \A c \in loaded \ (missed \cup overtaken) : \A m \in Of(c) :
                Same(m) \/ (shown[m] = Absent /\ Passed(m))
=============================================================================

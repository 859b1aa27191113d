--------------------------- MODULE Conversations ---------------------------
(***************************************************************************)
(* A conversation of the chat: who is in it                                *)
(* (backend/src/services/conversationService.js, the routes of             *)
(* backend/src/http/routes.js) and whether Me's page lists it (frontend    *)
(* contexts/chat-context.tsx).                                             *)
(*                                                                         *)
(* Membership is kept twice, in the conversation's document and in every   *)
(* user's own list, and a request changes the one, then the other, then    *)
(* pushes the news.  The page turns news into requests, whose answers come *)
(* in any order.  A document's change is in the cache in one step          *)
(* (DocumentStore), and its write may fail after that.                     *)
(***************************************************************************)
EXTENDS Inbox, FiniteSets, SequencesExt

CONSTANTS
    Kinds,    \* the types of conversation
    Nobody,   \* no user, no conversation
    RequestIds, \* bound: the requests the users make, in this order
    MaxAsks   \* bound: the page's GETs in flight


RouteKinds == {"create", "add", "remove", "rename"}

VARIABLES
    kind,     \* conv.type
    conv,     \* the document, or Nobody
    listed,   \* the users whose conversations name it
    req,      \* req[r]: what request r does, and how far it is
    queue,    \* the pushes on their way to the page
    asks,     \* the page's GETs: of the conversation, or of the list
    shown,    \* what the page shows of it, or Nobody
    now,      \* history: counts the changes of the document and of Me's list
    changed,  \* history: when Me's list changed last
    age,      \* history: when the server said the latest of what was shown
    missed,   \* history: news was lost since the list the page shows was read
    overtaken,\* history: an older answer was shown over a newer one
    torn      \* history: users whom two requests were about at once, or whose
              \* list, or the document before it, could not be written

serverVars == <<conv, listed, req, torn, now, changed>>
clientVars == <<queue, asks, shown, age, missed, overtaken>>
conversationVars == <<inboxVars, kind, serverVars, clientVars>>

Documents == [members : SUBSET Users, admins : SUBSET Users, title : Nat]
Views == [members : SUBSET Users, title : Nat]

ASSUME ConversationAssumption ==
    /\ Nobody \notin Users \cup Documents \cup Views
    /\ MaxAsks \in Nat /\ RequestIds \subseteq Nat

View(doc) == [members |-> doc.members, title |-> doc.title]
Idle == [op |-> "none", by |-> Nobody, about |-> {}, pc |-> "idle",
         lists |-> {}, fails |-> FALSE, doc |-> Nobody, at |-> 0]

Over(q) == [Idle EXCEPT !.pc = "done", !.op = q.op]

ConversationTypeOK ==
    /\ InboxTypeOK
    /\ kind \in Kinds
    /\ conv \in Documents \cup {Nobody}
    /\ listed \in SUBSET Users
    /\ \A r \in RequestIds : req[r].pc \in {"idle", "new", "lists", "push", "answer", "done"}
    /\ \A i \in DOMAIN queue : queue[i].type \in {"added", "updated", "removed"}
    /\ \A i \in DOMAIN asks : asks[i].what \in {"conversation", "list"}
    /\ shown \in Views \cup {Nobody}
    /\ conv = Nobody => shown = Nobody /\ listed = {}

\* Of a broadcast list the recipients are no members, only its owner is.
isMember(doc, u) == IF kind = "broadcast" THEN u \in doc.admins ELSE u \in doc.members
isAdmin(doc, u) == u \in doc.admins

\* Whose lists are to name a conversation that has been created.
Owners(doc) == IF kind = "broadcast" THEN doc.admins ELSE doc.members

NewDocument(u, us) ==
    [members |-> IF kind = "broadcast" THEN us ELSE us \cup {u},
     admins |-> IF kind = "dm" THEN {} ELSE {u},
     title |-> 0]

\* There is no conversation yet, or one that somebody made and whose lists agree.
Exists ==
    \/ conv = Nobody /\ listed = {}
    \/ \E u \in Users, us \in SUBSET Users :
        /\ us # {} /\ (kind = "dm" => Cardinality(us \cup {u}) = 2)
        /\ conv = NewDocument(u, us \ {u})
        /\ listed = Owners(conv)

ConversationInit ==
    /\ InboxInit
    /\ kind \in Kinds
    /\ Exists
    /\ req = [r \in RequestIds |-> Idle]
    /\ queue = <<>> /\ asks = <<>>
    /\ shown = Nobody /\ now = 0 /\ changed = 0 /\ age = 0
    /\ missed = FALSE /\ overtaken = FALSE
    /\ torn = {}

(***************************************************************************)
(* conversationService.                                                    *)
(***************************************************************************)
Fails == Trouble /\ UNCHANGED <<room, at, sub, page, token, wire, stale>>

Joining(r) == req[r].op \in {"create", "add"}

\* A request that adds and one that removes are about the same users.
Crosses(r, us) == \E q \in RequestIds \ {r} :
    req[q].pc = "lists" /\ Joining(q) # Joining(r) /\ req[q].lists \cap us # {}

\* POST dm, group or broadcast: a DM that exists is answered with; the ids of
\* groups and lists are new, so there is one creation.
create(r, u, us) ==
    IF conv = Nobody
    THEN LET doc == NewDocument(u, us) IN
         /\ conv' = doc /\ now' = now + 1
         /\ req' = [req EXCEPT ![r] = [@ EXCEPT !.pc = "lists", !.lists = Owners(doc),
                       !.about = Owners(doc) \ {u}, !.doc = doc, !.at = now']]
    ELSE /\ kind = "dm"
         /\ req' = [req EXCEPT ![r] = [@ EXCEPT !.pc = "push", !.doc = conv, !.at = now]]
         /\ UNCHANGED <<conv, now>>

\* It is one DM that is modelled: whoever creates it means the same two.
Pair(us) ==
    /\ conv # Nobody => conv.members = us
    /\ \A q \in RequestIds : req[q].op = "create" /\ req[q].pc = "new" => req[q].about \cup {req[q].by} = us

\* The conditions that are checked on the document as it was loaded, before the
\* update waits for its turn.
Allowed(op, u, us) ==
    \/ /\ op = "create" /\ us # {} /\ u \notin us
       /\ IF kind = "dm" THEN Cardinality(us) = 1 /\ Pair(us \cup {u})
                         ELSE conv = Nobody /\ \A q \in RequestIds : req[q].op # "create"
    \/ /\ op # "create" /\ conv # Nobody /\ isMember(conv, u)
       /\ \/ op = "add" /\ kind = "group" /\ isAdmin(conv, u) /\ us # {}
          \/ op = "remove" /\ kind = "group" /\ Cardinality(us) = 1 /\ (us = {u} \/ isAdmin(conv, u))
          \/ op = "rename" /\ kind # "dm" /\ isAdmin(conv, u) /\ us = {}

\* A request is made and its document loaded; Me's page offers no renaming.
Ask(r) ==
    /\ req[r].pc = "idle" /\ \A q \in RequestIds : q < r => req[q].pc # "idle"
    /\ \E op \in RouteKinds, u \in Users, us \in SUBSET Users :
        /\ u = Me => page # "out" /\ op # "rename"
        /\ Allowed(op, u, us)
        /\ req' = [req EXCEPT ![r] = [@ EXCEPT !.op = op, !.by = u, !.about = us, !.pc = "new"]]
    /\ UNCHANGED <<conv, listed, torn, now, changed>>

\* conversationStore.update, and whose lists are to follow.
Update(r, doc, lists) ==
    /\ conv' = doc /\ now' = now + 1
    /\ req' = [req EXCEPT ![r] =
         [@ EXCEPT !.pc = "lists", !.lists = lists, !.about = lists, !.doc = doc, !.at = now']]
    /\ torn' = IF Crosses(r, lists) THEN torn \cup lists ELSE torn

addMembers(r, us) == Update(r, [conv EXCEPT !.members = @ \cup us], us \ conv.members)
removeMember(r, us) == Update(r, [conv EXCEPT !.members = @ \ us, !.admins = @ \ us], us)
rename(r) == Update(r, [conv EXCEPT !.title = @ + 1], {})

Change(r) ==
    /\ req[r].pc = "new"
    /\ \/ req[r].op = "create" /\ create(r, req[r].by, req[r].about) /\ UNCHANGED torn
       \/ req[r].op = "add" /\ addMembers(r, req[r].about)
       \/ req[r].op = "remove" /\ removeMember(r, req[r].about)
       \/ req[r].op = "rename" /\ rename(r)
    /\ UNCHANGED <<listed, changed>>

\* Whose list is next: a DM's two are updated one after the other.
Turn(r, u) ==
    u \in req[r].lists /\ (kind = "dm" /\ req[r].by \in req[r].lists => u = req[r].by)

Lists(r, u) ==
    /\ IF u = Me THEN now' = now + 1 /\ changed' = now' ELSE UNCHANGED <<now, changed>>
    /\ req' = [req EXCEPT ![r] = [@ EXCEPT !.lists = req[r].lists \ {u},
                   !.at = IF u = Me /\ ~Joining(r) THEN now' ELSE req[r].at]]
    /\ UNCHANGED <<conv, torn>>

\* Mutant: only additions reach the lists.
ListUpdateAdds(r, u) ==
    /\ req[r].pc = "lists" /\ Turn(r, u)
    /\ listed' = IF Joining(r) THEN listed \cup {u} ELSE listed
    /\ Lists(r, u)

\* _addToUserList and _removeFromUserList, in one user's document each.
ListUpdate(r, u) ==
    /\ req[r].pc = "lists" /\ Turn(r, u)
    /\ listed' = IF Joining(r) THEN listed \cup {u} ELSE listed \ {u}
    /\ Lists(r, u)

\* A write fails, so the request will, and these lists are not to be relied on.
Abandons(r, us) ==
    /\ req' = [req EXCEPT ![r] = [@ EXCEPT !.lists = req[r].lists \ us, !.fails = TRUE]]
    /\ torn' = torn \cup us /\ Fails
    /\ UNCHANGED <<conv, now, changed>>

\* A list's does, with the change in the cache or not; Promise.all lets the others go on.
ListFails(r, u) ==
    /\ req[r].pc = "lists" /\ Turn(r, u)
    /\ listed' \in {listed, IF Joining(r) THEN listed \cup {u} ELSE listed \ {u}}
    /\ Abandons(r, IF kind = "dm" THEN req[r].lists ELSE {u})

\* The document's own write is awaited until the first list is turned to.
Writing(r) ==
    /\ req[r].pc = "lists" /\ ~req[r].fails /\ req[r].at = now
    /\ req[r].lists = IF req[r].op = "create" THEN Owners(req[r].doc) ELSE req[r].about

\* It fails: the cache has the change already and keeps it, and no list follows.
DocumentFails(r) ==
    Writing(r) /\ Abandons(r, req[r].lists) /\ UNCHANGED listed

(***************************************************************************)
(* The route pushes the news and answers.                                  *)
(***************************************************************************)
\* What it has for Me.
News(r) ==
    LET q == req[r] IN
    IF q.op = "remove" /\ Me \in q.about THEN {"removed"}
    ELSE IF q.op \in {"create", "add"} /\ Me \in q.about THEN {"added"}
    ELSE IF q.op # "create" /\ Me \in q.doc.members THEN {"updated"}
    ELSE {}

\* News is lost: a list that was read before cannot make up for it.
Stale(as) == [i \in DOMAIN as |-> [as[i] EXCEPT !.fresh = FALSE]]
Loses == missed' = TRUE /\ asks' = Stale(asks)

Push(r) ==
    /\ req[r].pc = "push" \/ (req[r].pc = "lists" /\ req[r].lists = {} /\ ~req[r].fails)
    /\ LET news == SetToSeq([type : News(r), at : {req[r].at}]) IN
       IF Reaches \/ news = <<>>
       THEN queue' = queue \o news /\ UNCHANGED <<missed, asks>>
       ELSE Loses /\ UNCHANGED queue
    /\ req' = [req EXCEPT ![r] = IF @.by = Me THEN [@ EXCEPT !.pc = "answer"] ELSE Over(@)]
    /\ UNCHANGED <<conv, listed, torn, now, changed>>

\* A request whose document or lists could not all be written tells nobody,
\* and its user of an error.
Fail(r) ==
    /\ req[r].pc = "lists" /\ req[r].lists = {} /\ req[r].fails
    /\ req' = [req EXCEPT ![r] = Over(@)]
    /\ IF News(r) # {} \/ req[r].by = Me THEN Loses ELSE UNCHANGED <<missed, asks>>
    /\ UNCHANGED <<conv, listed, torn, now, changed, queue>>

(***************************************************************************)
(* The page: what it asks, and what it makes of the answers.               *)
(***************************************************************************)
NewAsk(what) == [what |-> what, stage |-> "asked", says |-> Nobody, at |-> 0, read |-> 0, fresh |-> TRUE]

\* Mutant: an answer about the conversation is shown only if it is shown already.
ShowsKnown(says, when, read) ==
    /\ shown' = IF shown = Nobody THEN shown ELSE says
    /\ age' = IF read > age THEN read ELSE age
    /\ overtaken' = (when < age \/ (overtaken /\ when = age))

\* upsert-conversation, remove-conversation and set-conversations, as of `when`,
\* and as it was read at `read`.
Shows(says, when, read) ==
    /\ shown' = says
    /\ age' = IF read > age THEN read ELSE age
    /\ overtaken' = (when < age \/ (overtaken /\ when = age))

\* handle(): news of the conversation is a reason to fetch it.
Receive ==
    /\ queue # <<>> /\ queue' = Tail(queue)
    /\ IF Head(queue).type = "removed"
       THEN Shows(Nobody, Head(queue).at, Head(queue).at) /\ UNCHANGED asks
       ELSE /\ Len(asks) < MaxAsks
            /\ asks' = Append(asks, NewAsk("conversation"))
            /\ UNCHANGED <<shown, age, overtaken>>
    /\ UNCHANGED missed

\* GET one: found, or no conversation of its user's.
fetchConversation(i) ==
    /\ asks[i].what = "conversation" /\ asks[i].stage = "asked"
    /\ asks' = IF conv # Nobody /\ isMember(conv, Me)
               THEN [asks EXCEPT ![i] = [@ EXCEPT !.stage = "answered", !.says = View(conv), !.at = now, !.read = now]]
               ELSE RemoveAt(asks, i)
    /\ UNCHANGED <<queue, shown, age, missed, overtaken>>

\* listForUser: the user's list, then the documents it names, whoever is in them.
listForUser(i) ==
    /\ asks[i].what = "list" /\ asks[i].stage = "asked"
    /\ asks' = [asks EXCEPT ![i] = [@ EXCEPT !.fresh = TRUE, !.read = now,
                   !.at = IF Me \in listed THEN now ELSE changed,
                   !.stage = IF Me \in listed THEN "named" ELSE "answered"]]
    /\ UNCHANGED <<queue, shown, age, missed, overtaken>>
ReadNamed(i) ==
    /\ asks[i].stage = "named"
    /\ asks' = [asks EXCEPT ![i] = [@ EXCEPT !.stage = "answered", !.says = View(conv)]]
    /\ UNCHANGED <<queue, shown, age, missed, overtaken>>

AnswerShown(i) ==
    /\ asks[i].stage = "answered"
    /\ Shows(asks[i].says, asks[i].at, asks[i].read)
    /\ missed' = IF asks[i].what = "list" /\ asks[i].fresh THEN FALSE ELSE missed
    /\ asks' = RemoveAt(asks, i)
    /\ UNCHANGED queue

\* A failing GET is ignored.
AskFails(i) ==
    /\ asks' = Stale(RemoveAt(asks, i)) /\ missed' = TRUE
    /\ Fails
    /\ UNCHANGED <<queue, shown, age, overtaken>>

\* A request that was allowed before its user left is answered with a
\* conversation that is no longer the user's.
Upserts(doc, when) ==
    /\ shown' = View(doc)
    /\ age' = IF when > age THEN when ELSE age
    /\ overtaken' = (~isMember(doc, Me) \/ when < age \/ (overtaken /\ when = age))

\* The page's own requests: what the answer says is shown; who leaves the group
\* forgets it, who removes another fetches it.
OwnAnswer(r) ==
    /\ req[r].pc = "answer"
    /\ req' = [req EXCEPT ![r] = Over(@)]
    /\ IF req[r].op # "remove" THEN Upserts(req[r].doc, req[r].at) /\ UNCHANGED asks
       ELSE IF Me \in req[r].about THEN Shows(Nobody, req[r].at, req[r].at) /\ UNCHANGED asks
       ELSE /\ Len(asks) < MaxAsks
            /\ asks' = Append(asks, NewAsk("conversation"))
            /\ UNCHANGED <<shown, age, overtaken>>
    /\ UNCHANGED <<conv, listed, torn, now, changed, queue, missed>>

\* What the connection does to the page: a socket that goes takes its pushes with
\* it; signing in and coming back load the list.
Connection ==
    /\ SignIn \/ Join \/ Drop \/ Reap \/ RoomCloses(Me)
    /\ LET loads == SignIn \/ (page = "reconnecting" /\ page' = "connected")
           lost == wire /\ ~wire' /\ queue # <<>> IN
       /\ loads => Len(asks) < MaxAsks
       /\ queue' = IF wire' THEN queue ELSE <<>>
       /\ missed' = (missed \/ lost)
       /\ LET old == IF lost THEN Stale(asks) ELSE asks
          IN asks' = IF loads THEN Append(old, NewAsk("list")) ELSE old
    /\ UNCHANGED <<serverVars, shown, age, overtaken>>

Serves(r) ==
    \/ (Ask(r) \/ Change(r) \/ \E u \in Users : ListUpdate(r, u)) /\ UNCHANGED inboxVars
    \/ DocumentFails(r) \/ \E u \in Users : ListFails(r, u)
Tells(r) == Push(r) \/ Fail(r)
Answers(i) ==
    \/ (fetchConversation(i) \/ listForUser(i) \/ ReadNamed(i) \/ AnswerShown(i)) /\ UNCHANGED inboxVars
    \/ AskFails(i)

ConversationNext ==
    /\ \/ \E r \in RequestIds : Serves(r) /\ UNCHANGED clientVars
       \/ \E r \in RequestIds : Tells(r) /\ UNCHANGED <<inboxVars, shown, age, overtaken>>
       \/ \E r \in RequestIds : OwnAnswer(r) /\ UNCHANGED inboxVars
       \/ Receive /\ UNCHANGED <<inboxVars, serverVars>>
       \/ \E i \in DOMAIN asks : Answers(i) /\ UNCHANGED serverVars
       \/ Connection
    /\ UNCHANGED kind

ConversationSpec == ConversationInit /\ [][ConversationNext]_conversationVars
----------------------------------------------------------------------------
(***************************************************************************)
(* Properties                                                              *)
(***************************************************************************)
Served == \A r \in RequestIds : req[r].pc \in {"idle", "done"}

\* Whoever is in a conversation has it in the own list, and nobody else has,
\* whatever requests cross: but for users that one request added and another
\* removed at once, whose list could not be written, or was not because the change of
\* the document, which the cache has and keeps, could not (nothing repairs that).
ListsAgree ==
    Served /\ conv # Nobody =>
        \A u \in Users \ torn : u \in listed <=> u \in Owners(conv)

\* When everything is delivered and answered, a connected page shows the
\* conversation as it is, or not at all, as its user's list says.  Named exceptions:
\* news was lost and no list read since, news that nobody was told included because a
\* write of the document or of a list failed after the cache had the change; an older
\* answer came last; the user's own list is one of those ListsAgree excepts.
ListConverges ==
    /\ Served /\ queue = <<>> /\ asks = <<>> /\ page = "connected" /\ sub[Me]
    /\ ~missed /\ ~overtaken /\ Me \notin torn
    => shown = IF Me \in listed THEN View(conv) ELSE Nobody
=============================================================================
